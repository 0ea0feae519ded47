---------------------------- MODULE RunLifecycle ----------------------------
(***************************************************************************)
(* The life of a run in the Agent Runtime: RuntimeService                  *)
(* (eee_agent/runtime/service.py) over RunRepository, SessionRepository    *)
(* and EventStore.                                                         *)
(*                                                                         *)
(* Durable state is one SQLite database; one committed write transaction   *)
(* is one step.  A status change and the events that report it are         *)
(* SEPARATE transactions, kept together by the service's state lock and by *)
(* the cancellation-deferred region _run_uncancelled: the region's events  *)
(* that are still to be appended are the variable left.  Everything else   *)
(* is in memory and lost when the process ends.                            *)
(*                                                                         *)
(* The event log is kept per run (the projection of the session's log on   *)
(* the run's events, in sequence order); session events are not in it.     *)
(***************************************************************************)
EXTENDS RunStates, Naturals, Sequences, FiniteSets

CONSTANTS
    Run, Session, NoRun, NoSession,
    MaxStream,        \* bound: streamed events per run
    MaxRestarts       \* bound: process ends (crash or shutdown) in a behaviour

ASSUME NoRunAssumption == NoRun \notin Run
ASSUME NoSessionAssumption == NoSession \notin Session
ASSUME BoundAssumption == MaxStream \in Nat /\ MaxRestarts \in Nat

VARIABLES
    session,    \* sessions.status: none, active, archived, deleted
    status,     \* runs.status
    home,       \* runs.session_id
    slot,       \* runtime_state.active_run_id
    log,        \* per run: its events, in sequence order
    phase,      \* down, reconciling, serving, stopping
    restarts,   \* process ends so far
    lock,       \* who holds _state_lock: free, task, stop, sweep
    held,       \* the run the holder is working on
    left,       \* events the holder has still to append
    owed,       \* per run: events _reconcile has still to append
    starting,   \* runs inside start_run's _accept_run region
    pc,         \* per run: where its execution task is
    aim,        \* per run: the status _handle_cancellation decided to write
    cancelled,  \* runs whose task has an unobserved cancel()
    sweep,      \* where _shutdown is: off, wait, read, aim,
                \* write, over
    sweepRun, sweepAim,
    trail,      \* history: the statuses each run has really had
    cut         \* history: runs that start_run, or a stop, left without an execution

durable == <<session, status, home, slot, log>>
region == <<lock, held, left>>
starts == <<starting, cut>>
tasks == <<starts, pc, aim, cancelled>>
sweeper == <<sweep, sweepRun, sweepAim>>
vars == <<durable, phase, restarts, region, owed, tasks, sweeper, trail>>

TaskPc == {"none", "ready", "prepare", "plan", "stream", "finalize",
           "message", "complete", "fail", "converge", "aim", "done"}
EventType == {"run.created", "run.state_changed", "model.failed", "run.failed",
              "message.assistant_final", "stream"}
Event == [type : EventType, from : RunStatus \cup {""}, to : RunStatus \cup {""}]

Plain(type) == [type |-> type, from |-> "", to |-> ""]
Changed(s, t) == [type |-> "run.state_changed", from |-> s, to |-> t]

(* State of a process that has just started *)
VolatileInit ==
    /\ lock = "free" /\ held = NoRun /\ left = <<>>
    /\ owed = [r \in Run |-> <<>>]
    /\ starting = {} /\ cancelled = {}
    /\ pc = [r \in Run |-> "none"]
    /\ aim = [r \in Run |-> "Cancelled"]
    /\ sweep = "off" /\ sweepRun = NoRun /\ sweepAim = "Cancelled"

Init ==
    /\ session = [s \in Session |-> "none"]
    /\ status = [r \in Run |-> "absent"]
    /\ home = [r \in Run |-> NoSession]
    /\ slot = NoRun
    /\ log = [r \in Run |-> <<>>]
    /\ phase = "serving" /\ restarts = 0
    /\ VolatileInit
    /\ trail = [r \in Run |-> <<>>] /\ cut = {}

----------------------------------------------------------------------------
(* Repository transactions and the persistence region *)

(* A registered task takes its first step before any database answer that  *)
(* arrives later is processed; only a repeated stop, which awaits nothing  *)
(* but a read, can already be queued ahead of it in the event loop.        *)
NoFreshTask == \A r \in Run : pc[r] # "ready"

Serving == phase = "serving" /\ NoFreshTask
Alive == phase \in {"serving", "stopping"} /\ NoFreshTask

(* Bug: a terminal status leaves the slot taken *)
MutWriteStatus(r, t) ==
    /\ status' = [status EXCEPT ![r] = t]
    /\ slot' = IF t = "Completed" /\ slot = r THEN NoRun ELSE slot
    /\ trail' = [trail EXCEPT ![r] = Append(@, t)]

(* A row written with a new status; a terminal one frees the slot if the   *)
(* slot is this run's (RunRepository.transition and fail).                 *)
WriteStatus(r, t) ==
    /\ status' = [status EXCEPT ![r] = t]
    /\ slot' = IF t \in Terminal /\ slot = r THEN NoRun ELSE slot
    /\ trail' = [trail EXCEPT ![r] = Append(@, t)]

(* EventStore.append succeeds only while the session and the run exist *)
Writable(r) == status[r] # "deleted"

(* Bug: the lock is not taken *)
MutEnter(who, r, t, events) ==
    /\ WriteStatus(r, t)
    /\ lock' = who /\ held' = r /\ left' = events

(* _transition_persist / _stop_critical / _failure_persist: take the lock, *)
(* commit the status, and owe the events.  Waiting for the lock is the     *)
(* guard; the status read under the lock is the one the transaction checks.*)
Enter(who, r, t, events) ==
    /\ lock = "free"
    /\ WriteStatus(r, t)
    /\ lock' = who /\ held' = r /\ left' = events

(* The holder's next event is committed (log) or refused *)
AppendLeft ==
    log' = [log EXCEPT ![held] = Append(@, Head(left))]

Release == lock' = "free" /\ held' = NoRun /\ left' = <<>>

(* Bug: the convergence loop stops after its first step *)
MutAfter(p) ==
    CASE p = "prepare" -> "plan"
      [] p = "plan" -> "stream"
      [] p = "finalize" -> "message"
      [] p = "aim" -> "done"
      [] p \in {"complete", "fail"} -> "converge"
      [] OTHER -> p

(* _run: what follows a transition that was persisted *)
After(p) ==
    CASE p = "prepare" -> "plan"
      [] p = "plan" -> "stream"
      [] p = "finalize" -> "message"
      [] p \in {"complete", "fail", "aim"} -> "converge"
      [] OTHER -> p

(* _run_uncancelled re-raises a deferred cancel after the region *)
TaskAfterRegion(r) ==
    /\ pc' = [pc EXCEPT ![r] = IF r \in cancelled THEN "converge" ELSE After(@)]
    /\ cancelled' = cancelled \ {r}

(* ... and an append that failed surfaces first: _run's handler, the end   *)
(* of _handle_failure, or _ensure_terminal, which gives up.                *)
TaskAfterError(r) ==
    /\ pc' = [pc EXCEPT ![r] =
                CASE @ = "fail" -> "converge" [] @ = "aim" -> "done"
                  [] OTHER -> "fail"]
    /\ cancelled' = cancelled \ {r}

(* Bug: a repeated stop cancels nothing and a first one forgets to cancel *)
MutCancelTask(r) == UNCHANGED cancelled

(* task.cancel(), unless the task is gone or was never registered *)
CancelTask(r) ==
    cancelled' = IF pc[r] \in {"none", "done"} THEN cancelled
                 ELSE cancelled \cup {r}

(* One more event of the persistence region is committed; with the last    *)
(* one the lock is released and the owner runs on.                         *)
RegionAppend ==
    /\ Alive /\ left # <<>> /\ Writable(held)
    /\ AppendLeft
    /\ IF Len(left) > 1
       THEN left' = Tail(left) /\ UNCHANGED <<lock, held, pc, cancelled, sweep>>
       ELSE /\ Release
            /\ \/ lock = "task" /\ TaskAfterRegion(held) /\ UNCHANGED sweep
               \/ lock = "stop" /\ CancelTask(held) /\ UNCHANGED <<pc, sweep>>
               \/ lock = "sweep" /\ sweep' = "read"
                    /\ UNCHANGED <<pc, cancelled>>
    /\ UNCHANGED <<session, status, home, slot, phase, restarts, owed,
                   starts, aim, sweepRun, sweepAim, trail>>

(* The session was deleted after a terminal status freed the slot and      *)
(* before the event was appended: the append raises session_not_found.     *)
RegionError ==
    /\ Alive /\ left # <<>> /\ ~Writable(held)
    /\ Release
    /\ TaskAfterError(held)
    /\ UNCHANGED <<durable, phase, restarts, owed, starts, aim, sweeper,
                   trail>>

----------------------------------------------------------------------------
(* Client operations *)

(* create_session *)
CreateSession(s) ==
    /\ Serving /\ session[s] = "none"
    /\ session' = [session EXCEPT ![s] = "active"]
    /\ UNCHANGED <<status, home, slot, log, phase, restarts, region, owed,
                   tasks, sweeper, trail>>

(* Bug: the active run of the session is not looked for *)
MutBusy(s) == FALSE

(* _ACTIVE_RUN_FOR_SESSION: the slot's run belongs to s *)
Busy(s) == slot # NoRun /\ home[slot] = s

(* archive_session: refused while the session has the active run *)
Archive(s) ==
    /\ Serving /\ session[s] = "active" /\ ~Busy(s)
    /\ session' = [session EXCEPT ![s] = "archived"]
    /\ UNCHANGED <<status, home, slot, log, phase, restarts, region, owed,
                   tasks, sweeper, trail>>

(* delete_session: the rows of the session's runs and events go with it *)
Delete(s) ==
    /\ Serving /\ session[s] \in {"active", "archived"} /\ ~Busy(s)
    /\ session' = [session EXCEPT ![s] = "deleted"]
    /\ status' = [r \in Run |-> IF home[r] = s THEN "deleted" ELSE status[r]]
    /\ log' = [r \in Run |-> IF home[r] = s THEN <<>> ELSE log[r]]
    /\ trail' = [r \in Run |-> IF home[r] = s THEN <<>> ELSE trail[r]]
    /\ UNCHANGED <<home, slot, phase, restarts, region, owed, tasks, sweeper>>

(* create_and_acquire's checks, all inside its transaction *)
Admissible(r, s) ==
    status[r] = "absent" /\ session[s] = "active" /\ slot = NoRun

(* start_run up to the COMMIT of create_and_acquire.  If the caller was    *)
(* cancelled while it awaited that COMMIT the row stays and nothing else   *)
(* of start_run happens.  (The await of _accept_run is cancellation-       *)
(* deferred: a caller cancelled there does not stop it.)                   *)
StartRun(r, s) ==
    /\ Serving /\ Admissible(r, s)
    /\ status' = [status EXCEPT ![r] = "Created"]
    /\ home' = [home EXCEPT ![r] = s]
    /\ slot' = r
    /\ trail' = [trail EXCEPT ![r] = <<"Created">>]
    /\ \/ starting' = starting \cup {r} /\ UNCHANGED cut
       \/ cut' = cut \cup {r} /\ UNCHANGED starting
    /\ UNCHANGED <<session, log, phase, restarts, region, owed, pc, aim,
                   cancelled, sweeper>>

(* _accept_run: commit run.created, create and register the task *)
AcceptRun(r) ==
    /\ r \in starting
    /\ log' = [log EXCEPT ![r] = Append(@, Plain("run.created"))]
    /\ starting' = starting \ {r}
    /\ pc' = [pc EXCEPT ![r] = "ready"]
    /\ UNCHANGED <<session, status, home, slot, phase, restarts, region, owed,
                   aim, cancelled, sweeper, trail, cut>>

(* stop_run, first request: StopRequested and its event, then the cancel.  *)
(* A client may stop a run whose start_run is still in flight: it finds it *)
(* in a session snapshot.                                                  *)
StopRun(r) ==
    /\ Serving
    /\ status[r] \in Active \ {"StopRequested", "Stopping"}
    /\ Enter("stop", r, "StopRequested", <<Changed(status[r], "StopRequested")>>)
    /\ UNCHANGED <<session, home, log, phase, restarts, owed, tasks, sweeper>>

(* stop_run, repeated: nothing to persist, only the cancel.  A run that    *)
(* has ended is left alone.                                                *)
StopAgain(r) ==
    /\ phase = "serving" /\ status[r] \in {"StopRequested", "Stopping"}
    /\ lock = "free"
    /\ CancelTask(r)
    /\ UNCHANGED <<durable, phase, restarts, region, owed, starts, pc, aim,
                   sweeper, trail>>

----------------------------------------------------------------------------
(* The run's execution task: _run_guarded, _run and their handlers *)

Goto(r, p) == pc' = [pc EXCEPT ![r] = p]
OnlyTask == UNCHANGED <<session, home, phase, restarts, owed, starts, sweeper>>

(* First step of the task.  A task cancelled before it never enters the    *)
(* body of _run_guarded: neither _run nor its finally is executed.         *)
TaskStart(r) ==
    /\ pc[r] = "ready"
    /\ Goto(r, IF r \in cancelled THEN "done" ELSE "prepare")
    /\ cut' = IF r \in cancelled THEN cut \cup {r} ELSE cut
    /\ UNCHANGED <<durable, phase, restarts, region, owed, starting, aim,
                   cancelled, sweeper, trail>>

TargetOf(p) ==
    CASE p = "prepare" -> "PreparingContext" [] p = "plan" -> "Planning"
      [] p = "finalize" -> "Finalizing" [] OTHER -> "Completed"

(* _transition_and_emit of the success path.  An illegal edge (a stop came *)
(* first) or a missing row raises into _run's handler.                     *)
TaskTransition(r) ==
    /\ Alive /\ pc[r] \in {"prepare", "plan", "finalize", "complete"}
    /\ LET t == TargetOf(pc[r])
       IN \/ /\ Legal(status[r], t)
             /\ Enter("task", r, t, <<Changed(status[r], t)>>)
             /\ UNCHANGED <<log, pc, aim, cancelled>>
          \/ /\ lock = "free" /\ ~Legal(status[r], t)
             /\ Goto(r, "fail") /\ cancelled' = cancelled \ {r}
             /\ UNCHANGED <<status, slot, log, region, aim, trail>>
    /\ OnlyTask

Streamed(r) == Len(SelectSeq(log[r], LAMBDA e : e.type = "stream"))

(* The runner yields an event, which is appended *)
StreamEvent(r) ==
    /\ Alive /\ pc[r] = "stream" /\ r \notin cancelled /\ Streamed(r) < MaxStream
    /\ log' = [log EXCEPT ![r] = Append(@, Plain("stream"))]
    /\ UNCHANGED <<status, slot, region, pc, aim, cancelled, trail>> /\ OnlyTask

(* The stream ends (the todo list is saved, best effort) or raises *)
StreamEnd(r) ==
    /\ Alive /\ pc[r] = "stream" /\ r \notin cancelled
    /\ Goto(r, "finalize") \/ Goto(r, "fail")
    /\ UNCHANGED <<status, slot, log, region, aim, cancelled, trail>> /\ OnlyTask

(* message.assistant_final *)
FinalMessage(r) ==
    /\ Alive /\ pc[r] = "message" /\ r \notin cancelled
    /\ log' = [log EXCEPT ![r] = Append(@, Plain("message.assistant_final"))]
    /\ Goto(r, "complete")
    /\ UNCHANGED <<status, slot, region, aim, cancelled, trail>> /\ OnlyTask

(* CancelledError at a plain await; the append awaited there may or may    *)
(* not have been committed.                                                *)
CancelDelivered(r) ==
    /\ Alive /\ pc[r] \in {"stream", "message"} /\ r \in cancelled
    /\ \/ UNCHANGED log
       \/ pc[r] = "message"
            /\ log' = [log EXCEPT ![r] = Append(@, Plain("message.assistant_final"))]
       \/ pc[r] = "stream" /\ Streamed(r) < MaxStream
            /\ log' = [log EXCEPT ![r] = Append(@, Plain("stream"))]
    /\ Goto(r, "converge") /\ cancelled' = cancelled \ {r}
    /\ UNCHANGED <<status, slot, region, aim, trail>> /\ OnlyTask

(* _failure_persist: only if neither an end nor a stop came first *)
FailureOwns(r) == status[r] \in Active \ {"StopRequested", "Stopping"}

(* _handle_failure: the Failed row, then its three events *)
TaskFail(r) ==
    /\ Alive /\ pc[r] = "fail"
    /\ \/ /\ FailureOwns(r)
          /\ Enter("task", r, "Failed",
                   <<Plain("model.failed"), Changed(status[r], "Failed"),
                     Plain("run.failed")>>)
          /\ UNCHANGED <<log, pc, aim, cancelled>>
       \/ /\ lock = "free" /\ ~FailureOwns(r)
          /\ Goto(r, "converge") /\ cancelled' = cancelled \ {r}
          /\ UNCHANGED <<status, slot, log, region, aim, trail>>
    /\ OnlyTask

(* Bug: a run that is Stopping is asked to stop again, for ever *)
MutNextOnStopStuck(st) ==
    IF st = "StopRequested" THEN "Stopping" ELSE "StopRequested"

(* _handle_cancellation: the next status on the way to Cancelled *)
NextOnStop(st) ==
    CASE st = "Stopping" -> "Cancelled" [] st = "StopRequested" -> "Stopping"
      [] OTHER -> "StopRequested"

(* _ensure_terminal / _handle_cancellation read the row without the lock *)
TaskConverge(r) ==
    /\ Alive /\ pc[r] = "converge"
    /\ IF status[r] \in Active
       THEN /\ aim' = [aim EXCEPT ![r] = NextOnStop(status[r])]
            /\ Goto(r, "aim") /\ UNCHANGED cancelled
       ELSE /\ Goto(r, "done") /\ cancelled' = cancelled \ {r}
            /\ UNCHANGED aim
    /\ UNCHANGED <<status, slot, log, region, trail>> /\ OnlyTask

(* ... and write under it; an edge that meanwhile became illegal is retried *)
TaskAim(r) ==
    /\ Alive /\ pc[r] = "aim"
    /\ \/ /\ Legal(status[r], aim[r])
          /\ Enter("task", r, aim[r], <<Changed(status[r], aim[r])>>)
          /\ UNCHANGED <<log, pc, aim, cancelled>>
       \/ /\ lock = "free" /\ ~Legal(status[r], aim[r])
          /\ Goto(r, "converge")
          /\ UNCHANGED <<status, slot, log, region, aim, cancelled, trail>>
    /\ OnlyTask

----------------------------------------------------------------------------
(* Shutdown, crash, restart *)

OnlySweep == UNCHANGED <<session, home, restarts, owed, tasks>>

(* _shutdown: cancel every task.  The server has been closed: no client    *)
(* operation is in flight.                                                 *)
ShutdownBegin ==
    /\ Serving /\ starting = {} /\ lock # "stop" /\ restarts < MaxRestarts
    /\ phase' = "stopping" /\ sweep' = "wait"
    /\ cancelled' = cancelled \cup {r \in Run : pc[r] \notin {"none", "done"}}
    /\ UNCHANGED <<durable, restarts, region, owed, starts, pc, aim,
                   sweepRun, sweepAim, trail>>

(* The tasks have ended or the graceful timeout has: read the active run *)
SweepStart ==
    /\ phase = "stopping" /\ sweep = "wait"
    /\ sweep' = IF slot = NoRun THEN "over" ELSE "read"
    /\ sweepRun' = slot
    /\ UNCHANGED <<status, slot, log, region, phase, sweepAim, trail>> /\ OnlySweep

SweepRead ==
    /\ phase = "stopping" /\ sweep = "read"
    /\ IF status[sweepRun] \in Active
       THEN sweep' = "aim" /\ sweepAim' = NextOnStop(status[sweepRun])
       ELSE sweep' = "over" /\ UNCHANGED sweepAim
    /\ UNCHANGED <<status, slot, log, region, phase, sweepRun, trail>> /\ OnlySweep

SweepAim ==
    /\ phase = "stopping" /\ sweep = "aim"
    /\ \/ /\ Legal(status[sweepRun], sweepAim)
          /\ Enter("sweep", sweepRun, sweepAim,
                   <<Changed(status[sweepRun], sweepAim)>>)
          /\ sweep' = "write"
       \/ /\ lock = "free" /\ ~Legal(status[sweepRun], sweepAim)
          /\ sweep' = "read" /\ UNCHANGED <<status, slot, region, trail>>
    /\ UNCHANGED <<log, phase, sweepRun, sweepAim>> /\ OnlySweep

(* The process ends: everything in memory is gone *)
ProcessEnds ==
    /\ phase' = "down" /\ restarts' = restarts + 1
    /\ lock' = "free" /\ held' = NoRun /\ left' = <<>>
    /\ owed' = [r \in Run |-> <<>>]
    /\ starting' = {} /\ cancelled' = {}
    /\ pc' = [r \in Run |-> "none"]
    /\ aim' = [r \in Run |-> "Cancelled"]
    /\ sweep' = "off" /\ sweepRun' = NoRun /\ sweepAim' = "Cancelled"
    /\ UNCHANGED <<durable, trail, cut>>

ShutdownEnd == phase = "stopping" /\ sweep = "over" /\ ProcessEnds

Crash == phase # "down" /\ restarts < MaxRestarts /\ ProcessEnds

(* reconcile_interrupted: one transaction fails every run left over and    *)
(* frees the slot; the two events per run follow one by one.               *)
Reconcile ==
    /\ phase = "down"
    /\ phase' = "reconciling"
    /\ status' = [r \in Run |-> IF status[r] \in Active THEN "Failed" ELSE status[r]]
    /\ trail' = [r \in Run |-> IF status[r] \in Active
                               THEN Append(trail[r], "Failed") ELSE trail[r]]
    /\ owed' = [r \in Run |-> IF status[r] \in Active
                              THEN <<Changed(status[r], "Failed"), Plain("run.failed")>>
                              ELSE <<>>]
    /\ slot' = NoRun
    /\ UNCHANGED <<session, home, log, restarts, region, tasks, sweeper>>

ReconcileEmit(r) ==
    /\ phase = "reconciling" /\ owed[r] # <<>>
    /\ log' = [log EXCEPT ![r] = Append(@, Head(owed[r]))]
    /\ owed' = [owed EXCEPT ![r] = Tail(@)]
    /\ UNCHANGED <<session, status, home, slot, phase, restarts, region, tasks,
                   sweeper, trail>>

Open ==
    /\ phase = "reconciling" /\ \A r \in Run : owed[r] = <<>>
    /\ phase' = "serving"
    /\ UNCHANGED <<durable, restarts, region, owed, tasks, sweeper, trail>>

----------------------------------------------------------------------------
TaskStep(r) ==
    \/ TaskTransition(r) \/ FinalMessage(r) \/ CancelDelivered(r)
    \/ TaskFail(r) \/ TaskConverge(r) \/ TaskAim(r)

ShutdownStep == SweepStart \/ SweepRead \/ SweepAim \/ ShutdownEnd

Next ==
    \/ \E s \in Session : CreateSession(s) \/ Archive(s) \/ Delete(s)
    \/ \E r \in Run, s \in Session : StartRun(r, s)
    \/ \E r \in Run :
          \/ AcceptRun(r) \/ StopRun(r) \/ StopAgain(r)
          \/ TaskStart(r) \/ TaskStep(r) \/ StreamEvent(r) \/ StreamEnd(r)
          \/ ReconcileEmit(r)
    \/ RegionAppend \/ RegionError
    \/ ShutdownBegin \/ ShutdownStep \/ Crash \/ Reconcile \/ Open

(* The event loop runs every task that can run, the lock is handed on in   *)
(* FIFO order, a shutdown that began goes on.  Nothing is assumed of the   *)
(* clients, of the model stream, of crashes or of who restarts a process.  *)
Fairness ==
    /\ \A r \in Run : WF_vars(AcceptRun(r) \/ TaskStart(r) \/ TaskStep(r))
    /\ WF_vars(RegionAppend \/ RegionError)
    /\ WF_vars(ShutdownStep)

Spec == Init /\ [][Next]_vars /\ Fairness

----------------------------------------------------------------------------
(* Properties *)

TypeOK ==
    /\ session \in [Session -> {"none", "active", "archived", "deleted"}]
    /\ status \in [Run -> RowState]
    /\ home \in [Run -> Session \cup {NoSession}]
    /\ slot \in Run \cup {NoRun}
    /\ log \in [Run -> Seq(Event)]
    /\ phase \in {"down", "reconciling", "serving", "stopping"}
    /\ restarts \in Nat
    /\ lock \in {"free", "task", "stop", "sweep"}
    /\ held \in Run \cup {NoRun}
    /\ left \in Seq(Event)
    /\ owed \in [Run -> Seq(Event)]
    /\ starting \subseteq Run /\ cancelled \subseteq Run
    /\ pc \in [Run -> TaskPc]
    /\ aim \in [Run -> RunStatus]
    /\ sweep \in {"off", "wait", "read", "aim", "write", "over"}
    /\ sweepRun \in Run \cup {NoRun} /\ sweepAim \in RunStatus
    /\ trail \in [Run -> Seq(RunStatus)] /\ cut \subseteq Run

(* The durable slot names exactly the run that has not ended: no run is    *)
(* active beside it, it is never left behind by a run that ended, and it   *)
(* is never cleared under a run that goes on (create_and_acquire,          *)
(* transition, fail, reconcile_interrupted).                               *)
SlotIsActiveRun == \A r \in Run : status[r] \in Active <=> slot = r

(* A run that has ended keeps its verdict for ever, through late stops,    *)
(* failures, sweeps and reconciliations; it can only be deleted.           *)
TerminalIsFinal ==
    [][\A r \in Run : status[r] \in Terminal => status'[r] \in {status[r], "deleted"}]_vars

(* The positions of the events of a type *)
At(events, type) == {i \in DOMAIN events : events[i].type = type}

(* The log tells one story per run: it reports a failure only for a run    *)
(* that failed and at most once, and never a model failure for a run that  *)
(* somebody stopped (_failure_persist, "A stop owns the terminal state").  *)
OneVerdict ==
    \A r \in Run :
        LET failed == At(log[r], "run.failed")
            broken == At(log[r], "model.failed")
        IN /\ failed \cup broken # {} => status[r] = "Failed"
           /\ \A i, j \in failed : i = j
           /\ \A i, j \in broken : i = j
           /\ broken # {} =>
                 \A i \in 1..Len(trail[r]) : trail[r][i] # "StopRequested"

(* A completed run has exactly one durable final answer in its log *)
CompletedIsAnswered ==
    \A r \in Run : status[r] = "Completed" =>
        \E i \in DOMAIN log[r] : At(log[r], "message.assistant_final") = {i}

(* The events of r that are committed to but not yet appended *)
Coming(r) == IF held = r THEN left ELSE owed[r]

(* e reports the k-th status change of the trail t *)
Tells(e, t, k) == k < Len(t) /\ e.from = t[k] /\ e.to = t[k + 1]

(* The log tells status changes of the trail t in their order, with their  *)
(* true from and to; the i-th report may lag behind the i-th change by the *)
(* changes that were lost before it.                                       *)
ToldInOrder(t, told, lost) ==
    LET reports == At(told, "run.state_changed")
    IN \E lag \in [reports -> 0..lost] :
         /\ \A i, j \in reports : i <= j => lag[i] <= lag[j]
         /\ \A i \in reports :
               Tells(told[i], t, Cardinality({j \in reports : j <= i}) + lag[i])

(* ... no more changes are lost than the process ended, and a change whose *)
(* event is still coming is the latest one.                                *)
Follows(t, told, coming, ends) ==
    LET changes == IF t = <<>> THEN 0 ELSE Len(t) - 1
        reports == Cardinality(At(told, "run.state_changed"))
        soon == At(coming, "run.state_changed")
    IN /\ \E lost \in 0..ends :
            /\ changes = reports + lost + IF soon = {} THEN 0 ELSE 1
            /\ ToldInOrder(t, told, lost)
       /\ \A i \in soon : Tells(coming[i], t, changes)

(* The log reports every status change that happened; each end of a        *)
(* process can cost at most one of them.                                   *)
LogFollowsStatus ==
    \A r \in Run :
        Writable(r) => Follows(trail[r], log[r], Coming(r), restarts)

(* Without a process end, run.created is the first event of every run, or  *)
(* a stop overtook start_run.                                              *)
CreatedComesFirst ==
    restarts = 0 => \A r \in Run : log[r] # <<>> =>
        log[r][1] \in {Plain("run.created"), Changed("Created", "StopRequested")}

(* While the service is serving, a run that has not ended has its task, or *)
(* start_run is about to create it; the only runs "left without its task"  *)
(* are those whose start was cut: the caller was cancelled in the COMMIT   *)
(* of create_and_acquire, or two stops met the task before its first step. *)
AcceptedRunHasTask ==
    phase = "serving" => \A r \in Run : status[r] \in Active =>
                    r \in starting \cup cut \/ pc[r] \notin {"none", "done"}

(* A run whose start was cut is never executed, not even in part: it holds *)
(* the slot and its log stays without an answer.                           *)
CutIsNeverExecuted ==
    \A r \in cut :
        /\ pc[r] \in {"none", "done"} /\ status[r] # "Completed"
        /\ At(log[r], "stream") \cup At(log[r], "message.assistant_final") = {}

(* When the shutdown sweep is over no run is left active, even if tasks    *)
(* outlived the graceful timeout and raced it.                             *)
SweepLeavesNothing == sweep = "over" => \A r \in Run : status[r] \notin Active

(* What is recorded of a run is what happened to it: one verdict, one      *)
(* answer if it completed, every status change in order, and nothing left  *)
(* active behind a shutdown (_transition_persist, _failure_persist, sweep).*)
RecordTellsTheRun ==
    OneVerdict /\ CompletedIsAnswered /\ LogFollowsStatus /\ SweepLeavesNothing

(* A run that start_run accepted is served from its beginning or not at    *)
(* all: run.created opens its log, and while the service serves, a run     *)
(* that has not ended has its task, whatever callers and stops do.  The    *)
(* two ways to lose it are named, and what they leave was never executed   *)
(* (start_run, _accept_run, stop_run).                                     *)
AcceptedIsServed == CreatedComesFirst /\ AcceptedRunHasTask /\ CutIsNeverExecuted

(* A stopped run ends: whatever its task was doing, and however often stop *)
(* was called, it reaches a terminal status unless the process goes down   *)
(* or its start was cut, so that there is no task to stop.                 *)
StopConverges ==
    \A r \in Run :
        status[r] = "StopRequested" ~>
            status[r] \notin Active \/ phase = "down" \/ r \in cut

(* A shutdown that began ends, with any task in any state *)
ShutdownCompletes == phase = "stopping" ~> phase = "down"

(* The service implements the abstract promise about runs *)
RS == INSTANCE RunSpec
ImplementsRunSpec == RS!Spec
=============================================================================
