-------------------------- MODULE MainThreadQueue --------------------------
(***************************************************************************)
(* The bounded FIFO through which the Secure Bridge hands work to          *)
(* Houdini's main thread (eee_agent/houdini_bridge/queue.py), together     *)
(* with the two threads that share it:                                     *)
(*                                                                         *)
(*   - the LOOP thread runs the bridge's asyncio server: it submits one    *)
(*     operation per request, polls the client for EOF while it waits, and *)
(*     closes the server (houdini_side/secure_bridge.py);                  *)
(*   - the MAIN thread pumps the queue from an idle callback and stops the *)
(*     host (houdini_side/secure_bridge_host.py).                          *)
(*                                                                         *)
(* A step is one critical section of the queue's lock with the thread-     *)
(* local code around it.  An entry is one submission attempt; the futures  *)
(* are settled by callbacks the loop runs later, in FIFO order.            *)
(***************************************************************************)
EXTENDS Naturals, Sequences, FiniteSets, SequencesExt

CONSTANTS
    Entry,        \* submission attempts (one per bridge request)
    RequestId,    \* request ids the clients choose
    IdOf,         \* the request id of each entry
    Capacity,     \* MainThreadReadQueue(capacity=...)
    NoEntry       \* _running is None

ASSUME IdAssumption == IdOf \in [Entry -> RequestId]
ASSUME CapacityAssumption == Capacity \in Nat \ {0}
ASSUME NoEntryAssumption == NoEntry \notin Entry

VARIABLES
    pending,      \* _pending: queued entries, oldest first
    running,      \* _running: the entry whose operation is executing
    discard,      \* entries with _Entry.discard set
    shut,         \* _shutdown
    callbacks,    \* call_soon_threadsafe callbacks not yet run by the loop
    future,       \* what each entry's future holds
    main,         \* where the main thread is
    popped,       \* the entry pump_one took from the queue, with its outcome
    now,          \* entries already overdue when pump_one read the clock
    late,         \* entries whose deadline has passed by now
    loop,         \* where the loop thread is
    eof,          \* entries whose client has closed its connection
    signalled,    \* entries whose waiter has polled EOF (it polls no more)
    pumpOn,       \* the idle callback is registered
    adapterOpen,  \* the Houdini adapter is open
    accepted,     \* history: entries submit() accepted, in order
    started,      \* history: operations started, in order
    cancelled     \* history: entries cancel() found

queueVars == <<pending, running, discard, shut>>
futureVars == <<callbacks, future>>
mainVars == <<main, popped, now>>
clientVars == <<eof, signalled>>
hostVars == <<loop, pumpOn, adapterOpen>>
history == <<accepted, started, cancelled>>
vars == <<queueVars, futureVars, mainVars, late, clientVars, hostVars, history>>

(* QueueItemState's terminal values; "failed" is the operation's own error *)
Outcome == {"completed", "failed", "cancelled", "expired", "rejected"}

Init ==
    /\ pending = <<>> /\ running = NoEntry /\ discard = {} /\ shut = FALSE
    /\ callbacks = <<>> /\ future = [e \in Entry |-> "none"]
    /\ main = "idle" /\ popped = [entry |-> NoEntry, outcome |-> "none"]
    /\ now = {} /\ late = {}
    /\ loop = "serving" /\ pumpOn = TRUE /\ adapterOpen = TRUE
    /\ eof = {} /\ signalled = {}
    /\ accepted = <<>> /\ started = <<>> /\ cancelled = {}

----------------------------------------------------------------------------
(* Queue internals *)

(* _is_pending_locked: the id is queued or running *)
IsPendingLocked(id) ==
    \/ running # NoEntry /\ IdOf[running] = id
    \/ \E i \in 1..Len(pending) : IdOf[pending[i]] = id

(* Bug: only queued entries are counted *)
MutPendingCountQueued == Len(pending)

(* pending_count: queued and running *)
PendingCount == Len(pending) + (IF running # NoEntry THEN 1 ELSE 0)

(* _resolve: schedule the outcome on the owning loop; a closed loop        *)
(* swallows it.  es is a sequence, resolved in its order.                  *)
Resolve(es, outcome) ==
    callbacks' = IF loop = "exited" THEN callbacks
                 ELSE callbacks \o [i \in 1..Len(es) |-> <<es[i], outcome>>]

(* The loop thread runs handlers unless close() blocks it or it has ended *)
LoopRuns == loop \in {"serving", "closed"}

----------------------------------------------------------------------------
(* Loop thread: submit, the EOF poll with cancel, callbacks, close *)

(* submit raises QueueRejected or QueueFull *)
Refuses(e) == shut \/ IsPendingLocked(IdOf[e]) \/ Len(pending) >= Capacity

(* _pending.append *)
Enqueue(e) == Append(pending, e)

(* submit, reached through _run_on_queue.  A refusal raises in the caller. *)
Submit(e) ==
    /\ LoopRuns /\ future[e] = "none"
    /\ IF Refuses(e)
       THEN /\ future' = [future EXCEPT ![e] = "refused"]
            /\ UNCHANGED <<pending, accepted>>
       ELSE /\ future' = [future EXCEPT ![e] = "pending"]
            /\ pending' = Enqueue(e)
            /\ accepted' = Append(accepted, e)
    /\ UNCHANGED <<running, discard, shut, callbacks, mainVars, late,
                   clientVars, hostVars, started, cancelled>>

(* Bug: a queued entry is resolved but stays in the queue *)
MutCancelKeepsEntry(id) ==
    \E i \in 1..Len(pending) :
       /\ IdOf[pending[i]] = id
       /\ Resolve(<<pending[i]>>, "cancelled")
       /\ cancelled' = cancelled \cup {pending[i]}
       /\ UNCHANGED <<pending, discard>>

(* cancel(id): flag the running entry, else remove the first queued match *)
Cancel(id) ==
    IF running # NoEntry /\ IdOf[running] = id
    THEN /\ discard' = discard \cup {running}
         /\ cancelled' = cancelled \cup {running}
         /\ UNCHANGED <<pending, callbacks>>
    ELSE LET found == {i \in 1..Len(pending) : IdOf[pending[i]] = id}
         IN IF found = {}
            THEN UNCHANGED <<pending, callbacks, discard, cancelled>>
            ELSE \E i \in found :
                    /\ \A j \in found : i <= j
                    /\ pending' = RemoveAt(pending, i)
                    /\ Resolve(<<pending[i]>>, "cancelled")
                    /\ cancelled' = cancelled \cup {pending[i]}
                    /\ UNCHANGED discard

(* _await_queued: between timer slices the waiter sees the client's EOF    *)
(* while its own future is still unsettled, and cancels by request id.     *)
PollEof(e) ==
    /\ LoopRuns /\ future[e] = "pending" /\ e \in eof \ signalled
    /\ signalled' = signalled \cup {e}
    /\ Cancel(IdOf[e])
    /\ UNCHANGED <<running, shut, future, mainVars, late, eof, hostVars,
                   accepted, started>>

(* One ready callback: _set_result_safely / _set_exception_safely *)
RunCallback ==
    /\ LoopRuns /\ callbacks # <<>>
    /\ LET c == Head(callbacks)
       IN future' = IF future[c[1]] = "pending"
                    THEN [future EXCEPT ![c[1]] = c[2]] ELSE future
    /\ callbacks' = Tail(callbacks)
    /\ UNCHANGED <<queueVars, mainVars, late, clientVars, hostVars, history>>

(* Bug: the running entry is rejected along with the queued ones *)
MutShutdownRejectsRunning ==
    /\ ~shut /\ shut' = TRUE
    /\ pending' = <<>>
    /\ Resolve(IF running = NoEntry THEN pending ELSE <<running>> \o pending,
               "rejected")

(* Bug: the drained entries are dropped without an answer *)
MutShutdownDrops ==
    /\ ~shut /\ shut' = TRUE
    /\ pending' = <<>>
    /\ UNCHANGED callbacks

(* shutdown(): refuse new work and reject everything queued *)
Shutdown ==
    IF shut
    THEN UNCHANGED <<pending, shut, callbacks>>
    ELSE /\ shut' = TRUE
         /\ pending' = <<>>
         /\ Resolve(pending, "rejected")

(* BridgeServer.close: shut the queue down and then block the loop ... *)
CloseBegin ==
    /\ loop = "serving"
    /\ Shutdown
    /\ loop' = "closing"
    /\ UNCHANGED <<running, discard, future, mainVars, late, clientVars,
                   pumpOn, adapterOpen, history>>

(* ... until no operation is running, before the adapter is released *)
CloseEnd ==
    /\ loop = "closing" /\ PendingCount = 0
    /\ loop' = "closed" /\ adapterOpen' = FALSE
    /\ UNCHANGED <<queueVars, futureVars, mainVars, late, clientVars, pumpOn,
                   history>>

(* _thread_main: the server loop has returned and the loop is closed; the  *)
(* callbacks it has not run are gone with it.                              *)
LoopExit ==
    /\ loop = "closed"
    /\ loop' = "exited" /\ callbacks' = <<>>
    /\ UNCHANGED <<queueVars, future, mainVars, late, clientVars, pumpOn,
                   adapterOpen, history>>

----------------------------------------------------------------------------
(* Main thread: pump_one in four steps, and SecureBridgeHost.stop *)

(* _pump calls pump_one, which reads the clock before it takes the lock *)
PumpReadClock ==
    /\ main = "idle" /\ pumpOn
    /\ main' = "clock" /\ now' = late
    /\ UNCHANGED <<queueVars, futureVars, popped, late, clientVars, hostVars,
                   history>>

(* First critical section: take the oldest entry; an overdue one never runs *)
PumpTake ==
    /\ main = "clock"
    /\ now' = {}
    /\ IF pending = <<>>
       THEN main' = "idle" /\ UNCHANGED <<pending, running, popped, started>>
       ELSE LET e == Head(pending)
            IN /\ pending' = Tail(pending)
               /\ IF e \in now
                  THEN /\ main' = "resolve"
                       /\ popped' = [entry |-> e, outcome |-> "expired"]
                       /\ UNCHANGED <<running, started>>
                  ELSE /\ main' = "operation"
                       /\ running' = e
                       /\ popped' = [entry |-> e, outcome |-> "none"]
                       /\ started' = Append(started, e)
    /\ UNCHANGED <<discard, shut, futureVars, late, clientVars, hostVars,
                   accepted, cancelled>>

(* The operation's error wins over a discard, a discard over the result *)
OutcomeOf(raised) ==
    IF raised THEN "failed"
    ELSE IF popped.entry \in discard THEN "cancelled" ELSE "completed"

(* The operation returns or raises an Exception; then the second critical  *)
(* section reads the discard flag and clears _running.                     *)
PumpFinish(raised) ==
    /\ main = "operation"
    /\ popped' = [popped EXCEPT !.outcome = OutcomeOf(raised)]
    /\ running' = NoEntry
    /\ main' = "resolve"
    /\ UNCHANGED <<pending, discard, shut, futureVars, now, late, clientVars,
                   hostVars, history>>

(* _resolve runs outside the lock, after _running was cleared *)
PumpResolve ==
    /\ main = "resolve"
    /\ Resolve(<<popped.entry>>, popped.outcome)
    /\ popped' = [entry |-> NoEntry, outcome |-> "none"]
    /\ main' = "idle"
    /\ UNCHANGED <<queueVars, future, now, late, clientVars, hostVars, history>>

(* SecureBridgeHost.stop, first half: unregister the pump, shut the queue *)
HostStop ==
    /\ main = "idle" /\ pumpOn
    /\ pumpOn' = FALSE
    /\ Shutdown
    /\ main' = "stopping"
    /\ UNCHANGED <<running, discard, future, popped, now, late, clientVars,
                   loop, adapterOpen, history>>

(* ... second half: close the adapter and let the loop thread finish *)
HostStopAdapter ==
    /\ main = "stopping"
    /\ adapterOpen' = FALSE
    /\ main' = "stopped"
    /\ UNCHANGED <<queueVars, futureVars, popped, now, late, clientVars, loop,
                   pumpOn, history>>

----------------------------------------------------------------------------
(* Environment: clients disconnect, time passes *)

ClientEof(e) ==
    /\ e \notin eof /\ future[e] = "pending"
    /\ eof' = eof \cup {e}
    /\ UNCHANGED <<queueVars, futureVars, mainVars, late, signalled, hostVars,
                   history>>

DeadlinePasses(e) ==
    /\ e \notin late /\ future[e] = "pending"
    /\ late' = late \cup {e}
    /\ UNCHANGED <<queueVars, futureVars, mainVars, clientVars, hostVars,
                   history>>

Pump == PumpReadClock \/ PumpTake \/ PumpFinish(TRUE) \/ PumpFinish(FALSE)
            \/ PumpResolve

Next ==
    \/ \E e \in Entry : Submit(e) \/ PollEof(e) \/ ClientEof(e)
                            \/ DeadlinePasses(e)
    \/ RunCallback \/ CloseBegin \/ CloseEnd \/ LoopExit
    \/ Pump \/ HostStop \/ HostStopAdapter

(* The idle callback keeps being called while it is registered, an         *)
(* operation returns, the loop runs its ready callbacks and timers, and a  *)
(* stop that was asked for (async_stop set by HostStop) is carried out.    *)
Fairness ==
    /\ WF_vars(Pump) /\ WF_vars(HostStopAdapter)
    /\ WF_vars(RunCallback) /\ WF_vars(CloseEnd)
    /\ WF_vars(main = "stopped" /\ CloseBegin)
    /\ \A e \in Entry : WF_vars(PollEof(e))

Spec == Init /\ [][Next]_vars /\ Fairness

----------------------------------------------------------------------------
(* Properties *)

TypeOK ==
    /\ pending \in Seq(Entry) /\ running \in Entry \cup {NoEntry}
    /\ discard \subseteq Entry /\ shut \in BOOLEAN
    /\ callbacks \in Seq(Entry \X Outcome)
    /\ future \in [Entry -> Outcome \cup {"none", "pending", "refused"}]
    /\ main \in {"idle", "clock", "operation", "resolve", "stopping", "stopped"}
    /\ popped \in [entry : Entry \cup {NoEntry}, outcome : Outcome \cup {"none"}]
    /\ now \subseteq Entry /\ late \subseteq Entry
    /\ loop \in {"serving", "closing", "closed", "exited"}
    /\ eof \subseteq Entry /\ signalled \subseteq eof
    /\ pumpOn \in BOOLEAN /\ adapterOpen \in BOOLEAN
    /\ accepted \in Seq(Entry) /\ started \in Seq(Entry)
    /\ cancelled \subseteq Entry

(* The places an accepted entry can be in before its future is settled *)
Holders(e) ==
    {<<"pending", i>> : i \in {j \in 1..Len(pending) : pending[j] = e}}
        \cup {<<"callback", i>> :
                i \in {j \in 1..Len(callbacks) : callbacks[j][1] = e}}
        \cup {<<"pump", 0>> : x \in {popped.entry} \cap {e}}

(* Every accepted request is settled exactly once: until its future is     *)
(* done exactly one holder owns it (queue, pump or a scheduled callback),  *)
(* afterwards none does; cancel, shutdown, expiry and the pump never both  *)
(* claim it and never drop it while the loop lives.                        *)
SettledExactlyOnce ==
    \A e \in Entry :
        Cardinality(Holders(e)) =
            IF future[e] = "pending" /\ (loop # "exited" \/ Holders(e) # {})
            THEN 1 ELSE 0

(* What the caller is told agrees with what Houdini did: a request that    *)
(* was refused, expired or rejected at shutdown never touched the scene, a *)
(* result or an operation error means that the operation ran.              *)
ReportAgreesWithScene ==
    \A e \in Entry :
        LET ran == e \in Range(started)
        IN /\ future[e] \in {"refused", "expired", "rejected"} => ~ran
           /\ future[e] \in {"completed", "failed"} => ran
           /\ future[e] = "cancelled" => (ran <=> e \in discard)

(* Once cancel() found an entry, its caller never observes a result *)
NoResultAfterCancel ==
    \A e \in cancelled :
        /\ future[e] # "completed"
        /\ \A i \in 1..Len(callbacks) : callbacks[i] # <<e, "completed">>

(* Operations start in the order in which they were accepted *)
StartsInOrder ==
    \A i, j \in 1..Len(started) :
        i < j => \E m, n \in 1..Len(accepted) :
                    m < n /\ accepted[m] = started[i] /\ accepted[n] = started[j]

(* No two unfinished requests in the queue share an id, and the queue      *)
(* never grows past its capacity, however submits, cancels and pumps mix.  *)
UniqueAndBounded ==
    /\ Len(pending) <= Capacity
    /\ \A i, j \in 1..Len(pending) :
            i # j => IdOf[pending[i]] # IdOf[pending[j]]
    /\ running # NoEntry =>
            \A i \in 1..Len(pending) : IdOf[pending[i]] # IdOf[running]

(* Requests are served in turn and answered once: they start in the order  *)
(* of submit(), each future is settled exactly once, a cancelled caller    *)
(* sees no result, and no two unfinished requests share the id under which *)
(* they are cancelled (submit, pump_one, cancel, shutdown).                *)
InTurnAndOnce ==
    SettledExactlyOnce /\ NoResultAfterCancel /\ StartsInOrder /\ UniqueAndBounded

(* The adapter is never released under a running operation, whichever      *)
(* thread stops the bridge first.                                          *)
AdapterOutlivesOperation == running # NoEntry => adapterOpen

(* Every accepted request gets an answer, unless the loop itself ended *)
EventuallySettled ==
    \A e \in Entry : future[e] = "pending" ~> future[e] # "pending" \/ loop = "exited"

(* A close that began is not blocked for ever by the queue *)
CloseCompletes == loop = "closing" ~> loop \in {"closed", "exited"}
=============================================================================
