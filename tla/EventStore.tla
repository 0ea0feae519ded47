----------------------------- MODULE EventStore -----------------------------
(***************************************************************************)
(* EventStore.append (eee_agent/runtime/events.py) inside                  *)
(* RuntimeDatabase.write_transaction (eee_agent/runtime/database.py), over *)
(* the one aiosqlite connection of the process.                            *)
(*                                                                         *)
(* The event loop and the connection's thread are two actors.  A statement *)
(* is handed to the thread through a FIFO queue; the caller awaits a       *)
(* future.  Cancelling the caller abandons the future, NOT the statement:  *)
(* the thread still executes it.  The connection is in autocommit mode, so *)
(* a statement outside BEGIN..COMMIT is durable at once.                   *)
(*                                                                         *)
(* One session; each caller appends one event and may be cancelled at any  *)
(* await.  disk is what a restart would find, view what the connection     *)
(* sees.                                                                   *)
(***************************************************************************)
EXTENDS Naturals, Sequences, FiniteSets, SequencesExt

CONSTANTS
    Caller, NoCaller,
    CancelAtBegin    \* a caller may be cancelled while it awaits BEGIN

ASSUME CallerAssumption == NoCaller \notin Caller
ASSUME CancelAssumption == CancelAtBegin \in BOOLEAN

VARIABLES
    lock,       \* the owner of _write_lock
    waiters,    \* tasks waiting for it, in FIFO order
    pc,         \* the statement each caller awaits, or where else it is
    told,       \* what the caller of append was told
    seq,        \* last_seq as each transaction body read it
    committing, \* history: callers that issued COMMIT
    queue,      \* statements handed to the connection's thread
    answer,     \* the result each caller's pending future holds
    inTx,       \* sqlite3 in_transaction
    view, disk  \* sessions.last_seq and the events table

lockVars == <<lock, waiters>>
callerVars == <<pc, told, committing>>
threadVars == <<inTx, view, disk, seq>>
vars == <<lockVars, callerVars, queue, answer, threadVars>>

Statement == {"begin", "check", "bump", "read", "insert", "commit", "rollback"}
Body == {"check", "bump", "read", "insert", "commit"}

Init ==
    /\ lock = NoCaller /\ waiters = <<>>
    /\ pc = [c \in Caller |-> "idle"] /\ told = [c \in Caller |-> "nothing"]
    /\ seq = [c \in Caller |-> 0] /\ committing = {}
    /\ queue = <<>> /\ answer = [c \in Caller |-> "none"]
    /\ inTx = FALSE
    /\ view = [last |-> 0, events |-> <<>>] /\ disk = view

----------------------------------------------------------------------------
(* The connection's thread *)

(* A statement's effect on what the connection sees *)
Effect(c, op) ==
    IF op = "bump" THEN [last |-> view.last + 1, events |-> view.events]
    ELSE [last |-> view.last, events |-> Append(view.events, [by |-> c, seq |-> seq[c]])]

(* The thread takes the next statement; its result is set on the future if *)
(* somebody still waits for it.                                            *)
Take(op, result) ==
    /\ queue # <<>> /\ Head(queue).op = op
    /\ queue' = Tail(queue)
    /\ answer' = IF Head(queue).awaited
                 THEN [answer EXCEPT ![Head(queue).by] = result] ELSE answer
    /\ UNCHANGED <<lockVars, callerVars>>

(* "cannot start a transaction within a transaction" if one is open *)
ExecBegin ==
    /\ Take("begin", IF inTx THEN "error" ELSE "ok")
    /\ inTx' = TRUE
    /\ UNCHANGED <<view, disk, seq>>

ExecCommit ==
    /\ inTx /\ Take("commit", "ok")
    /\ disk' = view /\ inTx' = FALSE
    /\ UNCHANGED <<view, seq>>

(* A deferred foreign key stops the COMMIT: the transaction stays open.    *)
(* Outside a transaction COMMIT always fails.                              *)
ExecCommitFails == Take("commit", "error") /\ UNCHANGED threadVars

ExecRollback ==
    /\ Take("rollback", IF inTx THEN "ok" ELSE "error")
    /\ view' = disk /\ inTx' = FALSE
    /\ UNCHANGED <<disk, seq>>

(* Do the session and the run exist? *)
ExecCheck ==
    /\ Take("check", "ok") \/ Take("check", "error")
    /\ UNCHANGED threadVars

ExecRead ==
    /\ Take("read", "ok")
    /\ seq' = [seq EXCEPT ![Head(queue).by] = view.last]
    /\ UNCHANGED <<inTx, view, disk>>

ExecWrite(op) ==
    /\ Take(op, "ok")
    /\ view' = Effect(Head(queue).by, op)
    /\ disk' = IF inTx THEN disk ELSE view'
    /\ UNCHANGED <<inTx, seq>>

Execute ==
    \/ ExecBegin \/ ExecCommit \/ ExecCommitFails \/ ExecRollback \/ ExecCheck
    \/ ExecRead \/ ExecWrite("bump") \/ ExecWrite("insert")

----------------------------------------------------------------------------
(* The event loop *)

(* await self._connection.execute(op) *)
Send(c, op) ==
    /\ queue' = Append(queue, [by |-> c, op |-> op, awaited |-> TRUE])
    /\ answer' = [answer EXCEPT ![c] = "none"]
    /\ pc' = [pc EXCEPT ![c] = op]
    /\ committing' = IF op = "commit" THEN committing \cup {c} ELSE committing

(* asyncio.Lock.release: the first waiter gets the lock *)
HandOn(ws) ==
    IF ws = <<>>
    THEN lock' = NoCaller /\ waiters' = <<>>
    ELSE lock' = Head(ws) /\ waiters' = Tail(ws)

Return(c, verdict) ==
    /\ pc' = [pc EXCEPT ![c] = "done"]
    /\ told' = [told EXCEPT ![c] = verdict]

(* Entering write_transaction: BEGIN at once if the lock is free *)
Enter(c) ==
    /\ pc[c] = "idle"
    /\ IF lock = NoCaller
       THEN /\ lock' = c /\ Send(c, "begin") /\ UNCHANGED waiters
       ELSE /\ waiters' = Append(waiters, c)
            /\ pc' = [pc EXCEPT ![c] = "waiting"]
            /\ UNCHANGED <<lock, queue, answer, committing>>
    /\ UNCHANGED <<told, threadVars>>

(* A waiter to whom the lock was handed runs on *)
Acquired(c) ==
    /\ pc[c] = "waiting" /\ lock = c
    /\ Send(c, "begin")
    /\ UNCHANGED <<lockVars, told, threadVars>>

(* _append_prepared_conn, then COMMIT *)
NextStatement(op) ==
    CASE op = "begin" -> "check" [] op = "check" -> "bump" [] op = "bump" -> "read"
      [] op = "read" -> "insert" [] op = "insert" -> "commit"

(* A statement succeeded and another follows *)
Proceed(c) ==
    /\ pc[c] \in {"begin", "check", "bump", "read", "insert"} /\ answer[c] = "ok"
    /\ Send(c, NextStatement(pc[c]))
    /\ UNCHANGED <<lockVars, told, threadVars>>

(* COMMIT succeeded: release the lock, return the record *)
Committed(c) ==
    /\ pc[c] = "commit" /\ answer[c] = "ok"
    /\ HandOn(waiters) /\ Return(c, "ok")
    /\ answer' = [answer EXCEPT ![c] = "none"]
    /\ UNCHANGED <<queue, committing, threadVars>>

(* BEGIN failed: nothing to roll back *)
Refused(c) ==
    /\ pc[c] = "begin" /\ answer[c] = "error"
    /\ HandOn(waiters) /\ Return(c, "error")
    /\ answer' = [answer EXCEPT ![c] = "none"]
    /\ UNCHANGED <<queue, committing, threadVars>>

(* The handler around the body: roll back if a transaction is open now *)
Unwind(c, q, verdict) ==
    /\ told' = [told EXCEPT ![c] = verdict]
    /\ answer' = [answer EXCEPT ![c] = "none"]
    /\ IF inTx
       THEN /\ queue' = Append(q, [by |-> c, op |-> "rollback", awaited |-> TRUE])
            /\ pc' = [pc EXCEPT ![c] = "rollback"]
            /\ UNCHANGED lockVars
       ELSE /\ queue' = q
            /\ pc' = [pc EXCEPT ![c] = "done"]
            /\ HandOn(waiters)
    /\ UNCHANGED <<committing, threadVars>>

(* The body raised (no such session or run), or COMMIT failed *)
Failed(c) ==
    /\ pc[c] \in Body /\ answer[c] = "error"
    /\ Unwind(c, queue, "error")

(* ROLLBACK answered; an error of its own is swallowed *)
RolledBack(c) ==
    /\ pc[c] = "rollback" /\ answer[c] # "none"
    /\ HandOn(waiters) /\ pc' = [pc EXCEPT ![c] = "done"]
    /\ answer' = [answer EXCEPT ![c] = "none"]
    /\ UNCHANGED <<queue, told, committing, threadVars>>

(* Nobody waits any more for the statement the caller had sent *)
Abandoned(c) ==
    [i \in 1..Len(queue) |-> [by |-> queue[i].by, op |-> queue[i].op,
                               awaited |-> queue[i].awaited /\ queue[i].by # c]]

(* CancelledError at the lock: acquire gives up its place *)
CancelWaiting(c) ==
    /\ pc[c] = "waiting"
    /\ IF lock = c THEN HandOn(waiters)
       ELSE /\ \E i \in 1..Len(waiters) :
                   waiters[i] = c /\ waiters' = RemoveAt(waiters, i)
            /\ UNCHANGED lock
    /\ Return(c, "cancelled")
    /\ UNCHANGED <<queue, answer, committing, threadVars>>

(* CancelledError at BEGIN, or at the ROLLBACK of an earlier error: the    *)
(* lock is released, the statement stays in the thread's queue.            *)
CancelOutside(c) ==
    /\ pc[c] = "rollback" \/ (pc[c] = "begin" /\ CancelAtBegin)
    /\ queue' = Abandoned(c) /\ answer' = [answer EXCEPT ![c] = "none"]
    /\ HandOn(waiters) /\ Return(c, "cancelled")
    /\ UNCHANGED <<committing, threadVars>>

(* Bug: a cancellation is reported as a failed append *)
MutCancelInside(c) ==
    /\ pc[c] \in Body
    /\ Unwind(c, Abandoned(c), "error")

(* CancelledError in the body or at COMMIT *)
CancelInside(c) ==
    /\ pc[c] \in Body
    /\ Unwind(c, Abandoned(c), "cancelled")

----------------------------------------------------------------------------
Step(c) ==
    \/ Acquired(c) \/ Proceed(c) \/ Committed(c) \/ Refused(c) \/ Failed(c)
    \/ RolledBack(c)

Next ==
    \/ Execute
    \/ \E c \in Caller :
          Enter(c) \/ Step(c) \/ CancelWaiting(c) \/ CancelOutside(c) \/ CancelInside(c)

(* The thread drains its queue, the loop runs every task that can run *)
Fairness == WF_vars(Execute) /\ \A c \in Caller : WF_vars(Step(c))

Spec == Init /\ [][Next]_vars /\ Fairness

----------------------------------------------------------------------------
(* Properties *)

Table == [last : Nat, events : Seq([by : Caller, seq : Nat])]

TypeOK ==
    /\ lock \in Caller \cup {NoCaller} /\ waiters \in Seq(Caller)
    /\ pc \in [Caller -> Statement \cup {"idle", "waiting", "done"}]
    /\ told \in [Caller -> {"nothing", "ok", "error", "cancelled"}]
    /\ seq \in [Caller -> Nat] /\ committing \subseteq Caller
    /\ queue \in Seq([by : Caller, op : Statement, awaited : BOOLEAN])
    /\ answer \in [Caller -> {"none", "ok", "error"}]
    /\ inTx \in BOOLEAN /\ view \in Table /\ disk \in Table

(* Whatever is cancelled when, the durable events are numbered 1, 2, 3 ... *)
(* without a gap or a repetition, and last_seq is the last number: no half *)
(* of an append is ever durable and no number is given twice.              *)
SequenceIntact ==
    /\ disk.last = Len(disk.events)
    /\ \A i \in 1..Len(disk.events) : disk.events[i].seq = i

Stored(c) == {i \in 1..Len(disk.events) : disk.events[i].by = c}

(* append's answer is the truth: success means stored exactly once under   *)
(* the number returned, an error means not stored, and a cancelled caller  *)
(* may find its event stored only if it had come as far as COMMIT.         *)
AnswerIsTruth ==
    \A c \in Caller : pc[c] = "done" =>
        CASE told[c] = "ok" -> Stored(c) = {seq[c]}
          [] told[c] = "error" -> Stored(c) = {}
          [] OTHER -> Stored(c) # {} => c \in committing /\ Cardinality(Stored(c)) = 1

(* The durable events are numbered without a gap, and what append tells    *)
(* its caller is true of them, whichever await is cancelled                *)
(* (write_transaction, append).                                            *)
AppendIsExact == SequenceIntact /\ AnswerIsTruth

(* A transaction that ended, in whatever way, does not stand in the way of *)
(* the next one: BEGIN is never refused because a transaction is open      *)
(* ("lock released after cancellation: new transaction works").            *)
BeginIsNeverRefused == \A c \in Caller : pc[c] = "begin" => answer[c] # "error"

(* Every caller that entered write_transaction leaves it *)
EveryCallReturns == \A c \in Caller : pc[c] # "idle" ~> pc[c] = "done"
=============================================================================
