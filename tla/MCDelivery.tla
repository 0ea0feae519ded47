----------------------------- MODULE MCDelivery ----------------------------
(***************************************************************************)
(* What is on its way arrives, for TLC: the events of a session reach the  *)
(* client (EventDelivery), a caller of the event store gets the write lock *)
(* and the connection's thread (EventStore), and a bridge operation gets   *)
(* Houdini's main thread (MainThreadQueue).  They share no state: a        *)
(* behaviour is a behaviour of one of them, chosen at the start.           *)
(***************************************************************************)
EXTENDS EventDelivery

CONSTANTS
    Caller, NoCaller, CancelAtBegin,
    Entry, RequestId, IdOf, Capacity, NoEntry

VARIABLES
    part,
    lock, waiters, pc, told, seq, committing, queue, answer, inTx, view, disk,
    pending, running, discard, shut, callbacks, future, main, popped, now, late, loop, eof,
    signalled, pumpOn, adapterOpen, accepted, started, cancelled

OwnIds == [e \in Entry |-> e]

Store == INSTANCE EventStore
Queue == INSTANCE MainThreadQueue

storeVars == <<lock, waiters, pc, told, seq, committing, queue, answer, inTx, view, disk>>
queueVars == <<pending, running, discard, shut, callbacks, future, main, popped, now, late,
               loop, eof, signalled, pumpOn, adapterOpen, accepted, started, cancelled>>

PartInit == part \in {"delivery", "store", "queue"} /\ Init /\ Store!Init /\ Queue!Init

PartNext ==
    /\ UNCHANGED part
    /\ \/ part = "delivery" /\ Next /\ UNCHANGED <<storeVars, queueVars>>
       \/ part = "store" /\ Store!Next /\ UNCHANGED <<vars, queueVars>>
       \/ part = "queue" /\ Queue!Next /\ UNCHANGED <<vars, storeVars>>

(* The fairness of each module, on its own part *)
DeliveryFairness ==
    /\ WF_vars(part = "delivery" /\ Handler)
    /\ WF_vars(part = "delivery" /\ SenderGet)
    /\ WF_vars(part = "delivery" /\ SenderSend)
StoreFairness ==
    /\ WF_storeVars(part = "store" /\ Store!Execute)
    /\ \A c \in Caller : WF_storeVars(part = "store" /\ Store!Step(c))
QueueFairness ==
    /\ WF_queueVars(part = "queue" /\ Queue!Pump)
    /\ WF_queueVars(part = "queue" /\ Queue!HostStopAdapter)
    /\ WF_queueVars(part = "queue" /\ Queue!RunCallback)
    /\ WF_queueVars(part = "queue" /\ Queue!CloseEnd)
    /\ WF_queueVars(part = "queue" /\ main = "stopped" /\ Queue!CloseBegin)
    /\ \A e \in Entry : WF_queueVars(part = "queue" /\ Queue!PollEof(e))

PartSpec ==
    /\ PartInit /\ [][PartNext]_<<part, vars, storeVars, queueVars>>
    /\ DeliveryFairness /\ StoreFairness /\ QueueFairness

-----------------------------------------------------------------------------
\* EventStore and MainThreadQueue: whoever waits for the write lock or for Houdini's main
\* thread is answered, and a close that began ends.
NobodyWaitsForever ==
    Store!EveryCallReturns /\ Queue!EventuallySettled /\ Queue!CloseCompletes
=============================================================================
