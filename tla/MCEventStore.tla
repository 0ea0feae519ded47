---------------------------- MODULE MCEventStore ----------------------------
(* Three callers: one transaction in progress, one waiting for the lock    *)
(* and one that comes later.                                               *)
EXTENDS EventStore
=============================================================================
