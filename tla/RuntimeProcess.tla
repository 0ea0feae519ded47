--------------------------- MODULE RuntimeProcess ---------------------------
(***************************************************************************)
(* The Runtime's start and stop (eee_agent/runtime/__main__.py async_main  *)
(* and _serve_until_shutdown): the exclusive lock of the home directory    *)
(* (runtime/lock.py), the service, the server's port, and the token and    *)
(* discovery files by which the panel finds it (runtime/auth.py), released *)
(* in the reverse order.  Processes are started at will and may be killed  *)
(* at any step; the operating system then frees the lock and leaves the    *)
(* files.                                                                  *)
(***************************************************************************)
EXTENDS Naturals

CONSTANTS Process,    \* the processes that may be started, each with its nonce
          Nobody,     \* no process
          MaxKills    \* bound: processes killed and file operations that fail

VARIABLES
    holder,     \* the process that has the OS lock
    token,      \* runtime.token: whose
    discovery,  \* runtime.json: whose pid and process_nonce
    stage,      \* how far each process has come
    seenOwn,    \* has cleanup_identity_files read its own discovery
    kept,       \* history: the processes that could not read or remove their files
    kills

processVars == <<holder, token, discovery, stage, seenOwn, kept, kills>>

Stages == {"new", "locked", "opened", "bound", "token", "serving", "unbound", "cleaned",
           "closed", "over"}
ProcessTypeOK ==
    /\ {holder, token, discovery} \subseteq Process \cup {Nobody}
    /\ stage \in [Process -> Stages] /\ seenOwn \in [Process -> BOOLEAN]
    /\ kept \subseteq Process /\ kills \in 0..MaxKills

ProcessInit ==
    /\ holder = Nobody /\ token = Nobody /\ discovery = Nobody
    /\ stage = [p \in Process |-> "new"] /\ seenOwn = [p \in Process |-> FALSE]
    /\ kept = {} /\ kills = 0

Go(p, from, to) == stage[p] = from /\ stage' = [stage EXCEPT ![p] = to]

\* RuntimeLock.__enter__; contention ends the process
Lock(p) ==
    /\ \/ Go(p, "new", "locked") /\ holder = Nobody /\ holder' = p
       \/ Go(p, "new", "over") /\ holder # Nobody /\ UNCHANGED holder
    /\ UNCHANGED <<token, discovery, seenOwn, kept, kills>>
\* RuntimeService.open, then the server's bind
OpenService(p) ==
    Go(p, "locked", "opened") /\ UNCHANGED <<holder, token, discovery, seenOwn, kept, kills>>
BindPort(p) ==
    Go(p, "opened", "bound") /\ UNCHANGED <<holder, token, discovery, seenOwn, kept, kills>>
\* write_identity_files: two atomic writes; a failure removes the token, if it can
WriteToken(p) ==
    Go(p, "bound", "token") /\ token' = p /\ UNCHANGED <<holder, discovery, seenOwn, kept, kills>>
WriteDiscovery(p) ==
    Go(p, "token", "serving") /\ discovery' = p /\ UNCHANGED <<holder, token, seenOwn, kept, kills>>
WriteFails(p) ==
    /\ kills < MaxKills /\ kills' = kills + 1
    /\ Go(p, "bound", "unbound") \/ Go(p, "token", "unbound")
    /\ \/ token' = Nobody /\ UNCHANGED kept
       \/ UNCHANGED token /\ kept' = kept \cup {p}
    /\ UNCHANGED <<holder, discovery, seenOwn>>
\* Shutdown: the server closes,
Unbind(p) ==
    Go(p, "serving", "unbound") /\ UNCHANGED <<holder, token, discovery, seenOwn, kept, kills>>
\* cleanup_identity_files reads the discovery and removes each file if it is its own;
\* a read or an unlink that fails is passed over
CheckOwn(p) ==
    /\ stage[p] = "unbound" /\ ~seenOwn[p] /\ discovery = p
    /\ seenOwn' = [seenOwn EXCEPT ![p] = TRUE]
    /\ UNCHANGED <<holder, token, discovery, stage, kept, kills>>
RemoveFiles(p) ==
    /\ Go(p, "unbound", "cleaned")
    /\ IF seenOwn[p] THEN token' = Nobody /\ discovery' = Nobody
                     ELSE discovery # p /\ UNCHANGED <<token, discovery>>
    /\ UNCHANGED <<holder, seenOwn, kept, kills>>
RemoveFails(p) ==
    /\ kills < MaxKills /\ kills' = kills + 1
    /\ Go(p, "unbound", "cleaned") /\ kept' = kept \cup {p}
    /\ \/ seenOwn[p] /\ token' \in {token, Nobody} /\ discovery' \in {discovery, Nobody}
       \/ ~seenOwn[p] /\ UNCHANGED <<token, discovery>>
    /\ UNCHANGED <<holder, seenOwn>>
CloseServiceEarly(p) ==   \* mutant: the lock is not kept to the end of the cleanup
    /\ stage[p] = "unbound" /\ holder = p /\ holder' = Nobody
    /\ UNCHANGED <<token, discovery, stage, seenOwn, kept, kills>>
\* the service closes and the lock is released
CloseService(p) ==
    Go(p, "cleaned", "closed") /\ UNCHANGED <<holder, token, discovery, seenOwn, kept, kills>>
Unlock(p) ==
    /\ Go(p, "closed", "over") /\ holder' = Nobody
    /\ UNCHANGED <<token, discovery, seenOwn, kept, kills>>
\* The start of the service or of the server fails: the contexts unwind
StartFails(p) ==
    /\ Go(p, "locked", "closed") \/ Go(p, "opened", "unbound")
    /\ UNCHANGED <<holder, token, discovery, seenOwn, kept, kills>>
Kill(p) ==
    /\ kills < MaxKills /\ kills' = kills + 1
    /\ stage[p] \notin {"new", "over"} /\ stage' = [stage EXCEPT ![p] = "over"]
    /\ holder' = IF holder = p THEN Nobody ELSE holder
    /\ UNCHANGED <<token, discovery, seenOwn, kept>>

ProcessNext ==
    \E p \in Process :
        \/ Lock(p) \/ OpenService(p) \/ BindPort(p) \/ WriteToken(p) \/ WriteDiscovery(p)
        \/ WriteFails(p) \/ Unbind(p) \/ CheckOwn(p) \/ RemoveFiles(p) \/ RemoveFails(p)
        \/ CloseService(p) \/ Unlock(p) \/ StartFails(p) \/ Kill(p)
ProcessSpec == ProcessInit /\ [][ProcessNext]_processVars

-----------------------------------------------------------------------------
(* What must hold *)

\* A Runtime that serves can be found: both files are its own as long as it serves,
\* whatever processes were started, stopped or killed around it and whatever files they
\* left; and one that has ended in order, and could remove its files, has left neither.
ServingIsFound ==
    /\ \A p \in Process : stage[p] = "serving" => token = p /\ discovery = p
    /\ \A p \in Process \ kept : stage[p] \in {"cleaned", "closed"} => p \notin {token, discovery}
====
