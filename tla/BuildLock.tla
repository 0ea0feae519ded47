------------------------------ MODULE BuildLock ------------------------------
(***************************************************************************)
(* The lock of the knowledge cache (eee_agent/knowledge/lock.py) as        *)
(* build_cache uses it (eee_agent/knowledge/build.py): a file created      *)
(* exclusively, reclaimed when its owner is dead and it is old enough, and *)
(* released by the build whose nonce it holds.  Builds are processes of    *)
(* their own; every file operation is a step.                              *)
(***************************************************************************)
EXTENDS Naturals

CONSTANTS Build,     \* the builds, each with its pid and nonce
          Free       \* no lock file

VARIABLES
    lock,     \* the lock file: Free, or the build that created it
    written,  \* has its owner been written into it
    old,      \* is the lock file older than LOCK_STALE_TTL_SECONDS
    where,    \* how far each build has come
    saw,      \* the stale owner a build has read and is about to remove
    cache,    \* whose work the cache file holds, whole
    temp,     \* the temporary files there are
    troubled, \* history: builds interrupted, or with a file operation that failed
    raced     \* history: has a reclaim removed another lock than the stale one it read

lockVars == <<lock, written, old, where, saw, cache, temp, troubled, raced>>

Ended == {"done", "busy", "dead"}
\* Where a build believes that the lock is its own
Owning == {"write", "rewrite", "build", "replace", "release", "unlink"}
LockTypeOK ==
    /\ {lock, cache} \subseteq Build \cup {Free} /\ {written, old, raced} \subseteq BOOLEAN
    /\ where \in [Build -> {"try", "read", "stale", "retry"} \cup Owning \cup Ended]
    /\ saw \in [Build -> Build \cup {Free}]
    /\ temp \subseteq Build /\ troubled \subseteq Build

LockInit ==
    /\ lock = Free /\ written = FALSE /\ old = FALSE /\ where = [b \in Build |-> "try"]
    /\ saw = [b \in Build |-> Free] /\ cache = Free /\ temp = {}
    /\ troubled = {} /\ raced = FALSE

To(b, from, to) == where[b] = from /\ where' = [where EXCEPT ![b] = to]
\* A step that leaves the files and the histories alone
Looks == UNCHANGED <<lock, written, old, cache, temp, troubled, raced>>

\* _try_create: O_CREAT|O_EXCL,
TryCreate(b, from, to, else) ==
    /\ IF lock = Free THEN To(b, from, to) /\ lock' = b /\ written' = FALSE /\ old' = FALSE
                      ELSE To(b, from, else) /\ UNCHANGED <<lock, written, old>>
    /\ UNCHANGED <<saw, cache, temp, troubled, raced>>
\* then the owner record,
WriteOwner(b) ==
    /\ To(b, "write", "build") \/ To(b, "rewrite", "build")
    /\ written' = (written \/ lock = b)
    /\ UNCHANGED <<lock, old, saw, cache, temp, troubled, raced>>
\* without which the build ends and its empty lock file stays: it is not released
WriteOwnerFails(b) ==
    /\ To(b, "write", "busy") \/ To(b, "rewrite", "busy")
    /\ troubled' = troubled \cup {b}
    /\ UNCHANGED <<lock, written, old, saw, cache, temp, raced>>
\* _read_owner and _is_stale: an unreadable, live or young lock is left alone
ReadOwner(b) ==
    /\ \/ /\ lock # Free /\ written /\ where[lock] \in Ended /\ old
          /\ To(b, "read", "stale") /\ saw' = [saw EXCEPT ![b] = lock]
       \/ To(b, "read", "busy") /\ UNCHANGED saw
    /\ Looks
\* Stale: whatever is at the path by now is unlinked, and the lock created again
Reclaim(b) ==
    /\ To(b, "stale", "retry") /\ lock' = Free /\ written' = FALSE
    /\ raced' = (raced \/ lock \notin {Free, saw[b]})
    /\ UNCHANGED <<old, saw, cache, temp, troubled>>
\* writer and validator on the build's own temporary file, then os.replace
WriteCache(b) ==
    /\ To(b, "build", "replace") /\ temp' = temp \cup {b}
    /\ UNCHANGED <<lock, written, old, saw, cache, troubled, raced>>
ReplaceCache(b) ==
    /\ To(b, "replace", "release") /\ cache' = b /\ temp' = temp \ {b}
    /\ UNCHANGED <<lock, written, old, saw, troubled, raced>>
\* An Exception is caught, and the temporary file unlinked, which may fail in silence;
\* a KeyboardInterrupt is not caught.  The lock is released either way.
BuildFails(b) ==
    /\ To(b, "build", "release") \/ To(b, "replace", "release")
    /\ \/ temp' = temp \ {b} /\ UNCHANGED troubled
       \/ UNCHANGED temp /\ troubled' = troubled \cup {b}
    /\ UNCHANGED <<lock, written, old, saw, cache, raced>>
\* release_build_lock: the owner is read, and the lock unlinked if the nonce is its own
ReadOwn(b) ==
    /\ IF lock = b /\ written THEN To(b, "release", "unlink") ELSE To(b, "release", "done")
    /\ UNCHANGED saw /\ Looks
UnlinkOwn(b) ==
    /\ To(b, "unlink", "done") /\ lock' = Free /\ written' = FALSE
    /\ UNCHANGED <<old, saw, cache, temp, troubled, raced>>
\* The read, or the unlink, raises: the lock file stays
ReleaseFails(b) ==
    /\ To(b, "release", "done") \/ To(b, "unlink", "done")
    /\ troubled' = troubled \cup {b}
    /\ UNCHANGED <<lock, written, old, saw, cache, temp, raced>>
BuildDies(b) ==
    /\ where[b] \notin {"try"} \cup Ended
    /\ where' = [where EXCEPT ![b] = "dead"]
    /\ UNCHANGED saw /\ Looks
\* The TTL passes
Age ==
    /\ lock # Free /\ ~old /\ old' = TRUE
    /\ UNCHANGED <<lock, written, where, saw, cache, temp, troubled, raced>>

LockNext ==
    \/ Age
    \/ \E b \in Build :
        \/ TryCreate(b, "try", "write", "read") \/ TryCreate(b, "retry", "rewrite", "busy")
        \/ WriteOwner(b) \/ WriteOwnerFails(b) \/ ReadOwner(b) \/ Reclaim(b)
        \/ WriteCache(b) \/ ReplaceCache(b) \/ BuildFails(b)
        \/ ReadOwn(b) \/ UnlinkOwn(b) \/ ReleaseFails(b) \/ BuildDies(b)
LockSpec == LockInit /\ [][LockNext]_lockVars

-----------------------------------------------------------------------------
(* What must hold *)

\* A build that has ended has left neither its lock nor its temporary file, unless it
\* was interrupted or could not remove them ("this build's temp file is removed; the lock
\* is always released", build.py).
BuildLeavesNothing ==
    \A b \in Build : where[b] = "done" /\ b \notin troubled => lock # b /\ b \notin temp

\* A build works only while the lock file is its own, so that no two work on one cache and
\* none removes the lock of another, unless a reclaim has removed a lock that had replaced
\* the stale one it read: nothing compares the two (lock.py: "one build can never delete
\* another active build's lock").
OneBuilder == raced \/ \A b \in Build : where[b] \in Owning => lock = b
====
