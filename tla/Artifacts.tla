------------------------------ MODULE Artifacts ------------------------------
(***************************************************************************)
(* The artifact store (eee_agent/runtime/artifacts.py): rows in SQLite and *)
(* files on disk that no transaction covers together.  A capture writes    *)
(* its file at the canonical path; register moves it to the staging        *)
(* directory, inserts the row, moves the file back and evicts what exceeds *)
(* the caps.  Sessions are deleted meanwhile (runtime/service.py           *)
(* delete_session, runtime/sessions.py) and the process may die between    *)
(* any two steps; reconcile repairs at the next start.                     *)
(*                                                                         *)
(* A step is what runs between two awaits: the file operations after a     *)
(* transaction belong to the step of its commit.                           *)
(***************************************************************************)
EXTENDS Naturals, FiniteSets, Functions

CONSTANTS
    Artifact,         \* artifact ids
    Owner,            \* [Artifact -> its session]
    Size,             \* [Artifact -> bytes]
    MaxSessionCount,  \* MAX_ARTIFACTS_PER_SESSION
    MaxSessionBytes,  \* MAX_SESSION_BYTES
    MaxGlobalCount,   \* MAX_ARTIFACTS_GLOBAL
    MaxGlobalBytes,   \* MAX_GLOBAL_BYTES
    MaxRegisters,     \* bound: registers under way together
    MaxFaults         \* bound: crashes and failed file operations together

VARIABLES
    sessions,  \* rows of sessions
    row,       \* artifacts.artifact_state ("none": no row)
    file,      \* where the bytes are
    born,      \* created_at, in the order of staging (0: none)
    pc,        \* where each register is
    read,      \* the rows its retention has read, then the candidates left to evict
    del,       \* where each session's deletion is
    up,        \* is the Runtime up (not reconciling)
    todo,      \* rows reconcile has still to visit
    faults     \* bound: faults so far

vars == <<sessions, row, file, born, pc, read, del, up, todo, faults>>
Owners == {Owner[a] : a \in Artifact}
RowStates == {"none", "pending", "available", "pending_eviction", "evicted", "missing", "failed"}

TypeOK ==
    /\ sessions \subseteq Owners
    /\ row \in [Artifact -> RowStates]
    /\ file \in [Artifact -> {"none", "canonical", "stage"}]
    /\ born \in [Artifact -> Nat] /\ read \in [Artifact -> SUBSET Artifact]
    /\ pc \in [Artifact -> {"idle", "captured", "staged", "placed", "failing", "rowsS",
                            "totalsS", "markS", "evictS", "dropS", "rowsG", "totalsG",
                            "markG", "evictG", "dropG", "done"}]
    /\ del \in [Owners -> {"idle", "listed", "marked", "rows"}]
    /\ todo \subseteq Artifact /\ up \in BOOLEAN /\ faults \in 0..MaxFaults

Init ==
    /\ sessions = Owners
    /\ row = [a \in Artifact |-> "none"] /\ file = [a \in Artifact |-> "none"]
    /\ born = [a \in Artifact |-> 0] /\ pc = [a \in Artifact |-> "idle"]
    /\ read = [a \in Artifact |-> {}]
    /\ del = [s \in Owners |-> "idle"] /\ up = TRUE /\ todo = {} /\ faults = 0

Fault == faults < MaxFaults /\ faults' = faults + 1
Become(a, from, to) == up /\ pc[a] = from /\ pc' = [pc EXCEPT ![a] = to]

-----------------------------------------------------------------------------
(* register *)

\* The bridge writes the file at the canonical path (_capture_applied_changeset)
Capture(a) ==
    /\ Become(a, "idle", "captured") /\ row[a] = "none" /\ Owner[a] \in sessions
    /\ Cardinality({b \in Artifact : pc[b] \notin {"idle", "done"}}) < MaxRegisters
    /\ file' = [file EXCEPT ![a] = "canonical"]
    /\ UNCHANGED <<sessions, row, born, read, del, up, todo, faults>>
\* The hash agrees and no row has the id: into the staging directory
Stage(a) ==
    /\ Become(a, "captured", "staged") /\ file[a] = "canonical"
    /\ file' = [file EXCEPT ![a] = "stage"]
    /\ born' = [born EXCEPT ![a] = 1 + Cardinality({b \in Artifact : born[b] # 0})]
    /\ UNCHANGED <<sessions, row, read, del, up, todo, faults>>
\* The bytes are gone, or are not the ones the bridge reported: deleted
Reject(a) ==
    /\ Become(a, "captured", "done")
    /\ \/ file[a] = "none" /\ UNCHANGED faults
       \/ Fault
    /\ file' = [file EXCEPT ![a] = "none"]
    /\ UNCHANGED <<sessions, row, born, read, del, up, todo>>
\* The insert, and after its commit the move to the canonical path
Insert(a) ==
    /\ Owner[a] \in sessions
    /\ row' = [row EXCEPT ![a] = "pending"]
    /\ \/ /\ Become(a, "staged", "placed")
          /\ file' = [file EXCEPT ![a] = "canonical"] /\ UNCHANGED faults
       \/ Become(a, "staged", "failing") /\ Fault /\ UNCHANGED file
    /\ UNCHANGED <<sessions, born, read, del, up, todo>>
\* The session is gone: IntegrityError
InsertRefused(a) ==
    /\ Become(a, "staged", "done") /\ Owner[a] \notin sessions
    /\ file' = [file EXCEPT ![a] = "none"]
    /\ UNCHANGED <<sessions, row, born, read, del, up, todo, faults>>
MarkAvailableAlways(a) ==   \* mutant: whatever the row's state
    /\ Become(a, "placed", "rowsS")
    /\ row' = [row EXCEPT ![a] = IF @ = "none" THEN @ ELSE "available"]
    /\ UNCHANGED <<sessions, file, born, read, del, up, todo, faults>>
MarkAvailable(a) ==
    /\ Become(a, "placed", "rowsS")
    /\ row' = [row EXCEPT ![a] = IF @ = "pending" THEN "available" ELSE @]
    /\ UNCHANGED <<sessions, file, born, read, del, up, todo, faults>>
MarkFailed(a) ==
    /\ Become(a, "failing", "done")
    /\ row' = [row EXCEPT ![a] = IF @ \in {"pending", "available"} THEN "failed" ELSE @]
    /\ UNCHANGED <<sessions, file, born, read, del, up, todo, faults>>

-----------------------------------------------------------------------------
(* _enforce_retention: _evict_over_caps for the session, then for all *)

Bytes(S) == FoldFunctionOnSet(+, 0, Size, S)
Scope(a, level) == IF level = "S" THEN {b \in Artifact : Owner[b] = Owner[a]} ELSE Artifact
Caps(level) == IF level = "S" THEN <<MaxSessionCount, MaxSessionBytes>>
                              ELSE <<MaxGlobalCount, MaxGlobalBytes>>
Available(S) == {b \in S : row[b] = "available"}

\* Where a register is while it enforces the caps of a level
At(level) ==
    IF level = "S"
    THEN [rows |-> "rowsS", totals |-> "totalsS", mark |-> "markS", evict |-> "evictS",
          drop |-> "dropS", after |-> "rowsG"]
    ELSE [rows |-> "rowsG", totals |-> "totalsG", mark |-> "markG", evict |-> "evictG",
          drop |-> "dropG", after |-> "done"]

\* The two queries are two awaits
ReadRows(a, level) ==
    /\ Become(a, At(level).rows, At(level).totals)
    /\ read' = [read EXCEPT ![a] = Available(Scope(a, level)) \ {a}]
    /\ UNCHANGED <<sessions, row, file, born, del, up, todo, faults>>

\* The fewest of the oldest rows whose eviction brings the rest under both caps
Candidates(a, level) ==
    LET all == Available(Scope(a, level))
        cap == Caps(level)
        oldest(n) == {b \in read[a] : Cardinality({c \in read[a] : born[c] < born[b]}) < n}
        fits(n) == /\ Cardinality(all) - n <= cap[1]
                   /\ Bytes(all) <= cap[2] + Bytes(oldest(n))
        enough == {n \in 0..Cardinality(read[a]) : fits(n)}
    IN IF enough = {} THEN read[a]
       ELSE oldest(CHOOSE n \in enough : \A m \in enough : n <= m)

ReadTotalsStale(a, level) ==   \* mutant: the totals are taken to be those of the rows read
    /\ up /\ pc[a] = At(level).totals
    /\ LET over == Cardinality(read[a]) > Caps(level)[1] \/ Bytes(read[a]) > Caps(level)[2]
       IN /\ read' = [read EXCEPT ![a] = IF over THEN Candidates(a, level) ELSE {}]
          /\ pc' = [pc EXCEPT ![a] = IF over /\ Candidates(a, level) # {} THEN At(level).mark
                                     ELSE At(level).after]
    /\ UNCHANGED <<sessions, row, file, born, del, up, todo, faults>>
ReadTotals(a, level) ==
    /\ up /\ pc[a] = At(level).totals
    /\ read' = [read EXCEPT ![a] = Candidates(a, level)]
    /\ pc' = [pc EXCEPT ![a] = IF Candidates(a, level) = {} THEN At(level).after
                               ELSE At(level).mark]
    /\ UNCHANGED <<sessions, row, file, born, del, up, todo, faults>>
\* Between its two queries a row it read was taken by another register or a deletion
TornRead ==
    \E a \in Artifact :
        /\ pc[a] \in {"totalsS", "totalsG"} /\ pc'[a] # pc[a]
        /\ \E b \in read[a] : row[b] # "available"
MarkEviction(a, level) ==
    /\ Become(a, At(level).mark, At(level).evict)
    /\ row' = [b \in Artifact |-> IF row[b] = "available" /\ b \in read[a]
                                  THEN "pending_eviction" ELSE row[b]]
    /\ UNCHANGED <<sessions, file, born, read, del, up, todo, faults>>

\* The candidates are visited in order; the last one ends the level
Oldest(a, b) == b \in read[a] /\ \A c \in read[a] : born[b] <= born[c]
Rest(a, b, level) == IF read[a] = {b} THEN At(level).after ELSE At(level).evict
\* unlink of the next candidate; an OSError leaves it pending
Unlink(a, level) ==
    /\ \E b \in read[a] :
         /\ Oldest(a, b)
         /\ \/ /\ Become(a, At(level).evict, At(level).drop)
               /\ file' = [file EXCEPT ![b] = IF @ = "canonical" THEN "none" ELSE @]
               /\ UNCHANGED <<read, faults>>
            \/ /\ Become(a, At(level).evict, Rest(a, b, level))
               /\ Fault /\ UNCHANGED file /\ read' = [read EXCEPT ![a] = @ \ {b}]
    /\ UNCHANGED <<sessions, row, born, del, up, todo>>
Evicted(a, level) ==
    /\ \E b \in read[a] :
         /\ Oldest(a, b) /\ Become(a, At(level).drop, Rest(a, b, level))
         /\ row' = [row EXCEPT ![b] = IF @ = "pending_eviction" THEN "evicted" ELSE @]
         /\ read' = [read EXCEPT ![a] = @ \ {b}]
    /\ UNCHANGED <<sessions, file, born, del, up, todo, faults>>

-----------------------------------------------------------------------------
(* delete_session: the files first, then the rows *)

Doomed == {"available", "pending", "pending_eviction", "failed", "missing"}
\* No rows: nothing to evict
DeleteList(s) ==
    /\ up /\ s \in sessions /\ del[s] = "idle"
    /\ del' = [del EXCEPT ![s] =
          IF \E a \in Artifact : Owner[a] = s /\ row[a] \in Doomed THEN "listed" ELSE "rows"]
    /\ UNCHANGED <<sessions, row, file, born, pc, read, up, todo, faults>>
\* The update, and after its commit rmtree of the session's directory
DeleteMark(s) ==
    /\ up /\ del[s] = "listed"
    /\ row' = [a \in Artifact |-> IF Owner[a] = s /\ row[a] \in Doomed
                                  THEN "pending_eviction" ELSE row[a]]
    /\ \/ /\ file' = [a \in Artifact |-> IF Owner[a] = s /\ file[a] = "canonical"
                                         THEN "none" ELSE file[a]]
          /\ del' = [del EXCEPT ![s] = "marked"] /\ UNCHANGED faults
       \/ Fault /\ del' = [del EXCEPT ![s] = "idle"] /\ UNCHANGED file
    /\ UNCHANGED <<sessions, born, pc, read, up, todo>>
DeleteEvicted(s) ==
    /\ up /\ del[s] = "marked" /\ del' = [del EXCEPT ![s] = "rows"]
    /\ row' = [a \in Artifact |-> IF Owner[a] = s /\ row[a] = "pending_eviction"
                                  THEN "evicted" ELSE row[a]]
    /\ UNCHANGED <<sessions, file, born, pc, read, up, todo, faults>>
\* delete_application_records cascades; it refuses while a run is active
DeleteRows(s) ==
    /\ up /\ del[s] = "rows" /\ del' = [del EXCEPT ![s] = "idle"]
    /\ \/ /\ sessions' = sessions \ {s}
          /\ row' = [a \in Artifact |-> IF Owner[a] = s THEN "none" ELSE row[a]]
       \/ UNCHANGED <<sessions, row>>
    /\ UNCHANGED <<file, born, pc, read, up, todo, faults>>

-----------------------------------------------------------------------------
(* Crash and reconcile *)

Crash ==
    /\ Fault /\ up' = FALSE /\ read' = [a \in Artifact |-> {}]
    /\ pc' = [a \in Artifact |-> IF pc[a] = "idle" THEN "idle" ELSE "done"]
    /\ del' = [s \in Owners |-> "idle"]
    /\ \/ UNCHANGED <<row, file>>
       \/ \E a \in Artifact :   \* between the insert's commit and the move
            /\ pc[a] = "staged" /\ up /\ Owner[a] \in sessions
            /\ row' = [row EXCEPT ![a] = "pending"] /\ UNCHANGED file
       \/ \E s \in Owners :    \* between the update's commit and rmtree
            /\ del[s] = "listed" /\ up
            /\ row' = [a \in Artifact |-> IF Owner[a] = s /\ row[a] \in Doomed
                                          THEN "pending_eviction" ELSE row[a]]
            /\ UNCHANGED file
    /\ todo' = {a \in Artifact : row'[a] \in {"pending", "pending_eviction", "available"}}
    /\ UNCHANGED <<sessions, born>>

ReconcileRow(a) ==
    /\ ~up /\ a \in todo /\ todo' = todo \ {a}
    /\ CASE row[a] = "pending_eviction" ->
              \/ /\ file' = [file EXCEPT ![a] = IF @ = "canonical" THEN "none" ELSE @]
                 /\ row' = [row EXCEPT ![a] = "evicted"] /\ UNCHANGED faults
              \/ Fault /\ UNCHANGED <<row, file>>
         [] row[a] = "pending" ->
              /\ file' = [file EXCEPT ![a] = IF @ = "stage" THEN "canonical" ELSE @]
              /\ row' = [row EXCEPT ![a] = IF file[a] = "none" THEN "failed" ELSE "available"]
              /\ UNCHANGED faults
         [] row[a] = "available" ->
              /\ row' = [row EXCEPT ![a] = IF file[a] = "canonical" THEN @ ELSE "missing"]
              /\ UNCHANGED <<file, faults>>
         [] OTHER -> UNCHANGED <<row, file, faults>>
    /\ UNCHANGED <<sessions, born, pc, read, del, up>>
\* Every stage file left is deleted
ReconcileStages ==
    /\ ~up /\ todo = {} /\ up' = TRUE
    /\ file' = [a \in Artifact |-> IF file[a] = "stage" THEN "none" ELSE file[a]]
    /\ UNCHANGED <<sessions, row, born, pc, read, del, todo, faults>>

Retention(a, level) ==
    \/ ReadRows(a, level) \/ ReadTotals(a, level) \/ MarkEviction(a, level)
    \/ Unlink(a, level) \/ Evicted(a, level)
Next ==
    \/ \E a \in Artifact :
         \/ Capture(a) \/ Stage(a) \/ Reject(a) \/ Insert(a) \/ InsertRefused(a)
         \/ MarkAvailable(a) \/ MarkFailed(a) \/ ReconcileRow(a)
         \/ \E level \in {"S", "G"} : Retention(a, level)
    \/ \E s \in Owners : DeleteList(s) \/ DeleteMark(s) \/ DeleteEvicted(s) \/ DeleteRows(s)
    \/ Crash \/ ReconcileStages

Spec == Init /\ [][Next]_vars

-----------------------------------------------------------------------------
(* What must hold *)

\* A row that says available has its bytes at the canonical path: no eviction,
\* session deletion, crash or recovery leaves a row the panel lists and cannot open.
AvailableHasBytes == \A a \in Artifact : row[a] = "available" => file[a] = "canonical"

\* When no register is under way and no fault has happened, every session and the
\* store as a whole are within both caps.  Registers run side by side and each reads
\* the rows and the totals in two queries, so this holds only while none of them was
\* a TornRead.
CapsHold ==
    (faults = 0 /\ \A a \in Artifact : pc[a] \in {"idle", "done"}) =>
        \A a \in Artifact, level \in {"S", "G"} :
            LET held == Available(Scope(a, level))
            IN Cardinality(held) <= Caps(level)[1] /\ Bytes(held) <= Caps(level)[2]
====
