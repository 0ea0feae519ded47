------------------------------- MODULE Upgrade -------------------------------
(***************************************************************************)
(* RuntimeDatabase.open (eee_agent/runtime/database.py): the history of    *)
(* schema migrations is validated and every migration that is missing runs *)
(* in a transaction of its own, statement by statement                     *)
(* (eee_agent/runtime/migrations.py).  Foreign keys are enforced on the    *)
(* connection (_PRAGMAS), so a DROP TABLE deletes the rows of the table    *)
(* first, and the deletion cascades.                                       *)
(*                                                                         *)
(* A database is a set of rows per table.  A row is a record number; the   *)
(* row of a child table has the number of its parent row, so what cascades *)
(* is every child row with the number.  Indexes and columns are left out:  *)
(* no statement of the scripts loses a row through them.                   *)
(***************************************************************************)
EXTENDS Naturals, Sequences, FiniteSets

CONSTANTS Record,     \* record numbers
          MaxCrashes  \* bound: crashes while the database opens

VARIABLES
    tables,   \* the tables on disk: [name -> set of records]
    history,  \* schema_migrations: the versions applied
    work,     \* the tables as the open transaction sees them
    at,       \* <<version, statement>> the migration is at; <<0, 0>>: none
    opened,   \* has open returned
    crashes,
    before    \* history: the records there were before the upgrade

upgradeVars == <<tables, history, work, at, opened, crashes, before>>

Create(t) == [kind |-> "create", table |-> t]
Copy(t, u) == [kind |-> "copy", table |-> t, to |-> u]
Drop(t) == [kind |-> "drop", table |-> t]
Rename(t, u) == [kind |-> "rename", table |-> t, to |-> u]

\* MIGRATION_V1_SQL .. MIGRATION_V8_SQL: their statements on tables
Migrations == <<
    <<Create("sessions"), Create("runs"), Create("events"), Create("runtime_state")>>,
    <<Create("workspaces"), Create("changesets"), Create("approvals"),
      Create("change_receipts")>>,
    <<Create("session_workspace_state")>>,
    <<Create("artifacts")>>,
    <<>>,
    <<>>,
    <<Create("changesets_v7"), Copy("changesets", "changesets_v7"), Drop("changesets"),
      Rename("changesets_v7", "changesets")>>,
    <<Create("task_steps"), Create("task_nodes")>> >>
SchemaVersion == Len(Migrations)

\* REFERENCES ... ON DELETE CASCADE
References == {
    <<"runs", "sessions">>, <<"events", "sessions">>, <<"events", "runs">>,
    <<"workspaces", "sessions">>, <<"workspaces", "runs">>, <<"changesets", "sessions">>,
    <<"changesets", "runs">>, <<"changesets_v7", "sessions">>, <<"changesets_v7", "runs">>,
    <<"approvals", "changesets">>, <<"change_receipts", "changesets">>,
    <<"session_workspace_state", "sessions">>, <<"artifacts", "sessions">>,
    <<"artifacts", "runs">>, <<"task_steps", "runs">>, <<"task_nodes", "runs">>,
    <<"task_nodes", "task_steps">>}
Children(t) == {p[1] : p \in {q \in References : q[2] = t}}

TablesOf(v) ==
    ({m.table : m \in UNION {{Migrations[i][j] : j \in DOMAIN Migrations[i]} : i \in 1..v}}
        \ {"changesets_v7"})
Without(db, t) == [u \in DOMAIN db \ {t} |-> db[u]]
With(db, t, rows) == [u \in DOMAIN db \cup {t} |-> IF u = t THEN rows ELSE db[u]]

\* The rows a DELETE FROM t takes with it: those of the tables that reference t
Cascade(db, t) ==
    [u \in DOMAIN db |-> IF u \in Children(t) \/ u = t THEN db[u] \ db[t] ELSE db[u]]

Execute(db, m) ==
    CASE m.kind = "create" -> With(db, m.table, {})
      [] m.kind = "copy" -> With(db, m.to, db[m.table])
      [] m.kind = "drop" -> Without(Cascade(db, m.table), m.table)
      [] m.kind = "rename" -> With(Without(db, m.table), m.to, db[m.table])

-----------------------------------------------------------------------------
(* A database an earlier version left, with some of its records *)
UpgradeInit ==
    /\ \E v \in 0..SchemaVersion, rows \in SUBSET Record :
         /\ history = [i \in 1..v |-> i]
         /\ \E parents \in SUBSET rows :
              tables = [t \in TablesOf(v) |->
                          IF Children(t) # {} THEN rows ELSE parents]
    /\ before = tables /\ work = tables /\ at = <<0, 0>> /\ opened = FALSE /\ crashes = 0

\* _validate_history, then BEGIN IMMEDIATE of the first migration that is missing
Validate == history = [i \in 1..Len(history) |-> i] /\ Len(history) <= SchemaVersion
Begin ==
    /\ ~opened /\ at = <<0, 0>> /\ Validate /\ Len(history) < SchemaVersion
    /\ at' = <<Len(history) + 1, 1>> /\ work' = tables
    /\ UNCHANGED <<tables, history, opened, crashes, before>>
StatementAutocommit ==   \* mutant: executescript, which commits as it goes
    /\ at # <<0, 0>> /\ at[2] <= Len(Migrations[at[1]])
    /\ work' = Execute(work, Migrations[at[1]][at[2]]) /\ tables' = work'
    /\ at' = [at EXCEPT ![2] = @ + 1]
    /\ UNCHANGED <<history, opened, crashes, before>>
Statement ==
    /\ at # <<0, 0>> /\ at[2] <= Len(Migrations[at[1]])
    /\ work' = Execute(work, Migrations[at[1]][at[2]])
    /\ at' = [at EXCEPT ![2] = @ + 1]
    /\ UNCHANGED <<tables, history, opened, crashes, before>>
\* The row of schema_migrations and COMMIT
CommitMigration ==
    /\ at # <<0, 0>> /\ at[2] = Len(Migrations[at[1]]) + 1
    /\ tables' = work /\ history' = Append(history, at[1]) /\ at' = <<0, 0>>
    /\ UNCHANGED <<work, opened, crashes, before>>
Opened ==
    /\ ~opened /\ at = <<0, 0>> /\ Validate /\ Len(history) = SchemaVersion
    /\ opened' = TRUE
    /\ UNCHANGED <<tables, history, work, at, crashes, before>>
\* ROLLBACK, or the process dies and SQLite discards the transaction
Interrupted ==
    /\ at # <<0, 0>> /\ crashes < MaxCrashes /\ crashes' = crashes + 1
    /\ at' = <<0, 0>> /\ work' = tables
    /\ UNCHANGED <<tables, history, opened, before>>

UpgradeNext == Begin \/ Statement \/ CommitMigration \/ Opened \/ Interrupted
UpgradeSpec == UpgradeInit /\ [][UpgradeNext]_upgradeVars

-----------------------------------------------------------------------------
(* What must hold *)

\* The tables on disk are exactly those of the versions the history lists, however
\* often open was interrupted: a migration is never half applied.
WholeVersions == DOMAIN tables = TablesOf(Len(history))

\* An upgrade loses no record.  migrations.py says of the rebuild of changesets:
\* "No data semantics change for existing states".
KeepsRecords == \A t \in DOMAIN before : t \in DOMAIN tables /\ before[t] \subseteq tables[t]
====
