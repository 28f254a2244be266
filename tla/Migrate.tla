------------------------------ MODULE Migrate -------------------------------
(***************************************************************************)
(* internal/database/migrate and the migrate commands: Up and Down list    *)
(* the migrations, take bun's lock row, let bun migrate or roll back and   *)
(* unlock.  Several processes, any of which may be killed.                 *)
(***************************************************************************)
EXTENDS Integers, FiniteSets

CONSTANTS
    Migrators,      \* processes that run a migrate command
    NumMigrations,  \* migrations there are, numbered in the order of their names
    MaxCommands     \* bound: commands a process runs

ASSUME MigrateAssumption == NumMigrations \in Nat

VARIABLES
    group,          \* bun_migrations: the group a migration is of, 0 if not applied
    lockRow,        \* bun_migration_locks has the row
    schema,         \* history: runs of up less runs of down, of each migration
    torn,           \* history: commands that stopped between a mark and its SQL
    proc            \* of each process: command, stage, what it listed, what it does

migrateVars == <<group, lockRow, schema, torn, proc>>

Migrations == 1 .. NumMigrations
Stages == {"idle", "listed", "locked", "run", "unlock", "dead"}

MigrateTypeOK ==
    /\ group \in [Migrations -> 0 .. NumMigrations * MaxCommands * Cardinality(Migrators)]
    /\ lockRow \in BOOLEAN /\ torn \subseteq {"up", "down"} /\ schema \in [Migrations -> Int]
    /\ \A p \in Migrators : /\ proc[p].at \in Stages /\ proc[p].command \in {"up", "down"}
                            /\ proc[p].listed \subseteq Migrations
                            /\ proc[p].todo \subseteq Migrations
                            /\ proc[p].commands \in 0 .. MaxCommands

MigrateInit ==
    /\ group = [m \in Migrations |-> 0] /\ lockRow = FALSE /\ schema = [m \in Migrations |-> 0]
    /\ torn = {}
    /\ proc = [p \in Migrators |-> [at |-> "idle", command |-> "up", listed |-> {}, todo |-> {},
                                    id |-> 0, marked |-> 0, commands |-> 0]]

pendingMigrations == {m \in Migrations : group[m] = 0}
LastGroupID == CHOOSE g \in {0} \cup {group[m] : m \in Migrations} : \A m \in Migrations : group[m] <= g
lastMigrationGroup == {m \in Migrations : group[m] = LastGroupID /\ LastGroupID # 0}
Listed(command) == IF command = "up" THEN pendingMigrations ELSE lastMigrationGroup

\* Up and Down list; with nothing to do, or a dry run, that is all they do.
List(p, command, dryRun) ==
    /\ proc[p].at = "idle" /\ proc[p].commands < MaxCommands
    /\ proc' = [proc EXCEPT ![p] =
                  [at |-> IF Listed(command) = {} \/ dryRun THEN "idle" ELSE "listed",
                   command |-> command, listed |-> Listed(command), todo |-> {}, id |-> 0,
                   marked |-> 0, commands |-> proc[p].commands + 1]]
    /\ UNCHANGED <<group, lockRow, schema, torn>>

\* Mutant: the lock is not asked for.
LockUnasked(p) ==
    /\ proc[p].at = "listed"
    /\ lockRow' = TRUE
    /\ proc' = [proc EXCEPT ![p].at = "locked"]
    /\ UNCHANGED <<group, schema, torn>>

\* migrator.Lock inserts the row, once.
Lock(p) ==
    /\ proc[p].at = "listed" /\ ~ lockRow
    /\ lockRow' = TRUE
    /\ proc' = [proc EXCEPT ![p].at = "locked"]
    /\ UNCHANGED <<group, schema, torn>>

LockFails(p) ==
    /\ proc[p].at = "listed" /\ lockRow
    /\ proc' = [proc EXCEPT ![p].at = "idle"]
    /\ UNCHANGED <<group, lockRow, schema, torn>>

\* bun reads the status again; what Up and Down listed is for their result only.
Read(p) ==
    /\ proc[p].at = "locked"
    /\ proc' = [proc EXCEPT ![p].at = "run", ![p].todo = Listed(proc[p].command),
                            ![p].id = LastGroupID + 1]
    /\ UNCHANGED <<group, lockRow, schema, torn>>

Ordered(p, m) ==
    /\ m \in proc[p].todo
    /\ \A n \in proc[p].todo : IF proc[p].command = "up" THEN m <= n ELSE n <= m

\* bun marks a migration, then runs its SQL.
Mark(p, m) ==
    /\ proc[p].at = "run" /\ proc[p].marked = 0 /\ Ordered(p, m)
    /\ group' = [group EXCEPT ![m] = IF proc[p].command = "up" THEN proc[p].id ELSE 0]
    /\ proc' = [proc EXCEPT ![p].marked = m]
    /\ UNCHANGED <<lockRow, schema, torn>>

Run(p, m) ==
    /\ proc[p].at = "run" /\ proc[p].marked = m
    /\ schema' = [schema EXCEPT ![m] = IF proc[p].command = "up" THEN @ + 1
                                       ELSE IF @ > 0 THEN @ - 1 ELSE @]
    /\ proc' = [proc EXCEPT ![p].todo = @ \ {m}, ![p].marked = 0,
                            ![p].at = IF proc[p].todo = {m} THEN "unlock" ELSE "run"]
    /\ UNCHANGED <<group, lockRow, torn>>

\* There was nothing left when it was read again.
RunNothing(p) ==
    /\ proc[p].at = "run" /\ proc[p].todo = {}
    /\ proc' = [proc EXCEPT ![p].at = "unlock"]
    /\ UNCHANGED <<group, lockRow, schema, torn>>

Tears(p) ==
    torn' = IF proc[p].at = "run" /\ proc[p].marked # 0 THEN torn \cup {proc[p].command} ELSE torn

\* The SQL, or the database, fails: the rest is left, the deferred Unlock is not.
RunFails(p) ==
    /\ proc[p].at \in {"locked", "run"}
    /\ proc' = [proc EXCEPT ![p].at = "unlock"]
    /\ Tears(p)
    /\ UNCHANGED <<group, lockRow, schema>>

Unlock(p) ==
    /\ proc[p].at = "unlock"
    /\ lockRow' = FALSE
    /\ proc' = [proc EXCEPT ![p].at = "idle"]
    /\ UNCHANGED <<group, schema, torn>>

\* Killed: the lock row stays.
Kill(p) ==
    /\ proc[p].at \in {"listed", "locked", "run", "unlock"}
    /\ proc' = [proc EXCEPT ![p].at = "dead"]
    /\ Tears(p)
    /\ UNCHANGED <<group, lockRow, schema>>

MigrateNext ==
    \E p \in Migrators :
        \/ \E command \in {"up", "down"}, dryRun \in BOOLEAN : List(p, command, dryRun)
        \/ Lock(p) \/ LockFails(p) \/ Read(p) \/ RunNothing(p) \/ RunFails(p)
        \/ \E m \in Migrations : Mark(p, m) \/ Run(p, m)
        \/ Unlock(p) \/ Kill(p)

MigrateSpec == MigrateInit /\ [][MigrateNext]_migrateVars

\* No migration's SQL is run on top of itself, and the schema is what the table of
\* migrations says: whichever processes migrate and roll back at the same time,
\* each judging by a list it made before it had the lock, and wherever one of them
\* is killed or fails; but that a command stopped between a mark and its SQL is
\* not made good (runner.go 56-139).
AppliedOnce ==
    /\ "down" \notin torn => \A m \in Migrations : schema[m] <= 1
    /\ torn = {} => \A m \in Migrations :
        \/ schema[m] = IF group[m] = 0 THEN 0 ELSE 1
        \/ \E p \in Migrators : proc[p].at = "run" /\ proc[p].marked = m
=============================================================================
