--------------------------- MODULE SchemaMigration ---------------------------
(***************************************************************************)
(* SchemaMigration (detection/storage.py): migrate_db, which every storage *)
(* operation runs first through init_db, in every process that shares the  *)
(* SQLite file: API, stream worker, webhook worker, pipeline, db-migrate.  *)
(*                                                                         *)
(* What SQLite promises is modelled, not SQLite: each statement of a       *)
(* script commits by itself (executescript), the final UPDATEs form one    *)
(* transaction, a SELECT sees what is committed, and a statement that waits *)
(* too long for the lock raises OperationalError.  The migrations are a    *)
(* parameter: a script is a sequence of schema objects (tables, indexes,   *)
(* columns), each created by one statement.                                *)
(***************************************************************************)
EXTENDS Integers, FiniteSets, Sequences

CONSTANTS
    Processes,      \* the processes that open the database
    Script,         \* _MIGRATIONS: for each version, the objects it creates
    Repeatable,     \* objects created with IF NOT EXISTS
    MaxCrashes,     \* bound: processes killed during a migration
    MaxBusy         \* bound: statements that give up waiting for the lock

Versions == DOMAIN Script
Latest == Len(Script)
Objects(v) == {Script[v][i] : i \in DOMAIN Script[v]}

Schema == UNION {Objects(v) : v \in Versions}

ASSUME MigrationAssumption ==
    /\ Script \in Seq(Seq(Schema))
    /\ MaxCrashes \in Nat
    /\ MaxBusy \in Nat

\* No two migrations create the same object (InterruptionVisible reads from an
\* object which version made it).
ASSUME ObjectsAssumption ==
    \A u, v \in Versions : u # v => Objects(u) \cap Objects(v) = {}

VARIABLES
    version,     \* the row of schema_version, 0 while there is none
    log,         \* rows of schema_migrations; nothing reads how many are equal
    present,     \* schema objects that exist
    pc,          \* where each process is in migrate_db
    target,      \* the version each process applies next
    step,        \* the statement of its script it executes next
    crashes,     \* processes killed so far
    busy,        \* statements that gave up so far
    disturbed,   \* history: two calls of migrate_db ran at once, or the version
                 \* could not be read
    repaired     \* history: versions the operator has completed by hand

database == <<version, log, present>>
calls == <<pc, target, step>>
bounds == <<crashes, busy>>
history == <<disturbed, repaired>>
vars == <<database, calls, bounds, history>>

\* Rows of schema_migrations.
Row == [version : Versions, status : {"applying", "applied"}, error : BOOLEAN]
\* "idle": outside migrate_db, whose last call raised, if any;
\* "ready": it returned, the storage operation goes on
Control == {"idle", "ready", "detect", "read", "log", "run", "error", "finish"}
Migrating(p) == pc[p] \notin {"idle", "ready"}

Interrupted == {row \in log : row.status = "applying"}

-----------------------------------------------------------------------------
Init ==
    /\ version = 0
    /\ log = {}
    /\ present = {}
    /\ pc = [p \in Processes |-> "idle"]
    /\ target = [p \in Processes |-> 1]
    /\ step = [p \in Processes |-> 1]
    /\ crashes = 0
    /\ busy = 0
    /\ disturbed = FALSE
    /\ repaired = {}

GoesTo(p, label) == pc' = [pc EXCEPT ![p] = label]

\* A storage operation calls init_db.  The meta tables are created if absent
\* (an absent one reads like an empty one).
Call(p) ==
    /\ ~Migrating(p)
    /\ GoesTo(p, "detect")
    /\ disturbed' = (disturbed \/ \E q \in Processes \ {p} : Migrating(q))
    /\ UNCHANGED <<database, target, step, bounds, repaired>>

\* A row says 'applying': SchemaMigrationError.
Refuse(p) ==
    /\ pc[p] = "detect"
    /\ Interrupted # {}
    /\ GoesTo(p, "idle")
    /\ UNCHANGED <<database, target, step, bounds, history>>

Proceed(p) ==
    /\ pc[p] = "detect"
    /\ Interrupted = {}
    /\ GoesTo(p, "read")
    /\ UNCHANGED <<database, target, step, bounds, history>>

\* The loop is at version v: it returns when there is no such migration.
Continues(p, v) ==
    /\ target' = [target EXCEPT ![p] = v]
    /\ GoesTo(p, IF v > Latest THEN "ready" ELSE "log")

\* Mutation: the first migration tried is one too far.
FirstPendingSkips(v) == v + 2
\* The first migration whose version is above the database's: if version <= current: continue
FirstPending(v) == v + 1

\* get_schema_version takes any OperationalError for an absent table: when the
\* file is locked for too long the version reads as 0.
ReadLocked(p) ==
    /\ pc[p] = "read"
    /\ busy < MaxBusy
    /\ busy' = busy + 1
    /\ disturbed' = TRUE
    /\ Continues(p, FirstPending(0))
    /\ UNCHANGED <<database, step, crashes, repaired>>

\* SELECT MAX(version) FROM schema_version.
ReadVersion(p) ==
    /\ pc[p] = "read"
    /\ Continues(p, FirstPending(version))
    /\ UNCHANGED <<database, step, bounds, history>>

StartedRow(v) == [version |-> v, status |-> "applying", error |-> FALSE]

\* Mutation: the row is only inserted in the transaction that ends the migration.
LoggedLate(v) == UNCHANGED log
\* INSERT INTO schema_migrations ... 'applying', and commit.
Logged(v) == log' = log \cup {StartedRow(v)}

LogStart(p) ==
    /\ pc[p] = "log"
    /\ Logged(target[p])
    /\ step' = [step EXCEPT ![p] = 1]
    /\ GoesTo(p, "run")
    /\ UNCHANGED <<version, present, target, bounds, history>>

\* The statement process p executes next.
Statement(p) == Script[target[p]][step[p]]

\* executescript, one committed statement.
Execute(p) ==
    /\ pc[p] = "run"
    /\ step[p] <= Len(Script[target[p]])
    /\ Statement(p) \in Repeatable \/ Statement(p) \notin present
    /\ present' = present \cup {Statement(p)}
    /\ step' = [step EXCEPT ![p] = @ + 1]
    /\ UNCHANGED <<version, log, pc, target, bounds, history>>

\* The script is through.
Executed(p) ==
    /\ pc[p] = "run"
    /\ step[p] > Len(Script[target[p]])
    /\ GoesTo(p, "finish")
    /\ UNCHANGED <<database, target, step, bounds, history>>

\* ALTER TABLE ... ADD COLUMN of a column that exists raises.
Fail(p) ==
    /\ pc[p] = "run"
    /\ step[p] <= Len(Script[target[p]])
    /\ Statement(p) \notin Repeatable
    /\ Statement(p) \in present
    /\ GoesTo(p, "error")
    /\ UNCHANGED <<database, target, step, bounds, history>>

\* UPDATE schema_migrations ... WHERE version = v AND status = 'applying'.
Updated(v, status, failed) ==
    log' = {IF row.version = v /\ row.status = "applying"
               THEN [version |-> v, status |-> status, error |-> row.error \/ failed]
               ELSE row : row \in log}

\* The except clause: the error is noted in the row, which stays 'applying'.
RecordError(p) ==
    /\ pc[p] = "error"
    /\ Updated(target[p], "applying", TRUE)
    /\ GoesTo(p, "idle")
    /\ UNCHANGED <<version, present, target, step, bounds, history>>

\* Mutation: the loop tries the same version again.
NextVersionSame(v) == v
NextVersion(v) == v + 1

\* One transaction: every 'applying' row of the version becomes 'applied', the
\* row of schema_version is inserted or updated; then the loop goes on.
Finish(p) ==
    /\ pc[p] = "finish"
    /\ Updated(target[p], "applied", FALSE)
    /\ version' = target[p]
    /\ Continues(p, NextVersion(target[p]))
    /\ UNCHANGED <<present, step, bounds, history>>

\* Mutation: a failing script is taken for a finished one.
AfterLockedRunDone == "finish"
\* What a statement that raises "database is locked" leads to: in the script,
\* the except clause; elsewhere the exception leaves migrate_db, and closing
\* the connection rolls the transaction back.
AfterLockedRun == "error"

LockTimeout(p) ==
    /\ busy < MaxBusy
    /\ busy' = busy + 1
    /\ \/ pc[p] \in {"detect", "log", "error", "finish"} /\ GoesTo(p, "idle")
       \/ pc[p] = "run" /\ GoesTo(p, AfterLockedRun)
    /\ UNCHANGED <<database, target, step, crashes, history>>

-----------------------------------------------------------------------------
\* The process is killed; it may call again when it is restarted.
Crash(p) ==
    /\ Migrating(p)
    /\ crashes < MaxCrashes
    /\ crashes' = crashes + 1
    /\ GoesTo(p, "idle")
    /\ UNCHANGED <<database, target, step, busy, history>>

\* The operator does what the SchemaMigrationError says, with every process
\* stopped: "completing the migration SQL manually ..., then update the status
\* to 'applied' before restarting".
Repair ==
    /\ Interrupted # {}
    /\ \A p \in Processes : ~Migrating(p)
    /\ present' = present \cup UNION {Objects(row.version) : row \in Interrupted}
    /\ log' = {[row EXCEPT !.status = "applied"] : row \in log}
    /\ repaired' = repaired \cup {row.version : row \in Interrupted}
    /\ UNCHANGED <<version, calls, bounds, disturbed>>

Migrate(p) ==
    \/ Refuse(p) \/ Proceed(p) \/ ReadVersion(p) \/ LogStart(p)
    \/ Execute(p) \/ Executed(p) \/ Fail(p) \/ RecordError(p) \/ Finish(p)

Next ==
    \/ \E p \in Processes : Call(p) \/ Migrate(p) \/ ReadLocked(p) \/ LockTimeout(p) \/ Crash(p)
    \/ Repair

Spec == Init /\ [][Next]_vars

\* A call of migrate_db keeps running: it waits for nothing but the lock, for
\* five seconds at most.
FairSpec == Spec /\ \A p \in Processes : WF_vars(Migrate(p))

-----------------------------------------------------------------------------
\* Every object of the versions up to v exists.
Complete(v) == \A u \in Versions : u <= v => Objects(u) \subseteq present

\* The type invariant of the file and of the calls in progress.
TypeOK ==
    /\ version \in 0..Latest
    /\ log \subseteq Row
    /\ present \subseteq Schema
    /\ pc \in [Processes -> Control]
    /\ target \in [Processes -> 1..(Latest + 1)]
    /\ \A p \in Processes : pc[p] \in {"log", "run", "error", "finish"} => target[p] \in Versions
    /\ step \in [Processes -> Nat \ {0}]
    /\ crashes \in 0..MaxCrashes
    /\ busy \in 0..MaxBusy
    /\ disturbed \in BOOLEAN
    /\ repaired \subseteq Versions

\* schema_version never claims more than the file has, whatever processes
\* migrate it at once, crash or run into the lock: migrate_db's early-exit test
\* "version <= current" may rely on it.
VersionIsComplete == Complete(version)

\* A storage operation that goes on after init_db finds every table and column
\* its SQL names, also when other processes were migrating the file.
ReadyIsComplete == \A p \in Processes : pc[p] = "ready" => Complete(Latest)

\* A row 'applied' of schema_migrations is about a script that ran to its end,
\* also when it was another process that ran it.
AppliedIsComplete ==
    \A row \in log : row.status = "applied" => Objects(row.version) \subseteq present

\* migrate_db's docstring: "the interrupted migration version is visible in the
\* log": objects of a version above schema_version's have a row 'applying',
\* as long as calls do not overlap, the version could always be read and the
\* operator has not intervened.
InterruptionVisible ==
    ~disturbed =>
        \A v \in Versions \ repaired :
            v > version /\ Objects(v) \cap present # {} =>
                \E row \in log : row.version = v /\ row.status = "applying"

\* Every call of migrate_db returns or raises.
CallReturns == \A p \in Processes : Migrating(p) ~> ~Migrating(p)
=============================================================================
