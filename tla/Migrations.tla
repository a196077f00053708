----------------------------- MODULE Migrations -----------------------------
(***************************************************************************)
(* Migrate: processes that start on the same database file, servers and    *)
(* `user create-admin` commands, of builds that embed different            *)
(* migrations.  They may fail, be cancelled or crash at any step.          *)
(*                                                                         *)
(* SQLite is modelled by what it does: one transaction writes at a time,   *)
(* another writer is refused, and a transaction takes effect as a whole    *)
(* when it commits, or not at all.                                         *)
(***************************************************************************)
EXTENDS Naturals, Sequences

CONSTANTS
    Processes,
    Migrations,         \* migrations, by file name
    Builds,             \* what builds embed, in the order of the versions
    NoProcess

ASSUME MigrationsAssumption ==
    /\ NoProcess \notin Processes
    /\ Builds \subseteq Seq(Migrations)

VARIABLES
    schema,             \* the effects in the database, in order of execution
    recorded,           \* schema_migrations: version -> name
    writer,             \* the process whose transaction writes
    staged,             \* what that transaction has written
    proc                \* proc[p]: what p does next, its build, and its candidate

vars == <<schema, recorded, writer, staged, proc>>
file == <<schema, recorded, writer, staged>>

Off == [pc |-> "off", build |-> <<>>, next |-> 1]

Init ==
    /\ schema = <<>>
    /\ recorded = <<>>
    /\ writer = NoProcess
    /\ staged = [schema |-> <<>>, recorded |-> <<>>]
    /\ proc = [p \in Processes |-> Off]

Goto(p, step) == proc' = [proc EXCEPT ![p].pc = step]

\* prepareApplication or createAdmin, by a process of some build.
Start(p) ==
    /\ proc[p].pc = "off"
    /\ \E build \in Builds :
          proc' = [proc EXCEPT ![p] = [pc |-> "ensure", build |-> build, next |-> 1]]
    /\ UNCHANGED file

\* CREATE TABLE IF NOT EXISTS: a table without rows is an empty `recorded`.  It
\* writes only where no table is, and then nobody has begun a transaction yet.
EnsureMigrationTable(p) ==
    /\ proc[p].pc = "ensure"
    /\ Goto(p, "read")
    /\ UNCHANGED file

\* (faulty variant: the number of rows is compared, and their names are not)
CompatibleByLength(n, build) ==
    n \in 0..Len(build) /\ DOMAIN recorded = 1..n

\* The table has n rows and validateAppliedMigrations accepts them.
Compatible(n, build) ==
    /\ n \in 0..Len(build)
    /\ DOMAIN recorded = 1..n
    /\ \A v \in 1..n : recorded[v] = build[v]

\* readAppliedMigrations and validateAppliedMigrations.
ReadApplied(p) ==
    /\ proc[p].pc = "read"
    /\ \E n \in 0..Len(schema) :
          /\ Compatible(n, proc[p].build)
          /\ proc' = [proc EXCEPT ![p] =
                         [pc |-> "apply", build |-> proc[p].build, next |-> n + 1]]
    /\ UNCHANGED file

Candidate(p) == proc[p].build[proc[p].next]

\* (faulty variant: the statements commit by themselves)
ExecuteDirectly(p) ==
    /\ proc[p].pc = "apply" /\ proc[p].next <= Len(proc[p].build)
    /\ writer = NoProcess /\ writer' = p
    /\ schema' = Append(schema, Candidate(p))
    /\ staged' = [schema |-> schema', recorded |-> recorded]
    /\ Goto(p, "record")
    /\ UNCHANGED recorded

\* BeginTx and the statements of the candidate, which may also succeed where
\* their effect is in the database already.
Execute(p) ==
    /\ proc[p].pc = "apply" /\ proc[p].next <= Len(proc[p].build)
    /\ writer = NoProcess /\ writer' = p
    /\ staged' = [schema |-> Append(schema, Candidate(p)), recorded |-> recorded]
    /\ Goto(p, "record")
    /\ UNCHANGED <<schema, recorded>>

With(rows, version, name) ==
    [v \in DOMAIN rows \union {version} |-> IF v = version THEN name ELSE rows[v]]

\* (faulty variant: INSERT OR REPLACE)
RecordOrReplace(p) ==
    /\ proc[p].pc = "record"
    /\ staged' = [staged EXCEPT !.recorded = With(@, proc[p].next, Candidate(p))]
    /\ Goto(p, "commit")
    /\ UNCHANGED <<schema, recorded, writer>>

\* INSERT INTO schema_migrations, refused if the version has a row.
Record(p) ==
    /\ proc[p].pc = "record"
    /\ proc[p].next \notin DOMAIN staged.recorded
    /\ staged' = [staged EXCEPT !.recorded = With(@, proc[p].next, Candidate(p))]
    /\ Goto(p, "commit")
    /\ UNCHANGED <<schema, recorded, writer>>

Commit(p) ==
    /\ proc[p].pc = "commit"
    /\ schema' = staged.schema /\ recorded' = staged.recorded
    /\ writer' = NoProcess
    /\ proc' = [proc EXCEPT ![p].pc = "apply", ![p].next = @ + 1]
    /\ UNCHANGED staged

\* Migrate returns nil.
Finish(p) ==
    /\ proc[p].pc = "apply" /\ proc[p].next > Len(proc[p].build)
    /\ Goto(p, "ready")
    /\ UNCHANGED file

Release(p) == writer' = IF writer = p THEN NoProcess ELSE writer

\* (faulty variant: a migration that fails is skipped)
FailAndSkip(p) ==
    /\ proc[p].pc = "record"
    /\ Release(p)
    /\ proc' = [proc EXCEPT ![p].pc = "apply", ![p].next = @ + 1]
    /\ UNCHANGED <<schema, recorded, staged>>

\* A step fails: busy, refused, rejected, cancelled.  The transaction is rolled
\* back, unless it was the commit or the rollback that failed.
Fail(p) ==
    /\ proc[p].pc \in {"ensure", "read", "apply", "record", "commit"}
    /\ (Release(p) \/ UNCHANGED writer)
    /\ Goto(p, "close")
    /\ UNCHANGED <<schema, recorded, staged>>

\* The handle is closed after a failure, or the process stops or crashes:
\* SQLite undoes what was not committed.
Stop(p) ==
    /\ proc[p].pc # "off"
    /\ Release(p)
    /\ proc' = [proc EXCEPT ![p] = Off]
    /\ UNCHANGED <<schema, recorded, staged>>

Next ==
    \E p \in Processes :
        \/ Start(p) \/ EnsureMigrationTable(p) \/ ReadApplied(p) \/ Execute(p)
        \/ Record(p) \/ Commit(p) \/ Finish(p) \/ Fail(p) \/ Stop(p)

Spec == Init /\ [][Next]_vars

-----------------------------------------------------------------------------
(* Properties.                                                             *)

TypeOK ==
    /\ schema \in Seq(Migrations)
    /\ recorded \in Seq(Migrations)
    /\ writer \in Processes \union {NoProcess}
    /\ staged \in [schema : Seq(Migrations), recorded : Seq(Migrations)]
    /\ proc \in [Processes ->
                    [pc : {"off", "ensure", "read", "apply", "record", "commit",
                           "ready", "close"},
                     build : Builds \union {<<>>}, next : Nat]]
    /\ \A p \in Processes : proc[p].next <= Len(proc[p].build) + 1

\* The schema has exactly the effects of the recorded migrations, each once and
\* in order, whoever ran, failed or crashed.  (applyMigration.)
RecordedIsApplied == schema = recorded

\* A build's migrations are the database's first ones.
Has(build) ==
    /\ Len(build) <= Len(schema)
    /\ \A v \in 1..Len(build) : schema[v] = build[v]

\* A process that goes on to use the database finds every migration of its build
\* in it, and keeps finding them whatever other processes do.
ReadyHasItsSchema ==
    \A p \in Processes : proc[p].pc = "ready" => Has(proc[p].build)

\* The migrations of the database are always the beginning of one build's.
Promise == INSTANCE SchemaHistory WITH Histories <- Builds, history <- schema
ImplementsSchemaHistory == Promise!Spec

=============================================================================
