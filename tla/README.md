# pgroll in TLA+

Models, model-checking runs and proofs about pgroll: the history it keeps in
PostgreSQL; the commands that expand, contract and take back a deployment, and
what is left when they are interrupted or run at the same time; the backfill
under concurrent writes; what every operation does to tables, triggers and
views, alone and in a train; and how the migrations to apply or to undo are
chosen.

## The system

pgroll applies schema changes in two phases. *Start* (expand) adds the new
shape beside the old one, backfills it and projects a *version schema* of
views; *Complete* (contract) removes the old shape once no application needs
it. `pgroll migrate` applies a batch (a *train*): its intermediate migrations
project no schema and are completed at once, the destructive ones only by
queueing their Complete operations; the last one stays active until `pgroll
complete`. Everything is recorded in one table, `pgroll.migrations`.

| Component | State | Operations | Interacts through |
|---|---|---|---|
| migration history (`pkg/state`) | rows with parent, done, complete_deferred, sealed, type, created_at, resulting_schema | Start, Complete, MarkCompleteDeferred, ClearCompleteDeferred, MarkSealed, RefreshResultingSchema, Rollback, DeleteMigration | SQL statements, one at a time, autocommitted |
| history surgery (`pkg/state`, `pkg/roll`) | a temporary table (prune), row locks (rebaseline) | CreateBaseline, Stamp, Prune, ConvertMigrationToBaseline | the same table |
| execution (`pkg/roll/execute.go`) | the physical schema, version schemas | Start, Complete, Rollback, DropVersionSchemasExcept | history, operations, backfill |
| contraction (`pkg/roll/contract.go`) | the deferred queue | FinishContraction | history, operations |
| window revert (`pkg/roll/revert.go`) | the unsealed window | RevertTargets, RevertPlan, Revert | history, operations |
| sealed revert (`pkg/roll/revert_sealed.go`) | inverse migrations, tombstones | RevertSealed, FinishPendingSealedRevert | migrate, prune |
| commands (`cmd`) | none | migrate, complete, rollback, revert, start, ... | pkg/roll |
| backfill (`pkg/backfill`) | marker column, triggers, batch cursor | CreateTriggers, Start, updateBatch | tables and application writes |
| retrying connection (`pkg/db`) | time budget | ExecContext, QueryContext, WithRetryableTransaction | every statement |
| operations (`pkg/migrations`) | tables, columns, constraints, indexes | Validate, Start, Complete, Rollback, UpdateVirtualSchema per operation | physical and virtual schema |
| inversion (`pkg/migrations/invert.go`) | none (boundary snapshot and replayed Starts) | Invert per operation, InvertSegment | sealed revert |
| planning (`pkg/roll/depends.go`, `plan.go`, `unapplied.go`, ...) | none (files and history) | which files to apply, in which order; which rows to undo, and how | migrate, check, revert, plan |
| SQL conversion (`pkg/sql2pgroll`), files, status, tooling | none | translation, printing | |

What is hard here, and what `PROJECT.json` lists line by line under
`hazards`: several statements per command with no surrounding transaction, so
a command can be interrupted between any two of them; decisions made from a
read that another process can invalidate; a point of no return (sealing) that
must precede the DDL it is about; a queue of destructive DDL that must drain
in order, with the right views out of the way; operations of a train that must
be validated and run against a schema that does not exist yet; resumption
driven by what the interrupted run left in the table; snapshots taken while the
schema is in between; rows written while they are being backfilled.

What makes each part correct:

- history: one chain whose order every reader can trust, at most one active
  migration, prune and rebaseline exact;
- deployment: a row that is partly contracted is sealed, a sealed row is never
  taken back by its window, the physical schema is what the history says, the
  version schema the applications use is there, an interrupted contraction can
  be finished;
- backfill: no row is missed, no write through either version is lost, it ends;
- operations in a train: no statement fails on a train that was validated,
  validation sees what a completed deployment would see, what is left after the
  drain is what the operations declare, undoing restores, both versions serve
  the right columns and values throughout;
- inversion: the inverse of a sealed segment restores the boundary's tables;
- planning: a batch respects dependencies and is the first such order by name,
  a directory that passes `check` deploys, `plan` predicts what the commands do
  and following it ends in sync;
- sealed revert: what is undone is what was previewed, an interrupted revert is
  finished by the next command, nothing that was undone comes back by itself.

## Modules

| Module | Models |
|---|---|
| `MigrationsTable` | the table as a value: its rows, constraints, queries and the effect of each statement. No variables. |
| `MigrationHistory` | the history under any number of pgroll processes, each statement one step. It is also the abstract specification of what a deployment may do to the history. |
| `Deployment` | the commands of a deployment over history, physical schema, version schemas and application fleet. Refines `MigrationHistory`. |
| `Backfill` | the backfill of one table through the retrying connection, with application writes. |
| `VirtualSchema`, `PhysicalSchema`, `Duplicator`, `TableOperations`, `ConstraintOperations`, `Operations` | the schema pgroll reads, the database with its DDL, and Validate, Start, Complete and Rollback of every operation. No variables. |
| `DeclaredSchema` | the reference: what an operation declares, carried out at once. |
| `Inversion` | the inverse of operations, migrations and sealed segments. |
| `Train` | a deployment of several migrations as it changes tables, triggers and views. |
| `Planning` | dependency resolution, check, plan and the choice of revert targets, as operators. |
| `SealedRevert` | migrate, complete, rollback and revert on one directory, with inverse trains, pruning and tombstones. |
| `MC*` | instances for TLC. |
| `MigrationsTableProofs` | lemmas about the operators of `MigrationsTable`: inserts, leaves, lag, prune. |
| `MigrationHistoryProofs` | theorems about `MigrationHistory`. |
| `DeploymentProofs` | theorems about `Deployment` for any number of processes, and that it implements `MigrationHistory`. |
| `DeploymentSerialProofs`, `DeploymentCarefulProofs` | theorems about `Deployment` with one process at a time, and with a careful operator; each extends the one before. |
| `DeploymentCoverProofs`, `DeploymentFleetProofs` | on top of the careful operator: that history and snapshots tell what the database holds, and that applications keep their version schema. |
| `BackfillProofs` | theorems about `Backfill`. |

Three modules model deployments, each with the detail its properties need.
`Deployment` has every statement of every command and reduces a migration to
its class; `Train` has every operation and every statement of a contraction
and reduces the commands to their order; `SealedRevert` has the directory, the
choice of what to do and the inverse train, and reduces a migration to the
effect it has. They share the code's decisions: `CompleteMustBeDeferred` and
`CompleteRequiresLiveSchemaDrop` are constants in `Deployment` and computed from
the operations in `Train`; whether an inverse exists is the constant
`Uninvertible` in `SealedRevert` and computed in `Inversion`.

## Runs

| Run | Shows |
|---|---|
| `HistoryOneProcess` | all history operations in any order, 3 names, 4 timestamps: chain order, one active migration that is the leaf, prune and rebaseline exact |
| `DeployCareful` | 4 typed migrations, every interruption outside a migration's own Complete, with and without version schemas: history accounts for the schema, the fleet is served, and what is reported as awaiting complete is materialized or was killed before its marker existed |
| `DeployAnyOperator` | any command at any time, every interruption, raw and onComplete SQL, failing triggers, with and without version schemas: sealing, window shape, unblocked contraction, sealed rows, refinement of `MigrationHistory` |
| `DeployForward` | migrate and complete interrupted anywhere: what becomes done is materialized, clean snapshots, and (liveness) an interrupted contraction is finished |
| `DeployTwoProcesses` | two operators migrating and rolling back at the same time: refinement of `MigrationHistory` |
| `BackfillUnderWrites` | both batchers, text, integer and no key, one operation, two on a column and two columns, failing triggers and batches, lock timeouts, cancellation, writes between and during statements: `WritesPropagate`, `NoRowLeftBehind`, and (liveness) `BackfillEnds` |
| `TrainDeploys` | 35 single operations, all 1 293 pairs of the menu that make sense, eleven longer trains, in both firing orders of triggers: no statement fails, validation, result, views and data, undo, inverse |
| `RevertAndReplan` | planning of every dependency graph on three files with thirteen histories, and seven directories deployed, contracted, reverted, interrupted, resumed, edited and deployed again: what the history says, what was previewed, what stays undone, and (liveness) an interrupted revert is finished |
| `FinishResumeLosesSchema` | violation: a resumed contraction no longer knows that the live schema was dropped |
| `RollbackAfterContraction` | violation: a migration's own Complete ran, its row is not sealed, rollback and revert accept it |
| `TrainWritesOverwritten` | violation: the triggers of a deferred alter_column in the middle of a train take a write through the deployment's own schema for one of the old version |
| `DrainResumeFails` | violation: a contraction interrupted in the Complete of an alter_column cannot be resumed |

The violations are findings in `PROJECT.json`, with the comment or document
each one contradicts.

## Where the code breaks a property

Several passing properties are not true of everything the code can do. What
breaks one is either excused in the property by name (then the run explores it, and the
excuse covers that case and no other) or excluded by a constant of the run.
This section lists both.

### History

With two processes (`Procs <- TwoProcs`, `Admins <- OneProc`, three
timestamps) `LinearHistory` and `SingleActive` still hold, and are proved for
any number. `ActiveIsLeaf` does not: a Start commits between the check for an
active migration and the insert of baseline or stamp (state.go:533). `PruneExact`
does not: rows inserted or updated between prune's copy and its DELETE are lost
or reset (prune.go:80). Nothing holds a lock across the two statements.

### Deployment

`AwaitingIsMaterialized` names its exception, `KilledBeforeMarker`: a Start
killed after ensureViews (execute.go:367) and before CreateTriggers adds the
marker column (trigger.go:76). HasPendingBackfill (execute.go:1038) takes a
missing column for nothing pending, so migrate says EXPANDED and tells the
operator to complete. `Careful` is an operator who completes only what a migrate
returned, not what a later one says of a killed migrate; one who believes it
contracts rows that were never backfilled (third and fourth row below).

The others are excluded by constants, and can be seen by checking the property
with three names, one process, `Modes = {TRUE}` and these (the rest empty or
FALSE):

| Property | Constants | What happens |
|---|---|---|
| `DoneIsMaterialized` | `Backfilled = {2}`, `Careful = TRUE`, migrate and complete, `TriggerErrors = TRUE` | performBackfills drops the error of CreateTriggers (execute.go:906) |
| `HistoryCoversSchema` | the same and `Destructive = {2}` | the Complete then contracts what was never filled |
| `DoneIsMaterialized` | `Backfilled = {2}`, migrate and complete, `CrashAt = {"triggers"}` | a killed Start that reads as awaiting is completed |
| `HistoryCoversSchema` | the same and `Destructive = {2}` | likewise |
| `HistoryCoversSchema`, `DoneIsMaterialized` | `Destructive = {1}`, all verbs, `CrashAt = {"undo", "delete"}` | complete after an interrupted revert drains what is half undone (revert.go:359) |
| `FleetServed` | `Destructive = {1,2,3}`, `OnCompleteSQL = RawSQL = {1}`, migrate and complete, `CrashAt = {"own"}` | Complete's retry, like FinishContraction's resume, forgets that it dropped the active schema (execute.go:522) |
| `FleetServed` | `Destructive = {1,2}`, migrate and complete, `CrashAt = {"defer"}` | complete on an active intermediate drops every version schema (execute.go:481) |
| `FleetServed` | four names, `Destructive = {1,2,3}`, migrate, complete and revert, `CrashAt = {"start", "dropOld"}` | a sealed row left in the queue lets a later unfinished batch pass as a resume (contract.go:123) |
| `BoundarySnapshotClean` | `Destructive = {1,2}`, `Careful = TRUE`, all verbs, `CrashAt = {"own"}` or `{"reseal"}` | Complete drains without refreshing the boundary row; after a rollback or revert its mid-flight snapshot is the leaf's (execute.go:559, 651) |
| `SealedNeverReverted` | two processes, two names, `Destructive = {1}`, migrate, complete and revert | a revert planned before a concurrent complete deletes the rows it sealed (revert.go:404) |

So `DeployCareful` leaves out the interruptions of `RollbackAfterContraction`,
onComplete SQL (`FinishResumeLosesSchema`) and `TriggerErrors`; `DeployForward`
leaves out rollback, revert, onComplete SQL and `TriggerErrors`. `ContractionFinishes`
excuses runs in which processes die or schemas are held for ever; a drain that
fails for good (`DrainResumeFails`) is such a run.

Not caught by any property: a failed Start rolls back whatever migration is
active by then, also another process's (execute.go:327; `MigrationHistory`
allows any process's Rollback). A migrate that died in Start is refused by
every later migrate (migrate.go:221), although the message says that re-running
resumes; with version schemas disabled a finished migrate is taken for an
interrupted one, because `ExpandComplete` needs the projection. `--force` is
refused to the careful operator while version schemas are in use, as its help
says; the code accepts it (contract.go:127). `WindowIsSuffix` is about rows that
deployments write: stamps and inferred captures, which RevertTargets guards
against (revert.go:81), are in `MigrationHistory` only.

### Backfill

Explored and excused by name:

- a column whose triggers were not all created, because the error of
  CreateTriggers is dropped (execute.go:906): `Served`, `UpTrigger`; on a table
  without a key the batcher then rewrites its flag for ever: `Endless`;
- a row last written after another column's trigger was created and before its
  own (trigger.go:76): the first trigger clears the flag, and the batches pass
  over the row: `missed`;
- on a table without a key, rows still flagged when a write overtook every row
  of a statement: it affects none, which ends the loop (backfill.go:347):
  `missed`.

Excluded: a migration that is not the last of its train (`Finals`,
`TrainWritesOverwritten`). No property says that a lock timeout is survived: with
an integer key the first attempt allocates LastValue and its retry sends
`id > ''`, which fails (backfill.go:321); `BackfillFails` models it.

### Train

`MCKnown` excuses a pair, in one or both firing orders, from one property. Of
1 293 pairs: `NothingFails` 136, `ValidatedAsIfCompleted` 8, `UndoRestores` 9,
`VersionsServe` 63 (and 53 when the later trigger fires first),
`SealedAsDeclared` 94 (and 21), `InversionRestores` 40. By cause:

- `InlineConstraint`: create_constraint before the last migration is completed
  inline; its DROP COLUMN is blocked by the previous version's views
  (cmd/migrate.go:289);
- `InlineBackfill`: add_column with `up` is completed inline; its trigger is gone
  while the previous version still writes;
- `Stale`: the second operation reads the copy that the first fills, and its
  trigger fires first; the order is that of the scopes' hashes. A trigger name
  says nothing of the order of migrations;
- `UnqueuedSQL`: an onComplete statement meets the live schema, which is dropped
  only when something is queued (execute.go:528); `DroppedBySQL`: it takes away
  what the other's Complete needs;
- `ConstraintOnCopy`: drop_constraint after alter or rename of its column
  (schema.go:338); `TableDropped`: a deferred operation on a table that a later
  migration drops stops the drain;
- `RepeatFails`, `RepeatPasses`: a repeated drop_constraint, drop_multicolumn,
  set_not_null or drop_not_null, a drop_multicolumn after drop_column, a
  rename_constraint after drop_constraint pass Validate;
- `NameTaken`: rename_table `a` and create_table `a` fail at Start; `NameLost`:
  drop_index and create_index of one name lose the index;
- `CopyOfCopy`, `CopyOfDropped`: operations that copy a column the train has
  copied already. A constraint keeps the `_pgroll_dup_` name, a NOT NULL column
  leaves its check behind (rename.go:99), a default is lost after a type change,
  a dropped constraint comes back;
- `SnapshotDiffers`: `docs/guides/lifecycle-verbs.md:77` says that the shape is
  restored exactly. It is not after a train that indexes and then drops a
  column; that renames a column or a table and then drops an index on it, a
  foreign key to it or a table that refers to it; that makes a column NOT NULL
  or changes its type and then drops it, or changes its type and then its
  default. Constraints and indexes on a dropped column are not compared.

`Senseless` has three pairs whose own SQL names what is not there. Crashes of
the drain are explored in the ten operations of `CrashIn`. Repeated after a
crash, the Completes of alter_column (`DrainResumeFails`), create_constraint,
drop_constraint and add_column fail, and drop_multicolumn leaves its column under
the temporary name. Crashes are explored while the live schema exists
(`Deployment` has the others); writes while the drain runs are not explored:
triggers of migrations not drained yet refer to columns it has renamed.

### Sealed revert and planning

Explored and excused by name:

- `"past seal"`: the Complete of an inverse train dies after its seal at intent
  (execute.go:542), or after its drain. The last inverse is active and unsealed,
  the others sealed: the resumed revert rolls back that one alone, prunes the
  others and reports success. Less is undone than previewed, and Completes of
  pruned inverses stay due (`RevertAsPreviewed`, `HistoryTellsEffects`);
- `"pinned"`: an interrupted revert, or one that was run with --expand-only, is
  resumed without that flag and with any `--to` (cmd/revert.go:294): it rolls
  back the inverses, runs them again and contracts, under the applications that
  use the schema. `FleetServed` is excused until they are repinned; with another
  `--to` nothing is promised (`RevertAsPreviewed`);
- `InterruptedRevertFinishes` needs `complete` when a destructive last inverse
  died between state.Complete (execute.go:637) and the second seal (651):
  RevertTargets refuses every repeated revert (revert.go:153). `complete` on an
  interrupted revert whose schema is not projected prunes what was applied of it,
  and the promise is dropped;
- `CheckedDirectoryDeploys` names `BelowBaseline`: a file that depends on one at
  or below the database's baseline passes `check` (check.go:163) and is refused as
  unknown (localset.go:112, depends.go:117).

Assumed of operators: applications are on the restored schema or stopped before
an inversion revert contracts, and off the window's schemas before it is
walked; `migrate --complete` is for databases to which nothing is pinned; a
schema that an interrupted and completed revert left behind is in nobody's
preview. Not explored: `pgroll start <file>`, which checks neither
tombstones nor a pending inverse, and `plan` on an inverse that is not pruned,
which previews reverting the inverse.

## The modules in detail

### MigrationsTable

A table is a function from names to rows. Names are positive numbers, so that
lexicographic order is `>`; `NoName` is SQL's NULL. `created` is `created_at`;
an insert takes a timestamp later than every row's, which is what
`CURRENT_TIMESTAMP` gives when inserts do not overlap within the clock's
resolution. `Keepers` is what prune copies: the rows that stay, rewired by
`LAG(name) OVER (ORDER BY created_at)`. `RebaselineAudit` is the conjunction of
the checks of `ConvertMigrationToBaseline`. One schema is modelled; every
query and index of init.sql is keyed by schema.

### MigrationHistory

`op[p]` is what process `p` has read and not yet acted on; `copy[p]` is its
temporary table. Operations that read before they write take two or more
steps: `StartBegin`/`Start`, `BaselineBegin`/`CreateBaseline`,
`StampBegin`/`Stamp` (one step per inserted row), `PruneBegin`/`PruneCopy`/
`PruneSwap`, `RebaselineBegin`/`ConvertMigrationToBaseline`. An INSERT that a
constraint refuses changes nothing and ends the operation. `Stop` is a process
that dies or fails in between. `Admins` limits which processes use the
surgical operations, to keep runs small.

The transaction of prune runs at READ COMMITTED and locks nothing before its
DELETE, so `PruneCopy` and `PruneSwap` are separate steps. Rebaseline holds its
row FOR UPDATE, which `Locked` represents.

### Deployment

- `migrations` as above; `snapshot[n]` is the column `resulting_schema`, the
  phase of every migration's DDL when it was captured;
- `phys[n]` is the phase of migration `n`'s DDL: `absent`, `expanding` (some
  of Start's statements ran), `expanded`, `filling` (triggers exist), `ready`
  (backfilled), `contracting`, `contracted`, and `damaged` when operations ran
  on a schema they were not made for;
- `marker` holds the migrations with rows flagged `_pgroll_needs_backfill`;
- `schemas` the version schemas that exist, `fleet` the one in use;
- `proc[p]` is the command a process runs: its next step `at`, the migration
  it works on, the rest of the train, the deferred queue it read, the revert
  targets, whether the live schema has to be dropped.

Each statement of roll.Start, Complete, FinishContraction, Rollback and Revert
that changes the database is one step, named after the code. What a command
reads up to its first write is one step with the command's own guard
(`MigrateBegin`, `CompleteBegin`, `FinishBegin`, `RollbackBegin`,
`RevertBegin`); a process that acts on a stale read is covered from the first
write on. `Crash` ends a process before any step in `CrashAt`: it stands for
process death, a lost connection and a statement that fails, which the code
handles alike by returning. `StartFails` is the one failure that is handled
differently (roll back, then return), and `TriggerErrors` the one that is
dropped: CreateTriggers fails and its process goes on. `Contract` is the Complete of a
migration: it takes two steps, skips what has been done, and on a migration
whose Start never finished either fails or damages.

The environment is part of the model: the fleet moves only between commands
and only to a materialized schema; it is at the newest schema when the operator
runs `complete`, and off what is about to be undone before rollback and revert
(pgroll's docs ask for both). `Verbs` is what the operator uses, and `Careful`
an operator who re-runs an interrupted revert or complete before anything
else, completes only what a migrate returned without an error, and uses
`--force` only with version schemas disabled. `Modes` says which values of
`UseVersionSchema()` to try; `versionSchemas` is the one chosen. Runs without
`Careful` allow every command at any time.

Classes of migrations are constants: `Destructive` (`CompleteMustBeDeferred`),
`OnCompleteSQL` (`CompleteRequiresLiveSchemaDrop`), `RawSQL` (whose views are
refreshed after Complete), `Backfilled`, `Irreversible`.

### Backfill

- `rows[k]` has `old[c]` and `new[c]` for every column the migration changes,
  and `flag`, the marker column; a value is the number of the write it stems
  from and the `up` expressions it went through;
- `truth` is what applications last wrote, and `missed` the columns of rows
  that the code is known not to fill;
- `triggers` are created one by one (`CreateTrigger`), as CreateTriggers does;
  operations on the same column share a trigger (`AddTask`);
- `cursor` is LastValue of the keyed batcher, which is allocated by the first
  attempt; `SelectByMarker`/`UpdateByMarker` is the batcher for tables without
  an identity column, whose statement application writes can overlap;
- `LockTimeout` is pkg/db's retry: the statement runs again until `Budget`
  attempts are used, then the error is returned; `BackfillFails` is any other
  error, that of an empty literal for an integer key included.

Applications insert and update through the previous version at any time and
through the new one once Start has returned.

### Operations

A name is a sequence: `<<"c">>` is a user's name, `<<"new", "m1", "c">>` the
temporary one of migration `m1`; the prefix and the scope suffix of the
source's strings are its first elements. A virtual schema maps the names users
know to tables and columns with their physical names and `deleted` flags. The
database has tables (columns, constraints, indexes), triggers and views; a
column's content stands for all its rows, and records the write and the
migrations whose SQL it went through. A statement that PostgreSQL refuses sets
`ok` to FALSE. `Run` executes a sequence of DBActions.

Every operation's Validate, Start, Complete and Rollback returns a `Result`:
error, the schema it leaves, the statements it runs itself (`early`), the
actions it returns (`ddl`), its triggers and the tables to backfill. Left out:
types (a type change is an operation that rewrites its column), comments,
sequences, identity columns and the SQL text of expressions (a check constraint
is the set of columns it mentions).

`DeclaredSchema` does not share the operations' phases: an operation is plain
DDL on a database without views, copies or triggers.

### Train

`plan` is the train; `rows` are its rows in the history, `snaps` the snapshot
stored with the parent of each (`resulting_schema`), `before` the relations
before each was started, `data` what applications wrote last.
`phase` goes from `expand` to `drain`, possibly `interrupted`, to `sealed`;
`refused` is a train that does not pass validation. `Intermediate` and `Final`
are the two kinds of Start with everything they do (validation against the
schema read with deferred Starts replayed, DDL, triggers, backfill, version
schema, inline Complete). `InterruptedStart` rolls back from the operation that
failed, `Revert` undoes from the newest row on. `Contract` begins the drain,
`ApplyComplete`/`ExecuteStatement`/`FinishComplete` carry it out statement by
statement, `Crash` stops it. `OldWrite` is an application writing through the
previous version.

### Planning and SealedRevert

Names are numbers that sort as file names do, and `-n` is the inverse of `n`. A
directory has files, dependencies and target tags; a baseline is a row of the
history, and the files at or below the latest one are cut off (`LocalFiles`).
`SealedRevert` holds the case, the files with their content, the history rows,
the `effects` on the database (oldest first) and the migrations among them
whose Complete is `pending`, version schemas, tombstones, the applications' pin
and the running command `proc`. The commands are `Migrate` (with `--to`, with
and without `--complete`), `MigrateCompletes`, `Complete`, `Rollback`,
`RevertWindow` and `RevertTo` (with and without `--expand-only`), and
`ResumeRevert` or `CompleteInstead` after an interrupted one. Their steps
insert, expand and complete rows, walk the window, run the inverse train, record
tombstones and prune, one write at a time. A contraction is a list of steps
(`Completing`, `Finishing`): drop the older schemas, seal, drain row by row, the
leaf's own Complete, its record, seal again; `Crash` can come between any two.
The environment moves the pin (`Repin`), edits a file (`EditFile`) or deletes
one (`RemoveFile`). `promise` remembers the plan a revert was previewed with and
`excused` what was done that the code does not provide for.

## Bounds

Names: three give a train with an intermediate and a last migration, a
predecessor for the fleet to be on, and a queue of two; `DeployCareful` has a
fourth, for a second deployment after a first train; `DeployTwoProcesses` has
two, one for each process to contend for. Timestamps: one per name in
`Deployment` (an insert takes the least unused one, since only their order
matters); one more in `HistoryOneProcess`, so that a name can be deleted and
inserted again. Processes: two, because every race found is between two
commands; one where the property is about interruption.

`Backfill`: three keys and batches of two, so that there is a full batch, one
with an inserted row and an empty one; two writes, so that a row can be
inserted or written and then written through the other version (three writes,
2.6 million states, and a job of two alterations show nothing else); one retry.

`Train`: pairs, because what an operation can meet is what one earlier
operation left in between; trains of three for chains of renames and for
drop, anything, create. One undo and one crash in each behaviour.

`SealedRevert`: two or three commands, an edit and one crash, chosen per
directory (`case.commands`, `case.edits`): deploy or contract, revert, and
deploy again, with the file edited in between. Resuming an interrupted revert
costs no command. Three commands and an edit for every directory, 678 thousand
states, show nothing else.

Deadlock is checked in every run but `DeployForward` and `DeployTwoProcesses`,
where the verbs of the run can leave a state that none of them advances, and
the runs of `Backfill` and `SealedRevert`, which end when the writes or commands
are used up.

## Fairness

`Deployment`'s `FairSpec` adds weak fairness to each process's next step (a
running command does not pause for ever), strong fairness to the operator
repeating `pgroll complete`, and to the fleet being moved to the newest schema,
which the operator does between expand and contract. Nothing makes a command
succeed: `ContractionFinishes` excuses runs in which processes die, or schemas
are held by other sessions, for ever.

`Backfill` has weak fairness of pgroll's own steps, which run one after the
other in one goroutine. `SealedRevert` has weak fairness of the running
command's steps and of an operator who follows the message of an interrupted
revert: run it again, or `complete` where that is refused.

## Proofs

TLAPS checks the theorems below for every value of the constants: any number
of migrations, timestamps, rows, retries and writes. Their assumptions are the
named ASSUMEs of the modules (names are positive numbers, timestamps natural
numbers, classes are sets of names, a batch is not empty) and, where a theorem
needs more, the hypotheses in its statement. Each excludes something the code
does, described under "Where the code breaks a property":

| Hypothesis | Excludes |
|---|---|
| `OneAtATime` | two pgroll processes at once: no lock is held between the statement that checks and the one that relies on it |
| `CarefulDeployment` | an operator who leaves an interrupted command behind, or completes a migration whose migrate was killed; an error of CreateTriggers in a process that goes on. Processes may die before every step, within CreateTriggers too |
| `RecordsCompletes` | in addition a stop between a migration's own Complete operations and the UPDATE that records them |
| `RecordsAndSeals` | in addition a stop before the second seal |
| `ForwardOnly` | rollback and revert, with any stop |
| `OnCompleteSQL = {}` | the live schema dropped for onComplete SQL |
| `FALSE \notin Finals` | triggers of a migration that is not the last of its train |
| one column, `"none" \notin Identities` | of `OneColumnMissesNothing`: what `missed` is about |

Each hypothesis but one holds in a passing run for the same property, so TLC
has explored behaviours that satisfy it. The exception is `RecordsAndSeals`:
`DeployCareful` without the stop before the second seal satisfies it (82 698
states) and keeps `BoundarySnapshotClean`.

### History (`MigrationsTableProofs`, `MigrationHistoryProofs`)

For any processes: `TypeCorrect`, `HistoryStaysLinear` (created_at is distinct
and every row's parent is the row created just before it), `OneActiveMigration`
(at most one row is not done, and it is neither sealed nor queued),
`LatestMigrationIsUnique`.

These are not inductive alone. `IInv` adds that every temporary copy of prune
is a sound table itself (it becomes the table), and that a stamp's remembered
parent is none of the names it still has to insert (a row that is its own
parent would satisfy the foreign key). The argument for inserts
(`InsertKeepsOrder`) is the interesting one: an insert with a stale parent is
accepted only if that parent has no child, and in a chain a row without a child
is the last one (`LeafIsLast`), so the parent is still the leaf; an insert
without a parent is accepted only into an empty table, because a nonempty chain
has a root (`RootExists`). For prune, `LagExists` and `RewiredInOrder` show
that the window function yields a chain whatever was removed. Least elements
come from well-foundedness of the naturals (`LeastNat`).

With one process at a time: `ActiveStaysLeaf`, `PruneIsExact`,
`RebaseliningKeepsPlan`. `SerialInv` adds to `IInv` that what an operation has
read is still true when it acts on it: no migration is active, the copy is the
table without the pruned rows, the audit of rebaseline holds.

### Deployments

For any processes (`DeploymentProofs`): `TypeCorrect` and `WindowStaysSuffix`.
`IInv` says that the table is a chain whose active row is the newest
(`ActiveLast`) and whose unsealed rows come after the sealed ones (`WindowOK`),
with a latest row (`TableBounded`). The active row has to be in it: MarkSealed
spares only that one, so the window stays a suffix because it is last, and
MarkCompleteDeferred queues only that one.

The refinement is `DeploymentsImplementHistory`: `migrations` maps to itself, a
process at the INSERT of Start to one that has begun a Start of
`MigrationHistory`, any other to an idle one (`OpOf`). Most steps of a command
are `Quiet`: they run one statement on the history or none. The look for an
active migration maps to `StartBegin`, the INSERT to `Start`, and a death
between the two to `Stop`.

With one process at a time (`DeploymentSerialProofs`):
`SealedBeforeContraction`, `DrainMeetsNoView`, `SealedRowsStay`. `SerialInv`
records what a command knows at each of its steps: which migration is active
(`ForwardOK`), that a drain begins after everything queued was sealed
(`DrainOK`), that a revert walks unsealed rows (`UndoOK`), and which version
schemas are left while it contracts (`ViewsOK`).

With a careful operator (`DeploymentCarefulProofs`):
`AwaitingMeansMaterialized` and `DoneMeansMaterialized`. `CarefulInv` adds the
phase of the migration each step works on (`ExpandOK`), that the queue in hand
is still queued (`QueueOK`), that what is taken back has lost its version
schema before its operations (`TakeBackOK`), and that a row is not done, or
materialized, while migrate or complete runs (`Settled`). A crash leaves any of
these steps, a kill before the marker exists among them; the careful operator's
next command finds what it left.

When Completes are recorded (`DeploymentCoverProofs`):
`HistoryAccountsForSchema`. `CoverInv` determines the phase of a migration from
the flags of its row and the step of the command: an unrecorded one is absent,
a row that is done and not queued is contracted, a queued one materialized,
except for what a revert has begun to undo. What a revert found applied
(`applied`) is not destructive, so that the phases it passes through are ones a
second revert accepts.

The snapshots, in the same module: `BoundarySnapshotIsSchema` where nobody takes
anything back and processes stop anywhere, and `UncoveredSnapshotIsSchema` with
rollback and revert where none stops between a contraction and its second seal.
`SnapshotInv` says that while a migration is started its parent's snapshot is
the schema without it and that FinishContraction takes the leaf's before it
clears the last flag; `UncoverInv` says that of every row that a rollback or a
revert can uncover.

The fleet (`DeploymentFleetProofs`): `ApplicationsStayServed`. `FleetInv` adds
which schema the applications use at each step (`PinOK`) and that a sealed queue
has only the newest schema left or still has it (`QueueSealed`).

### Backfill

`BackfillProofs`: `NoRowIsLeftBehind` without hypotheses,
`WritesReachBothVersions`, and `OneColumnMissesNothing`, which says when their
exception is empty. The invariant, `BackfillInv`, says of every row and column
that is not `missed` that the previous version reads what was last written and
that the new column is filled by a trigger that exists, or the marker column
does not exist yet, or the row is flagged and, with a key, ahead of the cursor.
"By a trigger that exists" is what makes it inductive: a row that happens to
hold the right value without one would lose it with the next write.
`BatchIsFirst` shows that ORDER BY key LIMIT n leaves nothing between the batch
and what follows, so the cursor may move to any row of it; it uses the
cardinality of subsets of a finite set, and a least element for an empty batch.

`TasksInOrder`, that adding operations one by one gives a column its operations
in order, is a hypothesis of `WritesReachBothVersions`: it is what SelectSeq
and a sort compute for every input. TLC evaluates it for all migrations of up
to five operations on up to three columns (`MCBackfill`).

### Model-checked only

- `ContractionFinishes`, `BackfillEnds` and `InterruptedRevertFinishes`:
  liveness under fairness is out of the prover's reach.
- Everything about `Train`, `Inversion`, `Planning` and `SealedRevert`: their
  operators are folds and recursions over sequences of operations, and what
  those compute for every input cannot be proved by the installed provers.

## Not modelled

- `materialize`: projects a schema for a row that has none; materializing the
  leaf of an unfinished batch would make FinishContraction's probe succeed.
- initialisation and version checks: one locked, idempotent script.
- preconditions of SQL expressions (references of `up` and `down` SQL): they are
  about the text of expressions, which the model reduces to the columns read.
- pkg/db's back-off times and its transactions: only the retry budget of a
  statement is modelled, in `Backfill`.
- status, latest and history commands, SQL conversion, file parsing and JSON
  schema, benchmarks and generators: translation and printing, without state.
- `baseline: true` refusals and `--expect-one` in `SealedRevert`.

## Plan

1. `materialize` as a command of `Deployment`.
2. `BoundarySnapshotClean` with rollback and revert where complete may stop
   anywhere, once Complete refreshes the row below the deployment.
3. A second process in the runs of `SealedRevert`.
4. Lemmas about `Planning` and `VirtualSchema`, with a prover that has
   induction: a bounded train contains its bound's dependencies, renaming a
   key keeps the other tables.
