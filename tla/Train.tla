-------------------------------- MODULE Train --------------------------------
(***************************************************************************)
(* A deployment of several migrations and what it does to the database:    *)
(* `pgroll migrate` starts them one after the other, the Completes of the  *)
(* destructive ones are deferred, the last one gets a version schema, and  *)
(* `pgroll complete` drains the queue (pkg/roll/execute.go).  Until then   *)
(* `pgroll revert` undoes migrations from the newest on (revert.go).       *)
(*                                                                         *)
(* Where module Deployment follows the commands, locks and flags and keeps *)
(* of a migration only its class, this module follows the tables: every    *)
(* operation with its statements, the virtual schema that later migrations *)
(* of the train are validated, started, completed and undone against, the  *)
(* triggers, and the views applications read.                              *)
(***************************************************************************)
EXTENDS Inversion

CONSTANTS
  Base,          \* the tables before the deployment
  Trains,        \* the plans to deploy: sequences of [m, ops]
  FiringOrders,  \* subset of {1, -1}: does the trigger of an earlier migration fire first
  CrashIn,       \* the operations in whose Complete a crash is explored, while the
                 \* live version schema exists (module Deployment explores the rest)
  Known,         \* for each property, the trains and firing orders on which the code
                 \* is known to break it
  MaxUndos,      \* bound on interrupted starts and reverts
  MaxCrashes     \* bound on crashes of the contraction

VARIABLES
  plan,     \* the migrations of the deployment
  order,    \* the order in which the scopes in the triggers' names sort
  db,       \* the database
  rows,     \* the deployment's rows of the history: [m, ops, state]
  snaps,    \* the schema stored with the parent of each row (resulting_schema)
  before,   \* the relations before each row was started
  data,     \* what applications wrote last
  phase,    \* "expand", "drain", "interrupted", "sealed" or "refused"
  reproject,\* the drain that runs may invalidate the live version schema (needsLiveDrop)
  current,  \* the row whose Complete runs, or 0
  prog,     \* the statements of it that are still to run
  undos, crashes

vars == <<plan, order, db, rows, snaps, before, data, phase, reproject, current, prog, undos, crashes>>

Previous == "v0"   \* the version schema of the previous deployment

Deferred(rs) == SelectSeq(rs, LAMBDA r : r.state = "deferred")
HasActive == rows # <<>> /\ Last(rows).state = "active"

\* Relations and triggers without the rows' contents.
Shape(d) ==
  [tables |-> [t \in DOMAIN d.tables |->
     [d.tables[t] EXCEPT !.columns = [c \in DOMAIN @ |-> [nullable |-> @[c].nullable, default |-> @[c].default]]]],
   triggers |-> d.triggers]

----------------------------------------------------------------------------
(* Reading the schema.                                                     *)

\* The tables that migration m renamed out of the way are found under their own
\* names again, where those are free.
UndoSoftDeletes(s, m) ==
  LET soft(t) == IsDeletionName(t.name) /\ t.name[2] = m
      back(acc, k) == IF Unprefixed(acc.tables[k].name) \in DOMAIN acc.tables THEN acc
                      ELSE [acc EXCEPT !.tables = RenameKey(@, k, Unprefixed(acc.tables[k].name))]
  IN  FoldLeft(back, s, SetToSeq({k \in DOMAIN s.tables : soft(s.tables[k])}))

\* Mutant: the deferred Starts are replayed newest first.
ReplayReversed(s, queue) ==
  FoldLeft(LAMBDA acc, r : IF acc.err THEN acc ELSE UpdateVirtualSchema(r.m, r.ops, acc.s),
           Result(s, <<>>), Reverse(queue))

Replay(s, queue) ==
  FoldLeft(LAMBDA acc, r : IF acc.err THEN acc ELSE UpdateVirtualSchema(r.m, r.ops, acc.s),
           Result(s, <<>>), queue)

ReadSchemaWithDeferred(d, rs) ==
  LET queue == Deferred(rs)
  IN  Replay(FoldLeft(LAMBDA s, r : UndoSoftDeletes(s, r.m), ReadSchema(d), queue), queue)

----------------------------------------------------------------------------
(* Version schemas.                                                        *)

\* Mutant: columns on their way out are still shown.
EnsureViewOfAll(t) ==
  LET shown == {c \in DOMAIN t.columns : ~IsInternalName(c)}
  IN  [table |-> t.name, columns |-> [c \in shown |-> t.columns[c].name]]

EnsureView(t) ==
  LET shown == {c \in DOMAIN t.columns : ~t.columns[c].deleted /\ ~IsInternalName(c)}
  IN  [table |-> t.name, columns |-> [c \in shown |-> t.columns[c].name]]

EnsureViews(d, s, version) ==
  LET shown == {n \in DOMAIN s.tables : ~s.tables[n].deleted /\ ~IsDeletionName(s.tables[n].name)}
      made == [n \in shown |-> EnsureView(s.tables[n])]
      kept == IF version \in DOMAIN d.views THEN d.views[version] ELSE <<>>
  IN  IF \E n \in shown : \/ ~TableIn(d, made[n].table)
                          \/ ~(Range(made[n].columns) \subseteq DOMAIN d.tables[made[n].table].columns)
      THEN Fail(d)
      ELSE [d EXCEPT !.views = Put(@, version, [n \in shown \cup DOMAIN kept |->
                                                  IF n \in shown THEN made[n] ELSE kept[n]])]

----------------------------------------------------------------------------
(* Triggers and data.  Applications write through the previous version     *)
(* schema, and so does the backfill as far as the triggers can tell: every *)
(* trigger of the table fires, the `up` ones copy.                         *)

\* Triggers of a migration with the same name are one trigger.
AddTasks(triggers) ==
  LET same(t) == SelectSeq(triggers, LAMBDA u : u.name = t.name)
      merged(t) == [t EXCEPT !.trigger.ups = FlattenSeq([i \in DOMAIN same(t) |-> same(t)[i].trigger.ups])]
      first == SelectSeq([i \in DOMAIN triggers |-> i],
                         LAMBDA i : \A j \in 1..(i - 1) : triggers[j].name # triggers[i].name)
  IN  [i \in DOMAIN first |-> merged(triggers[first[i]])]

\* One by one until the first that fails; the error is not looked at.
CreateTriggers(d, triggers) ==
  FoldLeft(LAMBDA acc, t :
             LET made == CreateTriggerAction(acc.d, [name |-> t.name, trigger |-> t.trigger,
                                                     marker |-> NeedsBackfillColumnName(t.m)])
             IN  IF acc.stop \/ ~made.ok THEN [acc EXCEPT !.stop = TRUE] ELSE [acc EXCEPT !.d = made],
           [d |-> d, stop |-> FALSE], AddTasks(triggers)).d

Position(m) == CHOOSE i \in DOMAIN plan : plan[i].m = m

Firing(d, table) ==
  SetToSortSeq({f \in DOMAIN d.triggers : d.triggers[f].table = table},
               LAMBDA f, g : order * Position(f[2]) < order * Position(g[2]))

FireTriggers(d, table) ==
  FoldLeft(LAMBDA acc, f :
             LET g == d.triggers[f]
                 columns == acc.tables[table].columns
             IN  IF ~acc.ok THEN acc
                 ELSE IF ~(g.needs \cup {g.target} \subseteq DOMAIN columns) THEN Fail(acc)
                 ELSE IF g.dir = "down" THEN acc
                 ELSE [acc EXCEPT !.tables[table].columns[g.target].content = columns[g.source].content \o g.ups],
           d, Firing(d, table))

Backfill(d, tables) ==
  FoldLeft(LAMBDA acc, t : IF acc.ok /\ TableIn(acc, t) THEN FireTriggers(acc, t) ELSE acc, d, SetToSeq(tables))

\* An application writes every column it sees in the previous version schema.
OldWrite ==
  /\ phase = "expand" /\ data = "w0" /\ Previous \in DOMAIN db.views
  /\ LET views == Range(db.views[Previous])
         written(acc, v) == [acc EXCEPT !.tables[v.table].columns =
                               [c \in DOMAIN @ |-> IF c \in Range(v.columns)
                                                     THEN [@[c] EXCEPT !.content = <<"w1">>] ELSE @[c]]]
     IN  db' = Backfill(FoldLeft(written, db, SetToSeq(views)), {v.table : v \in views})
  /\ data' = "w1"
  /\ UNCHANGED <<plan, order, rows, snaps, before, phase, reproject, current, prog, undos, crashes>>

----------------------------------------------------------------------------
(* Undoing.                                                                *)

\* The operations' Rollbacks, newest first, each through its own coordinator.
Undone(acc, r) ==
  IF ~acc.d.ok THEN acc ELSE [s |-> r.s, d |-> IF r.err THEN Fail(acc.d) ELSE Run(acc.d, Program(r.ddl))]

RollbackOperations(d, m, ops, s, completed) ==
  FoldRight(LAMBDA o, acc :
              Undone(acc, IF completed THEN RollbackCompleted(m, o, acc.s) ELSE Rollback(m, o, acc.s)),
            ops, [s |-> s, d |-> d]).d

ApplyDeferredRenames(s, queue) ==
  FoldLeft(LAMBDA acc, r :
             LET renames == SelectSeq(r.ops, LAMBDA o : o.op \in {"rename_table", "rename_column"})
             IN  IF acc.err THEN acc ELSE UpdateVirtualSchema(r.m, renames, acc.s),
           Result(s, <<>>), queue)

\* The schema that the row's Start ran against is built from the snapshot of its
\* parent; rs are the rows before it.
SchemaAtStart(m, ops, snap, rs) ==
  LET replayed(parent) == IF parent.err THEN parent ELSE UpdateVirtualSchema(m, ops, parent.s)
  IN  replayed(ApplyDeferredRenames(snap, Deferred(rs)))

\* The version schema goes first; read is the schema to undo against.
UndoMigration(d, m, ops, read, completed) ==
  IF read.err THEN Fail(d) ELSE RollbackOperations(d, m, ops, read.s, completed)

RollbackExpandPhase(d, m, ops, snap, rs) ==
  UndoMigration(DropVersionSchema(d, {m}), m, ops, SchemaAtStart(m, ops, snap, rs), FALSE)

RollbackCompletedOperations(d, m, ops, rs) ==
  LET dropped == DropVersionSchema(d, {m})
  IN  UndoMigration(dropped, m, ops, ReadSchemaWithDeferred(dropped, rs), TRUE)

\* d and rs after the newest row is undone.
RevertMigration(d, rs, sn) ==
  LET r == Last(rs)
  IN  IF r.state = "applied" THEN RollbackCompletedOperations(d, r.m, r.ops, Front(rs))
      ELSE RollbackExpandPhase(d, r.m, r.ops, sn[Len(rs)], Front(rs))

EnsureLeafVersionSchema(d, rs) ==
  LET project(read) == IF read.err THEN Fail(d) ELSE EnsureViews(d, read.s, Last(rs).m)
  IN  IF ~d.ok \/ rs = <<>> \/ Last(rs).m \in DOMAIN d.views THEN d
      ELSE project(ReadSchemaWithDeferred(d, rs))

\* The n newest migrations are undone.
Revert(n) ==
  /\ phase = "expand" /\ undos < MaxUndos /\ n \in 1..Len(rows)
  /\ LET gone == [i \in 1..n |-> SubSeq(rows, 1, Len(rows) - i + 1)]
         undone == FoldLeft(LAMBDA d, rs : IF d.ok THEN RevertMigration(d, rs, snaps) ELSE d, db, gone)
         left == SubSeq(rows, 1, Len(rows) - n)
     IN  /\ db' = EnsureLeafVersionSchema(undone, left)
         /\ rows' = left
         /\ snaps' = SubSeq(snaps, 1, Len(left) + 1)
         /\ before' = SubSeq(before, 1, Len(left))
  /\ undos' = undos + 1
  /\ UNCHANGED <<plan, order, data, phase, reproject, current, prog, crashes>>

----------------------------------------------------------------------------
(* Starting.                                                               *)

Pending == phase = "expand" /\ ~HasActive /\ Len(rows) < Len(plan)
NextMigration == plan[Len(rows) + 1]

Accepted(mig, read) == ~read.err /\ ValidateMigration(mig.m, mig.ops, read.s)
Accepts(mig) == Accepted(mig, ReadSchemaWithDeferred(db, rows))

\* The statements, triggers and backfills of a migration that is started, and
\* the schema its operations leave in memory.
Started(mig) == StartMigration(mig.m, mig.ops, ReadSchemaWithDeferred(db, rows).s)

StartDDLOperations(d, started) == IF started.err THEN Fail(d) ELSE Run(d, started.ddl)

PerformBackfills(d, started) ==
  IF ~d.ok THEN d ELSE Backfill(CreateTriggers(d, started.triggers), started.fill)

\* Raw SQL changes what the schema read before it says.
NewSchema(d, mig, started) ==
  IF \E i \in DOMAIN mig.ops : IsIsolated(mig.ops[i]) THEN ReadSchemaWithDeferred(d, rows).s ELSE started.s

CreateVersion(d, mig, started) ==
  IF ~d.ok THEN d ELSE EnsureViews(d, NewSchema(d, mig, started), mig.m)

\* The Complete of an intermediate migration runs at once, while the previous
\* version schema is in use, unless it has to be deferred.
CompleteInline(d, mig) ==
  LET completed(read) == IF read.err THEN read ELSE CompleteMigration(mig.m, mig.ops, read.s)
  IN  IF CompleteMustBeDeferred(mig.ops) \/ ~d.ok THEN d
      ELSE StartDDLOperations(d, completed(ReadSchemaWithDeferred(d, rows)))

Refused ==
  /\ Pending /\ ~Accepts(NextMigration)
  /\ phase' = "refused"
  /\ UNCHANGED <<plan, order, db, rows, snaps, before, data, reproject, current, prog, undos, crashes>>

\* An intermediate migration gets no version schema.
Intermediate ==
  /\ Pending /\ Len(rows) + 1 < Len(plan) /\ Accepts(NextMigration)
  /\ \E mig \in {NextMigration} : \E started \in {Started(mig)} :
       /\ db' = CompleteInline(PerformBackfills(StartDDLOperations(db, started), started), mig)
       /\ rows' = Append(rows, [m |-> mig.m, ops |-> mig.ops,
                                state |-> IF CompleteMustBeDeferred(mig.ops) THEN "deferred" ELSE "applied"])
  /\ snaps' = Append(snaps, ReadSchema(db'))
  /\ before' = Append(before, Shape(db))
  /\ UNCHANGED <<plan, order, data, phase, reproject, current, prog, undos, crashes>>

\* The last migration of the plan gets a version schema and stays active.
Final ==
  /\ Pending /\ Len(rows) + 1 = Len(plan) /\ Accepts(NextMigration)
  /\ \E mig \in {NextMigration} : \E started \in {Started(mig)} :
       /\ db' = PerformBackfills(CreateVersion(StartDDLOperations(db, started), mig, started), started)
       /\ rows' = Append(rows, [m |-> mig.m, ops |-> mig.ops, state |-> "active"])
  /\ before' = Append(before, Shape(db))
  /\ UNCHANGED <<plan, order, snaps, data, phase, reproject, current, prog, undos, crashes>>

\* A Start that stops after k statements, and the rollback that cleans up after
\* it: its own, or the operator's if the process died.  With all statements run,
\* it is the backfill that failed.
InterruptedStart ==
  /\ Pending /\ undos < MaxUndos /\ Accepts(NextMigration)
  /\ \E mig \in {NextMigration} : \E started \in {Started(mig)} : \E k \in 0..Len(started.ddl) :
     \E stopped \in {Run(db, SubSeq(started.ddl, 1, k))} :
       /\ ~started.err /\ stopped.ok
       /\ db' = RollbackExpandPhase(
                  IF k < Len(started.ddl) THEN stopped ELSE CreateTriggers(stopped, started.triggers),
                  mig.m, mig.ops, snaps[Len(rows) + 1], rows)
  /\ undos' = undos + 1
  /\ UNCHANGED <<plan, order, rows, snaps, before, data, phase, reproject, current, prog, crashes>>

----------------------------------------------------------------------------
(* Contraction: Complete of the active migration.                          *)

\* Deferred migrations in the order of the history, then the active one.
Unfinished == {i \in DOMAIN rows : rows[i].state \in {"deferred", "active"}}

NeedsLiveDrop == \E i \in Unfinished : CompleteRequiresLiveSchemaDrop(rows[i].ops)

\* Every other version schema goes, and the live one too when SQL of the queue
\* may be in its way.  After an interruption this starts from what is unfinished.
Contract ==
  /\ phase \in {"expand", "interrupted"} /\ HasActive
  /\ LET live == IF NeedsLiveDrop /\ Deferred(rows) # <<>> THEN {} ELSE {Last(rows).m}
     IN  db' = DropVersionSchema(db, DOMAIN db.views \ live)
  /\ phase' = "drain"
  /\ reproject' = NeedsLiveDrop
  /\ UNCHANGED <<plan, order, rows, snaps, before, data, current, prog, undos, crashes>>

NextRow == CHOOSE i \in Unfinished : \A j \in Unfinished : i <= j

ApplyComplete ==
  /\ phase = "drain" /\ current = 0
  /\ current' = NextRow
  /\ \E completed \in {CompleteMigration(rows[NextRow].m, rows[NextRow].ops, ReadSchema(db))} :
       /\ prog' = IF completed.err THEN <<>> ELSE completed.ddl
       /\ db' = IF completed.err THEN Fail(db) ELSE db
  /\ UNCHANGED <<plan, order, rows, snaps, before, data, phase, reproject, undos, crashes>>

ExecuteStatement ==
  /\ prog # <<>> /\ db.ok
  /\ db' = Execute(db, Head(prog))
  /\ prog' = Tail(prog)
  /\ UNCHANGED <<plan, order, rows, snaps, before, data, phase, reproject, current, undos, crashes>>

\* The flag is cleared; after the active one, the views are made again if SQL of
\* the deployment may have changed what they read.
FinishComplete ==
  /\ current # 0 /\ prog = <<>> /\ db.ok
  /\ LET r == rows[current]
         refresh == r.state = "active" /\ (reproject \/ RequiresSchemaRefresh(r.ops))
     IN  /\ db' = IF refresh THEN EnsureViews(db, ReadSchema(db), r.m) ELSE db
         /\ phase' = IF r.state = "active" THEN "sealed" ELSE phase
  /\ rows' = [rows EXCEPT ![current].state = "done"]
  /\ current' = 0
  /\ UNCHANGED <<plan, order, snaps, before, data, reproject, prog, undos, crashes>>

Interruptible ==
  /\ current # 0 /\ crashes < MaxCrashes /\ ~reproject
  /\ \A i \in DOMAIN rows[current].ops : rows[current].ops[i].op \in CrashIn

\* The process dies anywhere in a Complete; the next `pgroll complete` builds its
\* actions again.
Crash ==
  /\ Interruptible
  /\ phase' = "interrupted" /\ current' = 0 /\ prog' = <<>> /\ crashes' = crashes + 1
  /\ UNCHANGED <<plan, order, db, rows, snaps, before, data, reproject, undos>>

\* Once the database has refused a statement nothing more is explored.
Settled ==
  /\ phase \in {"sealed", "refused"} \/ ~db.ok
  /\ UNCHANGED vars

----------------------------------------------------------------------------

BaseWith(value) ==
  [EmptyDatabase EXCEPT !.tables =
     [t \in DOMAIN Base |-> [Base[t] EXCEPT !.columns = [c \in DOMAIN @ |-> [@[c] EXCEPT !.content = <<value>>]]]]]

Init ==
  /\ plan \in Trains
  /\ order \in FiringOrders
  /\ db = EnsureViews(BaseWith("w0"), ReadSchema(BaseWith("w0")), Previous)
  /\ rows = <<>>
  /\ snaps = <<ReadSchema(BaseWith("w0"))>>
  /\ before = <<>>
  /\ data = "w0"
  /\ phase = "expand"
  /\ reproject = FALSE
  /\ current = 0
  /\ prog = <<>>
  /\ undos = 0
  /\ crashes = 0

Step ==
  \/ OldWrite
  \/ \E n \in 1..Len(rows) : Revert(n)
  \/ Refused \/ Intermediate \/ Final \/ InterruptedStart
  \/ Contract \/ ApplyComplete \/ ExecuteStatement \/ FinishComplete \/ Crash

Next == (db.ok /\ Step) \/ Settled

Spec == Init /\ [][Next]_vars

----------------------------------------------------------------------------
(* Properties.                                                             *)

\* What the first k migrations of the plan declare.  SQL for the contraction
\* declares nothing before it has run.
DeclaredVersion(k) ==
  LET Ran(i) == i \in DOMAIN rows /\ rows[i].state = "done"
      declares(i) == [plan[i] EXCEPT !.ops =
                        SelectSeq(@, LAMBDA o : Ran(i) \/ o.op # "sql" \/ ~o.onComplete)]
  IN  DeclaredAfter(BaseWith(data), [i \in 1..k |-> declares(i)])

\* Trains on which the code breaks a property are explored like the others and
\* excused from that property alone; MCTrain groups them by their cause.
Excused(property) == <<plan, order>> \in Known[property]

\* No statement of a migration that was accepted, and no write of an
\* application that its triggers see, is refused by the database: not when the
\* train is started, undone or drained, nor when a drain that died in one of
\* the operations of CrashIn is repeated.
NothingFails == db.ok \/ Excused("NothingFails")

\* A migration of a train is accepted exactly when it would be accepted on the
\* schema that the migrations before it declare: replaying deferred Starts hides
\* from Validate that they are not completed (readSchemaWithDeferred).
ValidatedAsIfCompleted ==
  db.ok /\ Pending =>
    \/ Accepts(NextMigration)
         <=> ValidateMigration(NextMigration.m, NextMigration.ops, ReadSchema(DeclaredVersion(Len(rows))))
    \/ Excused("ValidatedAsIfCompleted")

\* A sealed deployment leaves the schema and the data it declares and nothing
\* of its own: no copy, marker, trigger or version schema of an older version.
SealedAsDeclared ==
  db.ok /\ phase = "sealed" =>
    \/ /\ db.tables = DeclaredVersion(Len(plan)).tables
       /\ db.triggers = <<>>
       /\ DOMAIN db.views = {Last(plan).m}
    \/ Excused("SealedAsDeclared")

\* What applications read through version schema v is what version v declares.
Serves(v) ==
  LET d == DeclaredVersion(IF v = Previous THEN 0 ELSE Position(v))
  IN  /\ DOMAIN db.views[v] = DOMAIN d.tables
      /\ \A n \in DOMAIN d.tables :
           LET view == db.views[v][n]
           IN  /\ DOMAIN view.columns = DOMAIN d.tables[n].columns
               /\ \A c \in DOMAIN view.columns :
                    db.tables[view.table].columns[view.columns[c]].content = d.tables[n].columns[c].content

\* As long as a version schema exists, what applications read through it is
\* what its version declares, whatever is deferred, drained or undone, and
\* includes their last write, in whichever order the triggers of two migrations
\* fire.
VersionsServe == db.ok => (\A v \in DOMAIN db.views : Serves(v)) \/ Excused("VersionsServe")

\* Undoing migrations, one that was interrupted in its Start or the newest n of
\* the train, leaves the relations as they were before them (rollbackExpandPhase,
\* rollbackCompletedOperations).
UndoRestores ==
  [][db.ok' => \/ /\ Len(rows') < Len(rows) => Shape(db') = before[Len(rows') + 1]
                  /\ undos' > undos /\ rows' = rows => Shape(db') = Shape(db)
               \/ Excused("UndoRestores")]_vars

\* The tables after the inverse of the deployment are those of the boundary.
\* What was on a column that the deployment dropped is not compared.
InverseIsExact ==
  LET ops == FlattenSeq([i \in DOMAIN plan |-> plan[i].ops])
      dropped == {ops[i].column : i \in {j \in DOMAIN ops : ops[j].op = "drop_column"}}
      kept(shape) == [t \in DOMAIN shape.tables |->
                        [shape.tables[t] EXCEPT !.constraints = NotInvolving(@, dropped),
                                                !.indexes = NotInvolving(@, dropped)]]
      restored(inverse) ==
        LET back == DeclaredAfter(DropVersionSchema(db, DOMAIN db.views), inverse.migs)
        IN  inverse.err \/ (back.ok /\ kept(Shape(back)) = kept(Shape(BaseWith(data))))
  IN  restored(InvertSegment(plan, ReadSchema(BaseWith(data))))

\* A sealed revert restores the schema: the inverse of the deployment, unless it
\* is refused, is accepted migration by migration and leaves the tables of the
\* boundary (RevertSealed; InvertSegment).
InversionRestores ==
  db.ok /\ phase = "sealed" => InverseIsExact \/ Excused("InversionRestores")
=============================================================================
