----------------------------- MODULE Operations -----------------------------
(***************************************************************************)
(* The operations by name (pkg/migrations/migrations.go), and what a       *)
(* migration, a sequence of them, does.                                    *)
(***************************************************************************)
EXTENDS ConstraintOperations

Validate(m, o, s) ==
  CASE o.op = "create_table"      -> CreateTableValidate(m, o, s)
    [] o.op = "drop_table"        -> DropTableValidate(m, o, s)
    [] o.op = "rename_table"      -> RenameTableValidate(m, o, s)
    [] o.op = "add_column"        -> AddColumnValidate(m, o, s)
    [] o.op = "drop_column"       -> DropColumnValidate(m, o, s)
    [] o.op = "rename_column"     -> RenameColumnValidate(m, o, s)
    [] o.op = "alter_column"      -> AlterColumnValidate(m, o, s)
    [] o.op = "create_constraint" -> CreateConstraintValidate(m, o, s)
    [] o.op = "drop_constraint"   -> DropConstraintValidate(m, o, s)
    [] o.op = "drop_multicolumn"  -> DropMultiColumnValidate(m, o, s)
    [] o.op = "rename_constraint" -> RenameConstraintValidate(m, o, s)
    [] o.op = "create_index"      -> CreateIndexValidate(m, o, s)
    [] o.op = "drop_index"        -> DropIndexValidate(m, o, s)
    [] o.op = "replica_identity"  -> IF MissingTable(s, o) THEN Error(s) ELSE Result(s, <<>>)
    [] o.op = "sql"               -> RawSQLValidate(m, o, s)

Start(m, o, s) ==
  CASE o.op = "create_table"      -> CreateTableStart(m, o, s)
    [] o.op = "drop_table"        -> DropTableStart(m, o, s)
    [] o.op = "rename_table"      -> RenameTableStart(m, o, s)
    [] o.op = "add_column"        -> AddColumnStart(m, o, s)
    [] o.op = "drop_column"       -> DropColumnStart(m, o, s)
    [] o.op = "rename_column"     -> RenameColumnStart(m, o, s)
    [] o.op = "alter_column"      -> AlterColumnStart(m, o, s)
    [] o.op = "create_constraint" -> CreateConstraintStart(m, o, s)
    [] o.op = "drop_constraint"   -> DropConstraintStart(m, o, s)
    [] o.op = "drop_multicolumn"  -> DropMultiColumnStart(m, o, s)
    [] o.op = "rename_constraint" -> Result(s, <<>>)
    [] o.op = "create_index"      -> CreateIndexStart(m, o, s)
    [] o.op = "drop_index"        -> DropIndexStart(m, o, s)
    [] o.op = "replica_identity"  -> SetReplicaIdentityStart(m, o, s)
    [] o.op = "sql"               -> RawSQLStart(m, o, s)

Complete(m, o, s) ==
  CASE o.op = "drop_table"        -> DropTableComplete(m, o, s)
    [] o.op = "rename_table"      -> RenameTableComplete(m, o, s)
    [] o.op = "add_column"        -> AddColumnComplete(m, o, s)
    [] o.op = "drop_column"       -> DropColumnComplete(m, o, s)
    [] o.op = "rename_column"     -> RenameColumnComplete(m, o, s)
    [] o.op = "alter_column"      -> AlterColumnComplete(m, o, s)
    [] o.op = "create_constraint" -> CreateConstraintComplete(m, o, s)
    [] o.op = "drop_constraint"   -> DropConstraintComplete(m, o, s)
    [] o.op = "drop_multicolumn"  -> DropMultiColumnComplete(m, o, s)
    [] o.op = "rename_constraint" -> RenameConstraintComplete(m, o, s)
    [] o.op = "drop_index"        -> DropIndexComplete(m, o, s)
    [] o.op = "sql"               -> RawSQLComplete(m, o, s)
    [] OTHER                      -> Result(s, <<>>)

Rollback(m, o, s) ==
  CASE o.op = "create_table"      -> CreateTableRollback(m, o, s)
    [] o.op = "drop_table"        -> DropTableRollback(m, o, s)
    [] o.op = "rename_table"      -> RenameTableRollback(m, o, s)
    [] o.op = "add_column"        -> AddColumnRollback(m, o, s)
    [] o.op = "drop_column"       -> DropColumnRollback(m, o, s)
    [] o.op = "rename_column"     -> RenameColumnRollback(m, o, s)
    [] o.op = "alter_column"      -> AlterColumnRollback(m, o, s)
    [] o.op = "create_constraint" -> CreateConstraintRollback(m, o, s)
    [] o.op = "drop_constraint"   -> DropConstraintRollback(m, o, s)
    [] o.op = "drop_multicolumn"  -> DropMultiColumnRollback(m, o, s)
    [] o.op = "create_index"      -> CreateIndexRollback(m, o, s)
    [] o.op = "sql"               -> RawSQLRollback(m, o, s)
    [] OTHER                      -> Result(s, <<>>)

\* What undoes an operation whose Complete has run: its own implementation, or
\* Rollback.
RollbackCompleted(m, o, s) ==
  CASE o.op = "create_constraint" -> CreateConstraintRollbackCompleted(m, o, s)
    [] o.op = "rename_constraint" -> RenameConstraintRollbackCompleted(m, o, s)
    [] OTHER                      -> Rollback(m, o, s)

----------------------------------------------------------------------------
(* Migrations.                                                             *)

IsIsolated(o) == o.op = "sql" /\ ~o.onComplete

\* The operations of a migration run one by one, the schema handed on, up to an
\* error: what an operation returned, r, after what the ones before it did.
Then(acc, r) ==
  IF acc.err THEN acc
  ELSE [r EXCEPT !.ddl = acc.ddl \o @, !.triggers = acc.triggers \o @, !.fill = acc.fill \cup @]

ValidateMigration(m, ops, s) ==
  /\ Len(ops) > 1 => \A i \in DOMAIN ops : ~IsIsolated(ops[i])
  /\ ~FoldLeft(LAMBDA acc, o : Then(acc, Validate(m, o, acc.s)), Result(s, <<>>), ops).err

\* Each operation runs statements of its own, then its actions; replayed against
\* no database, this only updates the schema.
Statements(r) == [r EXCEPT !.early = <<>>, !.ddl = r.early \o Program(@)]

StartMigration(m, ops, s) ==
  FoldLeft(LAMBDA acc, o : Then(acc, Statements(Start(m, o, acc.s))), Result(s, <<>>), ops)

UpdateVirtualSchema(m, ops, s) == StartMigration(m, ops, s)

CompleteMustBeDeferred(ops) ==
  \E i \in DOMAIN ops :
     \/ ops[i].op \in {"drop_column", "drop_table", "drop_constraint", "drop_index", "drop_multicolumn",
                       "rename_column", "rename_table", "alter_column"}
     \/ ops[i].op = "sql" /\ ops[i].onComplete

CompleteRequiresLiveSchemaDrop(ops) == \E i \in DOMAIN ops : ops[i].op = "sql" /\ ops[i].onComplete

\* An operation of the migration asks for the views to be made again.
RequiresSchemaRefresh(ops) == \E i \in DOMAIN ops : ops[i].op = "sql"

\* The actions of all the operations go through one coordinator.
Coordinated(r) == [r EXCEPT !.ddl = Program(@)]

CompleteMigration(m, ops, s) ==
  Coordinated(FoldLeft(LAMBDA acc, o : Then(acc, Complete(m, o, acc.s)), Result(s, <<>>), ops))
=============================================================================
