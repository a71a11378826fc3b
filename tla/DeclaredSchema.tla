--------------------------- MODULE DeclaredSchema ---------------------------
(***************************************************************************)
(* What the operations of a migration declare: the schema and the data     *)
(* that the same change made at once, by plain statements on a database    *)
(* with no views, no copies and no triggers, would leave.  This is what a  *)
(* deployment promises, and what the phases, the names and the order that  *)
(* pgroll works with must not show in.                                     *)
(***************************************************************************)
EXTENDS Operations

\* The columns go through the migration's SQL.
Rewritten(db, m, table, columns) ==
  [db EXCEPT !.tables[table].columns =
     [c \in DOMAIN @ |-> IF c \in columns THEN [@[c] EXCEPT !.content = Append(@, m)] ELSE @[c]]]

Constrained(db, table, name, kind, columns, ref) ==
  Run(db, IF kind \in {"unique", "pk"}
            THEN <<CreateIndex(table, name, columns, TRUE),
                   IF kind = "pk" THEN AddPrimaryKey(table, name)
                                  ELSE AddConstraintUsingUniqueIndex(table, name, name)>>
            ELSE <<CreateConstraint(table, name, kind, columns, ref, TRUE)>>)

DeclaredAddColumn(m, o, db) ==
  LET content == IF o.up # Null THEN Append(db.tables[o.table].columns[o.up].content, m)
                 ELSE IF o.default # "none" THEN <<m>> ELSE Null
      added == Run(db, <<AddColumn(o.table, o.column,
                           [nullable |-> o.nullable, default |-> o.default # "none", content |-> content])>>)
      new == (IF o.check = Null THEN <<>> ELSE <<<<o.check, "check">>>>)
               \o (IF o.unique THEN <<<<o.column, "unique">>>> ELSE <<>>)
  IN  FoldLeft(LAMBDA d, k : Constrained(d, o.table, k[1], k[2], {o.column}, Null), added, new)

DeclaredAlterColumn(m, o, db) ==
  LET new == o.changes \cap {"check", "fk", "unique"}
      changed == Rewritten(db, m, o.table, {o.column})
      column(c) == [nullable |-> (c.nullable \/ "nullable" \in o.changes) /\ "notnull" \notin o.changes,
                    default |-> (c.default \/ "default" \in o.changes) /\ "nodefault" \notin o.changes,
                    content |-> c.content]
      altered == [changed EXCEPT !.tables[o.table].columns[o.column] = column(@)]
  IN  IF new = {} THEN altered
      ELSE Constrained(altered, o.table, o.name, CHOOSE k \in new : TRUE, {o.column}, o.ref)

DeclaredWithoutConstraint(m, o, db) ==
  Run(Rewritten(db, m, o.table, db.tables[o.table].constraints[o.name].columns),
      <<DropConstraint(o.table, o.name)>>)

Declared(m, o, db) ==
  CASE o.op = "create_table"      -> Run(db, <<CreateTable(o.table, o.value)>>)
    [] o.op = "drop_table"        -> Run(db, <<DropTable(o.table)>>)
    [] o.op = "rename_table"      -> Run(db, <<RenameTable(o.table, o.to)>>)
    [] o.op = "add_column"        -> DeclaredAddColumn(m, o, db)
    [] o.op = "drop_column"       -> Run(db, <<DropColumn(o.table, {o.column})>>)
    [] o.op = "rename_column"     -> Run(db, <<RenameColumn(o.table, o.column, o.to)>>)
    [] o.op = "alter_column"      -> DeclaredAlterColumn(m, o, db)
    [] o.op = "create_constraint" ->
         Constrained(Rewritten(db, m, o.table, o.columns), o.table, o.name, o.kind, o.columns, o.ref)
    [] o.op \in {"drop_constraint", "drop_multicolumn"} -> DeclaredWithoutConstraint(m, o, db)
    [] o.op = "rename_constraint" -> Run(db, <<RenameConstraint(o.table, o.name, o.to)>>)
    [] o.op = "create_index"      -> Run(db, <<CreateIndex(o.table, o.name, o.columns, FALSE)>>)
    [] o.op = "drop_index"        -> Run(db, <<DropIndex(o.name)>>)
    [] o.op = "replica_identity"  -> db
    [] o.op = "sql"               -> Run(db, o.up)

\* The database after the migrations of a plan, from the one they start on; a
\* migration that Validate refuses there declares nothing.
DeclaredAfter(db, migrations) ==
  FoldLeft(LAMBDA d, mig :
             IF ~d.ok \/ ~ValidateMigration(mig.m, mig.ops, ReadSchema(d)) THEN Fail(d)
             ELSE FoldLeft(LAMBDA e, o : Declared(mig.m, o, e), d, mig.ops),
           db, migrations)
=============================================================================
