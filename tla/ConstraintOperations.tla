------------------------ MODULE ConstraintOperations ------------------------
(***************************************************************************)
(* The operations that change a column, a constraint or an index: those    *)
(* built on the duplicator (alter_column and its sub-operations,           *)
(* create_constraint, drop_constraint, drop_multicolumn_constraint),       *)
(* rename_constraint, the operations on indexes, set_replica_identity and  *)
(* sql.                                                                    *)
(***************************************************************************)
EXTENDS TableOperations

----------------------------------------------------------------------------
(* alter_column.  `changes` is the set of its sub-operations; the names    *)
(* and the referenced table they need are fields of o.  `up` and `down`    *)
(* say whether the migration gives SQL of its own.  A sub-operation sees   *)
(* the table with the copy of the column installed.                        *)

SubOperations(o) ==
  SelectSeq(<<"type", "check", "fk", "notnull", "nullable", "unique", "default", "nodefault">>,
            LAMBDA c : c \in o.changes)

ChangeTypeValidate(o) == o.up /\ o.down
SetCheckValidate(o, t) == ~ConstraintExists(t, o.name) /\ o.up /\ o.down
SetForeignKeyValidate(o, t, s) == HasTable(s, o.ref) /\ ~ConstraintExists(t, o.name) /\ o.up /\ o.down
SetNotNullValidate(o, t) == t.columns[o.column].nullable /\ o.up
DropNotNullValidate(o, t) == ~t.columns[o.column].nullable /\ o.down
SetUniqueValidate(o, t) == ~ConstraintExists(t, o.name)

SubValidate(o, t, s, c) ==
  CASE c = "type"     -> ChangeTypeValidate(o)
    [] c = "check"    -> SetCheckValidate(o, t)
    [] c = "fk"       -> SetForeignKeyValidate(o, t, s)
    [] c = "notnull"  -> SetNotNullValidate(o, t)
    [] c = "nullable" -> DropNotNullValidate(o, t)
    [] c = "unique"   -> SetUniqueValidate(o, t)
    [] OTHER          -> TRUE

AlterColumnValidate(m, o, s) ==
  IF \/ MissingColumn(s, o) \/ o.changes = {}
     \/ \E c \in o.changes : ~SubValidate(o, s.tables[o.table], s, c)
  THEN Error(s) ELSE Result(s, <<>>)

\* SQL of the migration's own, or the column itself where a sub-operation
\* allows it; otherwise nothing, which is no function body.
UpSQLForOperations(o) == o.up \/ o.changes \cap {"nullable", "default", "nodefault"} # {}
DownSQLForOperations(o) == o.down \/ o.changes \cap {"unique", "notnull", "default", "nodefault"} # {}

SetCheckStart(m, o, t) ==
  <<CreateConstraint(t.name, o.name, "check", {TemporaryNameRebase(m, o.column)}, Null, FALSE)>>
SetForeignKeyStart(o, t, s) ==
  <<CreateConstraint(t.name, o.name, "fk", {t.columns[o.column].name}, s.tables[o.ref].name, FALSE)>>
SetNotNullStart(m, o, t) ==
  <<CreateConstraint(t.name, NotNullConstraintName(o.column), "notnull",
                     {TemporaryNameRebase(m, o.column)}, Null, FALSE)>>
SetUniqueStart(o, t) == <<CreateIndex(t.name, o.name, {t.columns[o.column].name}, TRUE)>>
SetDefaultStart(o, t, c) == <<SetDefault(t.name, t.columns[o.column].name, c = "default")>>

SubStart(m, o, t, s, c) ==
  CASE c = "check"   -> SetCheckStart(m, o, t)
    [] c = "fk"      -> SetForeignKeyStart(o, t, s)
    [] c = "notnull" -> SetNotNullStart(m, o, t)
    [] c = "unique"  -> SetUniqueStart(o, t)
    [] c \in {"default", "nodefault"} -> SetDefaultStart(o, t, c)
    [] OTHER         -> <<>>

AlterColumnActions(m, o, t, s) ==
  LET subs == SubOperations(o) IN FlattenSeq([i \in DOMAIN subs |-> SubStart(m, o, t, s, subs[i])])

\* What the sub-operations register in the schema.
AlterColumnRegister(o, t) ==
  LET new == o.changes \cap {"check", "fk", "unique"}
      kept == IF new = {} THEN t
              ELSE [t EXCEPT !.constraints = Put(@, o.name,
                      [kind |-> CHOOSE c \in new : TRUE, columns |-> {o.column}, def |-> {o.column},
                       ref |-> o.ref])]
      changed == o.changes \cap {"default", "nodefault"}
  IN  IF changed = {} THEN kept
      ELSE [kept EXCEPT !.columns[o.column].default = ("default" \in changed)]

AlterColumnStart(m, o, s) ==
  LET t == s.tables[o.table]
      name == t.columns[o.column].name
      temp == TemporaryName(m, o.column)
      nullable == IF "nullable" \in o.changes THEN {name} ELSE {}
      copied == DuplicateInSchema(WithNotNullCopies(m, t, name :> temp, nullable), o.column, temp)
      retyped == IF "type" \in o.changes THEN [copied EXCEPT !.columns[o.column].default = FALSE] ELSE copied
  IN  IF MissingColumn(s, o) \/ ("fk" \in o.changes /\ ~HasTable(s, o.ref)) THEN Error(s)
      ELSE [Result(WithTable(s, o, AlterColumnRegister(o, retyped)), AlterColumnActions(m, o, retyped, s))
            EXCEPT !.early = Duplicate(m, t, t, name :> temp, nullable, {}),
                   !.triggers = [i \in 1..2 |->
                                   [ColumnTriggers(m, o, t, t.name, o.column, temp)[i]
                                    EXCEPT !.trigger.valid = IF i = 1 THEN UpSQLForOperations(o) ELSE DownSQLForOperations(o)]],
                   !.fill = {t.name}]

SetCheckComplete(o, t) == <<ValidateConstraint(t.name, o.name)>>
SetForeignKeyComplete(o, t) == <<ValidateConstraint(t.name, o.name)>>
SetNotNullComplete(m, o, t) ==
  <<ValidateConstraint(t.name, NotNullConstraintName(o.column)), SetNotNull(t.name, TemporaryName(m, o.column)),
    DropConstraint(t.name, NotNullConstraintName(o.column))>>
SetUniqueComplete(o, t) == <<AddConstraintUsingUniqueIndex(t.name, o.name, o.name)>>

SubComplete(m, o, t, c) ==
  CASE c = "check"   -> SetCheckComplete(o, t)
    [] c = "fk"      -> SetForeignKeyComplete(o, t)
    [] c = "notnull" -> SetNotNullComplete(m, o, t)
    [] c = "unique"  -> SetUniqueComplete(o, t)
    [] OTHER         -> <<>>

AlterColumnComplete(m, o, s) ==
  LET t == s.tables[o.table]
      subs == SubOperations(o)
      after == IF "notnull" \notin o.changes THEN t
               ELSE [t EXCEPT !.columns[o.column].nullable = FALSE,
                              !.constraints = Without(@, {NotNullConstraintName(o.column)})]
  IN  IF MissingColumn(s, o) THEN Error(s)
      ELSE Result(WithTable(s, o, after),
             FlattenSeq([i \in DOMAIN subs |-> SubComplete(m, o, t, subs[i])])
             \o <<DropColumn(t.name, {o.column}), ColumnFunctions(m, o, {o.column}), DropMarker(m, t.name)>>
             \o RenameDuplicatedColumn(m, after, o.column, {}))

AlterColumnRollback(m, o, s) ==
  LET t == s.tables[o.table]
  IN  IF MissingColumn(s, o) THEN Error(s)
      ELSE Result(s, <<DropColumn(t.name, {t.columns[o.column].name}),
                       ColumnFunctions(m, o, {o.column}), DropMarker(m, t.name)>>)

----------------------------------------------------------------------------
(* create_constraint, drop_multicolumn_constraint and drop_constraint copy *)
(* the columns the constraint is on.                                       *)

\* The copies of columns, by physical name, and the table and triggers after
\* they are made one by one.
CopiesOf(m, t, columns) ==
  LET byName == [n \in {t.columns[c].name : c \in columns} |->
                   CHOOSE c \in columns : t.columns[c].name = n]
  IN  [n \in DOMAIN byName |-> TemporaryName(m, byName[n])]

CopyAll(m, o, t, columns) ==
  FoldLeft(LAMBDA acc, c :
             [t |-> DuplicateInSchema(acc.t, c, TemporaryName(m, c)),
              triggers |-> acc.triggers \o ColumnTriggers(m, o, acc.t, t.name, c, TemporaryName(m, c))],
           [t |-> WithNotNullCopies(m, t, CopiesOf(m, t, columns), {}), triggers |-> <<>>],
           SetToSeq(columns))

TemporaryNames(m, columns) == {TemporaryName(m, c) : c \in columns}

\* The copies take the columns' places one by one.
RenameAll(m, t, columns) ==
  LET seq == SetToSeq(columns)
  IN  FlattenSeq([i \in DOMAIN seq |-> RenameDuplicatedColumn(m, t, seq[i], {seq[j] : j \in 1..(i - 1)})])

CreateConstraintValidate(m, o, s) ==
  IF \/ MissingTable(s, o) \/ ConstraintExists(s.tables[o.table], o.name)
     \/ \E c \in o.columns : ~HasColumn(s.tables[o.table], c)
     \/ o.kind = "unique" /\ o.columns = {}
     \/ o.kind = "fk" /\ ~HasTable(s, o.ref)
  THEN Error(s) ELSE Result(s, <<>>)

CreateConstraintStart(m, o, s) ==
  LET t == s.tables[o.table]
      made == CopyAll(m, o, t, o.columns)
  IN  IF MissingTable(s, o) \/ \E c \in o.columns : ~HasColumn(t, c) THEN Error(s)
      ELSE [Result(WithTable(s, o, made.t),
                   Append(Duplicate(m, t, made.t, CopiesOf(m, t, o.columns), {}, {}),
                          IF o.kind \in {"unique", "pk"}
                            THEN CreateIndex(t.name, o.name, TemporaryNames(m, o.columns), TRUE)
                            ELSE CreateConstraint(t.name, o.name, o.kind, TemporaryNames(m, o.columns),
                                                  o.ref, FALSE)))
            EXCEPT !.triggers = made.triggers, !.fill = {t.name}]

CreateConstraintComplete(m, o, s) ==
  LET t == s.tables[o.table]
  IN  IF MissingTable(s, o) \/ \E c \in o.columns : ~HasColumn(t, c) THEN Error(s)
      ELSE Result(s,
             <<CASE o.kind = "unique" -> AddConstraintUsingUniqueIndex(t.name, o.name, o.name)
                 [] o.kind = "pk" -> AddPrimaryKey(t.name, o.name)
                 [] OTHER -> ValidateConstraint(t.name, o.name),
               DropColumn(t.name, o.columns)>>
             \o RenameAll(m, t, o.columns)
             \o <<ColumnFunctions(m, o, o.columns), DropMarker(m, t.name)>>)

CreateConstraintRollback(m, o, s) ==
  LET t == s.tables[o.table]
  IN  IF MissingTable(s, o) THEN Error(s)
      ELSE Result(s, <<DropColumn(t.name, TemporaryNames(m, o.columns)),
                       ColumnFunctions(m, o, o.columns), DropMarker(m, t.name)>>)

CreateConstraintRollbackCompleted(m, o, s) ==
  IF MissingTable(s, o) THEN Error(s)
  ELSE Result(s, <<DropConstraint(s.tables[o.table].name, o.name)>>)

\* drop_multicolumn_constraint.
DropMultiColumnValidate(m, o, s) ==
  IF MissingTable(s, o) \/ ~ConstraintExists(s.tables[o.table], o.name) THEN Error(s) ELSE Result(s, <<>>)

DropMultiColumnStart(m, o, s) ==
  LET t == s.tables[o.table]
      columns == GetConstraintColumns(t, o.name)
      made == CopyAll(m, o, t, columns)
  IN  IF MissingTable(s, o) \/ \E c \in columns : ~HasColumn(t, c) THEN Error(s)
      ELSE [Result(WithTable(s, o, made.t), Duplicate(m, t, made.t, CopiesOf(m, t, columns), {}, {o.name}))
            EXCEPT !.triggers = made.triggers, !.fill = {t.name}]

DropMultiColumnComplete(m, o, s) ==
  LET t == s.tables[o.table]
      seq == SetToSeq(GetConstraintColumns(t, o.name))
  IN  IF MissingTable(s, o) THEN Error(s)
      ELSE Result(s, FlattenSeq([i \in DOMAIN seq |->
             <<ColumnFunctions(m, o, {seq[i]}), DropMarker(m, t.name), DropColumn(t.name, {seq[i]})>>
             \o RenameDuplicatedColumn(m, t, seq[i], {seq[j] : j \in 1..(i - 1)})]))

DropMultiColumnRollback(m, o, s) ==
  LET t == s.tables[o.table]
      columns == GetConstraintColumns(t, o.name)
  IN  IF MissingTable(s, o) THEN Error(s)
      ELSE Result(s, Sequence(columns, LAMBDA c :
             <<DropColumn(t.name, {TemporaryName(m, c)}), ColumnFunctions(m, o, {c}), DropMarker(m, t.name)>>))

\* drop_constraint names its triggers, and the copy in the schema, after the
\* physical column, and looks the table of the triggers up by its logical name.
SoleColumn(t, o) == CHOOSE c \in GetConstraintColumns(t, o.name) : TRUE

DropConstraintValidate(m, o, s) ==
  IF \/ MissingTable(s, o) \/ ~ConstraintExists(s.tables[o.table], o.name)
     \/ Cardinality(GetConstraintColumns(s.tables[o.table], o.name)) > 1
  THEN Error(s) ELSE Result(s, <<>>)

DropConstraintStart(m, o, s) ==
  LET t == s.tables[o.table]
      name == t.columns[SoleColumn(t, o)].name
      temp == TemporaryName(m, name)
      copies == name :> TemporaryNameRebase(m, name)
      t2 == WithNotNullCopies(m, t, copies, {})
      copied == AddColumnTo(t2, name, [t.columns[SoleColumn(t, o)] EXCEPT !.name = temp])
  IN  IF MissingTable(s, o) THEN Error(s)
      ELSE IF GetConstraintColumns(t, o.name) = {} THEN Result(s, <<>>)
      ELSE IF ~HasColumn(t, SoleColumn(t, o)) THEN Error(s)
      ELSE [Result(WithTable(s, o, copied), Duplicate(m, t, copied, copies, {}, {o.name}))
            EXCEPT !.triggers =
                     <<Trigger(m, TriggerName(m, o.table, name), "up", t2, o.table, temp, name),
                       Trigger(m, TriggerName(m, o.table, temp), "down", copied, o.table, name, temp)>>,
                   !.fill = {t.name}]

DropConstraintComplete(m, o, s) ==
  LET t == s.tables[o.table]
      name == t.columns[SoleColumn(t, o)].name
  IN  \* The code indexes the columns, and dereferences the first, without a check.
      IF MissingTable(s, o) \/ GetConstraintColumns(t, o.name) = {} \/ ~HasColumn(t, SoleColumn(t, o))
      THEN Error(s)
      ELSE Result(s, <<ColumnFunctions(m, o, {name}), DropMarker(m, t.name), DropColumn(t.name, {name})>>
                     \o RenameDuplicatedColumn(m, t, name, {}))

DropConstraintRollback(m, o, s) ==
  LET t == s.tables[o.table]
      column == SoleColumn(t, o)
  IN  IF MissingTable(s, o) \/ GetConstraintColumns(t, o.name) = {} THEN Error(s)
      ELSE Result(s, <<DropColumn(t.name, {TemporaryName(m, column)}), ColumnFunctions(m, o, {column}),
                       DropMarker(m, t.name)>>)

----------------------------------------------------------------------------
(* rename_constraint, create_index, drop_index, set_replica_identity, sql. *)

RenameConstraintValidate(m, o, s) ==
  IF \/ MissingTable(s, o) \/ ~ConstraintExists(s.tables[o.table], o.name)
     \/ ConstraintExists(s.tables[o.table], o.to)
  THEN Error(s) ELSE Result(s, <<>>)

RenameConstraintComplete(m, o, s) ==
  IF MissingTable(s, o) THEN Error(s)
  ELSE Result(s, <<RenameConstraint(s.tables[o.table].name, o.name, o.to)>>)

RenameConstraintRollbackCompleted(m, o, s) ==
  IF MissingTable(s, o) THEN Error(s)
  ELSE Result(s, <<RenameConstraint(s.tables[o.table].name, o.to, o.name)>>)

IndexTables(s, name) == {t \in DOMAIN s.tables : name \in DOMAIN s.tables[t].indexes}

CreateIndexValidate(m, o, s) ==
  IF \/ MissingTable(s, o) \/ IndexTables(s, o.name) # {}
     \/ \E c \in o.columns : ~HasColumn(s.tables[o.table], c)
  THEN Error(s) ELSE Result(s, <<>>)

CreateIndexStart(m, o, s) ==
  LET t == s.tables[o.table]
  IN  IF MissingTable(s, o) \/ \E c \in o.columns : ~HasColumn(t, c) THEN Error(s)
      ELSE Result(s, <<CreateIndex(t.name, o.name, {t.columns[c].name : c \in o.columns}, FALSE)>>)

CreateIndexRollback(m, o, s) == Result(s, <<DropIndex(o.name)>>)

DropIndexValidate(m, o, s) == IF IndexTables(s, o.name) = {} THEN Error(s) ELSE Result(s, <<>>)

DropIndexStart(m, o, s) ==
  IF IndexTables(s, o.name) = {} THEN Result(s, <<>>)
  ELSE LET t == CHOOSE t \in IndexTables(s, o.name) : TRUE
       IN  Result([s EXCEPT !.tables[t].indexes = Without(@, {o.name})], <<>>)

DropIndexComplete(m, o, s) == Result(s, <<DropIndex(o.name)>>)

SetReplicaIdentityStart(m, o, s) ==
  IF MissingTable(s, o) THEN Error(s) ELSE Result(s, <<SetReplicaIdentity(s.tables[o.table].name)>>)

\* The statements of sql operations are actions of the same kinds.
RawSQLValidate(m, o, s) ==
  IF o.up = <<>> \/ (o.onComplete /\ o.down # <<>>) THEN Error(s) ELSE Result(s, <<>>)
RawSQLStart(m, o, s) == Result(s, IF o.onComplete THEN <<>> ELSE o.up)
RawSQLComplete(m, o, s) == Result(s, IF o.onComplete THEN o.up ELSE <<>>)
RawSQLRollback(m, o, s) == Result(s, o.down)
=============================================================================
