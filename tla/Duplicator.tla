----------------------------- MODULE Duplicator -----------------------------
(***************************************************************************)
(* What the operations have in common: the actions they return             *)
(* (dbactions.go), the duplicator (duplicate.go) and the renaming of what  *)
(* it made (rename.go), and the triggers that keep a column and its copy   *)
(* in step.  Comments, sequences and types are left out: an operation that *)
(* changes a type is one that rewrites the column.                         *)
(***************************************************************************)
EXTENDS PhysicalSchema

----------------------------------------------------------------------------
(* The actions operations return.                                          *)

CreateTable(t, value) == [act |-> "create_table", table |-> t, value |-> value]
DropTable(t) == [act |-> "drop_table", table |-> t]
RenameTable(t, to) == [act |-> "rename_table", table |-> t, to |-> to]
AddColumn(t, c, value) ==
  [act |-> "add_column", table |-> t, column |-> c, value |-> value, ifNotExists |-> FALSE]
DropColumn(t, columns) == [act |-> "drop_column", table |-> t, columns |-> columns]
RenameColumn(t, c, to) == [act |-> "rename_column", table |-> t, column |-> c, to |-> to]
SetNotNull(t, c) == [act |-> "set_not_null", table |-> t, column |-> c]
SetDefault(t, c, default) == [act |-> "set_default", table |-> t, column |-> c, default |-> default]
CreateIndex(t, name, columns, unique) ==
  [act |-> "create_index", table |-> t, name |-> name, ifNotExists |-> TRUE,
   value |-> [columns |-> columns, unique |-> unique]]
DropIndex(name) == [act |-> "drop_index", name |-> name]
RenameIndex(name, to) == [act |-> "rename_index", name |-> name, to |-> to]
CreateConstraint(t, name, kind, columns, ref, valid) ==
  [act |-> "create_constraint", table |-> t, name |-> name,
   value |-> [kind |-> kind, columns |-> columns, ref |-> ref, valid |-> valid]]
ValidateConstraint(t, name) == [act |-> "validate", table |-> t, name |-> name]
DropConstraint(t, name) == [act |-> "drop_constraint", table |-> t, name |-> name]
RenameConstraint(t, name, to) == [act |-> "rename_constraint", table |-> t, name |-> name, to |-> to]
AddConstraintUsingUniqueIndex(t, name, index) ==
  [act |-> "unique_using", table |-> t, name |-> name, index |-> index]
AddPrimaryKey(t, index) == [act |-> "add_pk", table |-> t, index |-> index]
DropFunction(names) == [act |-> "drop_function", names |-> names]
SetReplicaIdentity(t) == [act |-> "replica_identity", table |-> t]

\* One action per member of a set, in some order.
All(S, F(_)) == LET seq == SetToSeq(S) IN [i \in DOMAIN seq |-> F(seq[i])]
Sequence(S, F(_)) == FlattenSeq(All(S, F))

DropMarker(m, t) == DropColumn(t, {NeedsBackfillColumnName(m)})

----------------------------------------------------------------------------
(* The duplicator: copies of columns, with the constraints and indexes     *)
(* they take part in, under temporary names.  `copies` maps the physical   *)
(* name of each column to the name of its copy; nullable is the set of     *)
(* those whose NOT NULL is not copied; excluded holds the constraints that *)
(* are not.                                                                *)

\* Mutant: the case of a column that an earlier migration of the train
\* duplicated is left out.
ColumnIsDuplicatedDirectly(m, t, column, copied) == column \in copied

ColumnIsDuplicated(m, t, column, copied) ==
  \/ column \in copied
  \/ /\ HasColumn(t, column)
     /\ t.columns[column].name # TemporaryNameRebase(m, column)
     /\ t.columns[column].name \in copied

\* What a check says, or a constraint or index is on, once it is copied.
CopiedNames(m, t, names, members, copied) ==
  {IF n \in members /\ ColumnIsDuplicated(m, t, n, copied) THEN TemporaryNameRebase(m, n) ELSE n : n \in names}

ToCopy(m, t, f, copied, excluded) ==
  {k \in DOMAIN f \ excluded : \E c \in f[k].columns : ColumnIsDuplicated(m, t, c, copied)}

NotNullCopy(m, column) == DuplicationName(m, NotNullConstraintName(column))

ColumnByName(t, name) == t.columns[CHOOSE k \in DOMAIN t.columns : t.columns[k].name = name]

DuplicateColumn(m, t, name, as, withoutNotNull) ==
  LET column == ColumnByName(t, name)
  IN  <<[act |-> "add_column", table |-> t.name, column |-> as, ifNotExists |-> TRUE,
         value |-> [nullable |-> TRUE, default |-> FALSE, content |-> Null]]>>
      \o (IF column.nullable \/ withoutNotNull \/ NotNullCopy(m, name) \in DOMAIN t.constraints THEN <<>>
          ELSE <<CreateConstraint(t.name, NotNullCopy(m, name), "notnull", {as}, Null, FALSE)>>)
      \o (IF column.default THEN <<SetDefault(t.name, as, TRUE)>> ELSE <<>>)

DuplicateConstraints(m, t, copied, excluded) ==
  LET ks == t.constraints
      Checks == {k \in ToCopy(m, t, ks, copied, excluded) : IsCheck(ks[k]) /\ ~IsDuplicatedName(k)}
      Uniques == {k \in ToCopy(m, t, ks, copied, excluded) : ks[k].kind = "unique"}
      ForeignKeys == {k \in ToCopy(m, t, ks, copied, excluded) : ks[k].kind = "fk"}
      Indexes == {i \in ToCopy(m, t, t.indexes, copied, excluded) :
                    ~IsDuplicatedName(i)
                      /\ ~(t.indexes[i].unique /\ i \in DOMAIN ks /\ ks[i].kind = "unique")}
      columns(f, k) == CopiedNames(m, t, f[k].columns, f[k].columns, copied)
  IN  All(Checks, LAMBDA k : CreateConstraint(t.name, DuplicationName(m, k), ks[k].kind,
                               CopiedNames(m, t, ks[k].def, ks[k].columns, copied), Null, FALSE))
      \o All(Uniques, LAMBDA k : CreateIndex(t.name, DuplicationName(m, k), columns(ks, k), TRUE))
      \o All(ForeignKeys, LAMBDA k : CreateConstraint(t.name, DuplicationName(m, k), "fk",
                                       columns(ks, k), ks[k].ref, TRUE))
      \o All(Indexes, LAMBDA i : [CreateIndex(t.name, DuplicationName(m, i), columns(t.indexes, i),
                                              t.indexes[i].unique) EXCEPT !.ifNotExists = FALSE])

\* t is the table whose columns are copied, `late` the table when the statements
\* are built.
Duplicate(m, t, late, copies, nullable, excluded) ==
  Sequence(DOMAIN copies, LAMBDA n : DuplicateColumn(m, t, n, copies[n], n \in nullable))
    \o DuplicateConstraints(m, late, DOMAIN copies, excluded)

\* The schema's record of the NOT NULL copies that the statements add.
WithNotNullCopies(m, t, copies, nullable) ==
  LET added == {n \in DOMAIN copies : ~ColumnByName(t, n).nullable /\ n \notin nullable}
  IN  [t EXCEPT !.constraints =
         [k \in DOMAIN @ \cup {NotNullCopy(m, n) : n \in added} |->
            IF k \in DOMAIN @ THEN @[k]
            ELSE LET n == CHOOSE n \in added : NotNullCopy(m, n) = k
                 IN  [kind |-> "notnull", columns |-> {copies[n]}, def |-> {copies[n]}, ref |-> Null]]]

----------------------------------------------------------------------------
(* renameDuplicatedColumnAction, built from the schema as Complete reads   *)
(* it.  `done` are the columns of the same operation renamed before this   *)
(* one, whose constraints and indexes are dealt with.                      *)

RenameDuplicatedColumn(m, t, column, done) ==
  LET from == TemporaryName(m, column)
      renamed == {TemporaryName(m, d) : d \in done}
      Copies(f) == {k \in DOMAIN f : IsDuplicatedName(k) /\ from \in f[k].columns
                                       /\ f[k].columns \cap renamed = {}}
      original(k) == StripDuplicationPrefix(k)
      ks == t.constraints
      Check(k) ==
        <<ValidateConstraint(t.name, k), RenameConstraint(t.name, k, original(k))>>
        \o (IF IsNotNullConstraintName(original(k))
              THEN <<SetNotNull(t.name, column), DropConstraint(t.name, NotNullConstraintName(column))>>
              ELSE <<>>)
      Index(i) ==
        <<RenameIndex(i, original(i))>>
        \o (IF t.indexes[i].unique /\ original(i) \in DOMAIN ks /\ ks[original(i)].kind = "unique"
              THEN <<AddConstraintUsingUniqueIndex(t.name, original(i), original(i))>>
              ELSE <<>>)
  IN  <<RenameColumn(t.name, from, column)>>
      \o All({k \in Copies(ks) : ks[k].kind = "fk"}, LAMBDA k : RenameConstraint(t.name, k, original(k)))
      \o Sequence({k \in Copies(ks) : IsCheck(ks[k])}, Check)
      \o Sequence(Copies(t.indexes), Index)
      \o (IF column \in t.pk THEN <<AddPrimaryKey(t.name, PrimaryKeyName(t.name))>> ELSE <<>>)

----------------------------------------------------------------------------
(* Triggers.  An `up` trigger derives its column from `source`; needs is   *)
(* what the function declares variables for, and a function that is not    *)
(* valid is one PostgreSQL does not accept.                                *)

Trigger(m, name, dir, t, table, target, source) ==
  [name |-> name, m |-> m,
   trigger |-> [table |-> table, dir |-> dir, target |-> target, source |-> source,
                ups |-> <<m>>, needs |-> PhysicalColumns(t), valid |-> TRUE]]

\* The copy of a column in the schema, and both triggers that keep it in step.
DuplicateInSchema(t, key, as) == AddColumnTo(t, key, [t.columns[key] EXCEPT !.name = as])

ColumnTriggers(m, o, t, table, key, as) ==
  LET old == t.columns[key].name
  IN  <<Trigger(m, TriggerName(m, o.table, key), "up", t, table, as, old),
        Trigger(m, TriggerName(m, o.table, as), "down", DuplicateInSchema(t, key, as), table, old, as)>>

\* Mutant: only the `up` functions are dropped.
UpFunctions(m, o, columns) == DropFunction({TriggerName(m, o.table, c) : c \in columns})

ColumnFunctions(m, o, columns) ==
  DropFunction(UNION {{TriggerName(m, o.table, c), TriggerName(m, o.table, TemporaryName(m, c))} : c \in columns})
=============================================================================
