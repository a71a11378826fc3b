------------------------------ MODULE Inversion ------------------------------
(***************************************************************************)
(* The inverse of a sealed segment of the history (pkg/migrations/         *)
(* invert.go): what `pgroll revert` runs forward to undo migrations whose  *)
(* contraction has drained.  Each operation is inverted against the schema *)
(* it ran on, which is reconstructed from the boundary's snapshot by       *)
(* replaying the Starts of the operations before it.                       *)
(*                                                                         *)
(* Types, comments, sequences and identity columns are left out, as in the *)
(* operations themselves.                                                  *)
(***************************************************************************)
EXTENDS DeclaredSchema

Inverted(ops) == [err |-> FALSE, ops |-> ops]
NoInverse == [err |-> TRUE, ops |-> <<>>]

Literal == <<"literal">>   \* an expression that reads no column

\* The operations whose inverse is taken from the reconstructed schema.
InvertReadsPreState(o) ==
  o.op \in {"drop_column", "drop_table", "drop_index", "alter_column", "drop_multicolumn", "drop_constraint"}

InvertRename(o, from, to) == Inverted(<<[o EXCEPT ![from] = o[to], ![to] = o[from]]>>)

\* What an added column is computed from while its inverse is expanded.
InvertAddColumn(o) ==
  IF o.up = Null /\ o.default = "none" /\ ~o.nullable THEN NoInverse
  ELSE Inverted(<<[op |-> "drop_column", table |-> o.table, column |-> o.column,
                  down |-> IF o.up = Null THEN Literal ELSE o.up]>>)

InvertRawSQL(o) ==
  IF o.down = <<>> THEN NoInverse
  ELSE Inverted(<<[op |-> "sql", up |-> o.down, down |-> <<>>, onComplete |-> TRUE]>>)

\* The recorded definition of an index, a statement on the relation and the
\* columns as they were called at the boundary.
IndexDefinition(t, name) ==
  [op |-> "sql", down |-> <<>>, onComplete |-> TRUE,
   up |-> <<[CreateIndex(t.name, name, t.indexes[name].columns, t.indexes[name].unique) EXCEPT !.ifNotExists = FALSE]>>]

InvertDropIndex(o, pre) ==
  IF IndexTables(pre, o.name) = {} THEN NoInverse
  ELSE Inverted(<<IndexDefinition(pre.tables[CHOOSE t \in IndexTables(pre, o.name) : TRUE], o.name)>>)

InvertDropColumn(o, pre) ==
  LET column == pre.tables[o.table].columns[o.column]
  IN  IF MissingColumn(pre, o) \/ o.down = Null THEN NoInverse
      ELSE Inverted(<<[op |-> "add_column", table |-> o.table, column |-> o.column, nullable |-> column.nullable,
                      default |-> IF column.default THEN "fast" ELSE "none", up |-> o.down, check |-> Null,
                      unique |-> column.unique]>>)

DropAdded(o) == Inverted(<<[op |-> "drop_multicolumn", table |-> o.table, name |-> o.name]>>)

\* A constraint can only be taken off again if nothing else was changed with it.
InvertAlterColumn(o, pre) ==
  LET added == o.changes \cap {"check", "fk", "unique"}
      column == pre.tables[o.table].columns[o.column]
      prior == (o.changes \cap {"type"})
                 \cup (IF o.changes \cap {"nullable", "notnull"} = {} THEN {}
                       ELSE {IF column.nullable THEN "nullable" ELSE "notnull"})
                 \cup (IF o.changes \cap {"default", "nodefault"} = {} THEN {}
                       ELSE {IF column.default THEN "default" ELSE "nodefault"})
  IN  IF added # {} THEN IF Cardinality(o.changes) = 1 THEN DropAdded(o) ELSE NoInverse
      ELSE IF MissingColumn(pre, o) \/ prior = {} THEN NoInverse
      ELSE Inverted(<<[o EXCEPT !.changes = prior, !.up = o.down, !.down = o.up]>>)

\* A table comes back empty, with its constraints; the indexes that back none of
\* them are made afterwards.
InvertDropTable(o, pre) ==
  LET t == pre.tables[o.table]
      columns == {c \in DOMAIN t.columns : ~t.columns[c].deleted}
      keys == IF t.pk = {} THEN {} ELSE {PrimaryKeyName(o.table)}
      backed == {k \in DOMAIN t.constraints : t.constraints[k].kind = "unique"}
      constraint(k) == IF k \in keys THEN [kind |-> "pk", columns |-> t.pk, valid |-> TRUE, ref |-> Null]
                       ELSE [kind |-> t.constraints[k].kind, columns |-> t.constraints[k].columns, valid |-> TRUE,
                             ref |-> t.constraints[k].ref]
      value == [columns     |-> [c \in columns |-> [nullable |-> t.columns[c].nullable, default |-> t.columns[c].default,
                                                    content |-> Null]],
                constraints |-> [k \in DOMAIN t.constraints \cup keys |-> constraint(k)],
                indexes     |-> [i \in backed \cup keys |-> [columns |-> constraint(i).columns, unique |-> TRUE]]]
      IsPrimaryKeyIndex(i) == t.pk # {} /\ i = PrimaryKeyName(t.name)
      rest == {i \in DOMAIN t.indexes \ backed : ~IsPrimaryKeyIndex(i)}
  IN  IF MissingTable(pre, o) THEN NoInverse
      ELSE Inverted(<<[op |-> "create_table", table |-> o.table, value |-> value]>>
                   \o All(rest, LAMBDA i : IndexDefinition(t, i)))

InvertCreateConstraint(o) == IF o.kind = "pk" THEN NoInverse ELSE DropAdded(o)

\* Primary keys are not among the constraints of a schema.
InvertConstraintDrop(o, pre) ==
  LET t == pre.tables[o.table]
      k == t.constraints[o.name]
  IN  IF MissingTable(pre, o) \/ ~ConstraintExists(t, o.name) THEN NoInverse
      ELSE Inverted(<<[op |-> "create_constraint", table |-> o.table, name |-> o.name,
                      kind |-> IF IsCheck(k) THEN "check" ELSE k.kind, columns |-> k.columns, ref |-> k.ref]>>)

InvertDropConstraint(o, pre) ==
  IF MissingTable(pre, o) \/ Cardinality(GetConstraintColumns(pre.tables[o.table], o.name)) # 1 THEN NoInverse
  ELSE InvertConstraintDrop(o, pre)

Invert(o, pre) ==
  CASE o.op = "rename_column"     -> InvertRename(o, "column", "to")
    [] o.op = "rename_table"      -> InvertRename(o, "table", "to")
    [] o.op = "rename_constraint" -> InvertRename(o, "name", "to")
    [] o.op = "create_table"      -> Inverted(<<[op |-> "drop_table", table |-> o.table]>>)
    [] o.op = "create_index"      -> Inverted(<<[op |-> "drop_index", name |-> o.name]>>)
    [] o.op = "add_column"        -> InvertAddColumn(o)
    [] o.op = "sql"               -> InvertRawSQL(o)
    [] o.op = "drop_index"        -> InvertDropIndex(o, pre)
    [] o.op = "drop_column"       -> InvertDropColumn(o, pre)
    [] o.op = "alter_column"      -> InvertAlterColumn(o, pre)
    [] o.op = "drop_table"        -> InvertDropTable(o, pre)
    [] o.op = "create_constraint" -> InvertCreateConstraint(o)
    [] o.op = "drop_multicolumn"  -> InvertConstraintDrop(o, pre)
    [] o.op = "drop_constraint"   -> InvertDropConstraint(o, pre)
    [] o.op = "replica_identity"  -> NoInverse

----------------------------------------------------------------------------
(* The segment.                                                            *)

\* The schema each operation ran on.  SQL of a migration changes nothing in the
\* replay, so what reads the schema after it is refused.
ReplayStart(acc, m, o) ==
  LET tainted == acc.tainted \/ o.op = "sql"
      started == Start(m, o, acc.work)
  IN  IF acc.err \/ (acc.tainted /\ InvertReadsPreState(o)) \/ started.err THEN [acc EXCEPT !.err = TRUE]
      ELSE [acc EXCEPT !.work = started.s, !.tainted = tainted, !.steps = Append(@, [m |-> m, o |-> o, pre |-> acc.work])]

PreStates(migs, base) ==
  FoldLeft(LAMBDA acc, mig : FoldLeft(LAMBDA a, o : ReplayStart(a, mig.m, o), acc, mig.ops),
           [err |-> FALSE, work |-> base, tainted |-> FALSE, steps |-> <<>>], migs)

\* Mutant: the operations are inverted in their own order.
NewestFirstNot(s) == s

NewestFirst(s) == Reverse(s)

\* The operations of a migration, inverted and in reverse order.
InvertMigration(m, steps) ==
  LET own == NewestFirst(SelectSeq(steps, LAMBDA e : e.m = m))
      inverted == [i \in DOMAIN own |-> Invert(own[i].o, own[i].pre)]
      ops == FlattenSeq([i \in DOMAIN inverted |-> inverted[i].ops])
  IN  [err |-> \/ \E i \in DOMAIN inverted : inverted[i].err
               \/ Len(ops) > 1 /\ \E i \in DOMAIN ops : IsIsolated(ops[i]),
       mig |-> [m |-> "revert_" \o m, ops |-> ops]]

InvertSegment(migs, base) ==
  LET replayed == PreStates(migs, base)
      newest == NewestFirst(migs)
      inverses == [i \in DOMAIN newest |-> InvertMigration(newest[i].m, replayed.steps)]
  IN  [err  |-> replayed.err \/ \E i \in DOMAIN inverses : inverses[i].err,
       migs |-> [i \in DOMAIN inverses |-> inverses[i].mig]]
=============================================================================
