--------------------------- MODULE PhysicalSchema ---------------------------
(***************************************************************************)
(* The database: tables, indexes, constraints, trigger functions and the   *)
(* views of version schemas, and what each DBAction (pkg/migrations/       *)
(* dbactions.go) does to them.  PostgreSQL's part is modelled from how the *)
(* statements are used: what they refuse, what they take with them, and    *)
(* that views and foreign keys follow renames.                             *)
(*                                                                         *)
(* A column's content stands for all its rows: <<>> is NULL, <<"w0">> what *)
(* applications wrote, and every migration whose `up` SQL it went through  *)
(* is appended.  Once a statement has failed, ok is FALSE and the ones     *)
(* that follow it are not run.                                             *)
(***************************************************************************)
EXTENDS VirtualSchema

Null == <<>>

EmptyDatabase == [tables |-> <<>>, triggers |-> <<>>, views |-> <<>>, ok |-> TRUE]

TableIn(db, t) == t \in DOMAIN db.tables
ColumnIn(db, t, c) == TableIn(db, t) /\ c \in DOMAIN db.tables[t].columns
ConstraintIn(db, t, k) == TableIn(db, t) /\ k \in DOMAIN db.tables[t].constraints
IndexOwners(db, i) == {t \in DOMAIN db.tables : i \in DOMAIN db.tables[t].indexes}

Fail(db) == [db EXCEPT !.ok = FALSE]

Viewed(db, t, columns) ==
  \E v \in DOMAIN db.views : \E n \in DOMAIN db.views[v] :
     db.views[v][n].table = t /\ Range(db.views[v][n].columns) \cap columns # {}

Referenced(db, t) ==
  \E u \in DOMAIN db.tables \ {t} : \E k \in DOMAIN db.tables[u].constraints :
     db.tables[u].constraints[k].kind = "fk" /\ db.tables[u].constraints[k].ref = t

\* Every view, with the relation it selects from changed by F.
MapViews(db, F(_)) == [v \in DOMAIN db.views |-> [n \in DOMAIN db.views[v] |-> F(db.views[v][n])]]

\* The entries of a table's map (constraints or indexes) that involve none of
\* the columns, and the entries after a rename of one.
NotInvolving(f, columns) == Without(f, {k \in DOMAIN f : f[k].columns \cap columns # {}})
RenamedIn(f, from, to) == [k \in DOMAIN f |-> [f[k] EXCEPT !.columns = Substitute(@, from, to)]]

----------------------------------------------------------------------------
(* Tables.                                                                 *)

CreateTableAction(db, a) ==
  IF \/ TableIn(db, a.table)
     \/ \E k \in Range(a.value.constraints) :
          ~(k.columns \subseteq DOMAIN a.value.columns) \/ (k.kind = "fk" /\ ~TableIn(db, k.ref))
  THEN Fail(db) ELSE [db EXCEPT !.tables = Put(@, a.table, a.value)]

DropTableAction(db, a) ==
  IF ~TableIn(db, a.table) THEN db
  ELSE IF Referenced(db, a.table)
          \/ \E v \in DOMAIN db.views : \E n \in DOMAIN db.views[v] : db.views[v][n].table = a.table
       THEN Fail(db)
  ELSE [db EXCEPT !.tables = Without(@, {a.table}),
                  !.triggers = Without(@, {f \in DOMAIN @ : @[f].table = a.table})]

RenameTableAction(db, a) ==
  LET followed(t) == [t EXCEPT !.constraints =
                        [k \in DOMAIN @ |-> [@[k] EXCEPT !.ref = IF @ = a.table THEN a.to ELSE @]]]
      renamed == RenameKey(db.tables, a.table, a.to)
  IN  IF ~TableIn(db, a.table) THEN db
      ELSE IF TableIn(db, a.to) THEN Fail(db)
      ELSE [db EXCEPT
              !.tables = [t \in DOMAIN renamed |-> followed(renamed[t])],
              !.triggers = [f \in DOMAIN @ |-> [@[f] EXCEPT !.table = IF @ = a.table THEN a.to ELSE @]],
              !.views = MapViews(db, LAMBDA v : [v EXCEPT !.table = IF @ = a.table THEN a.to ELSE @])]

SetReplicaIdentityAction(db, a) == IF TableIn(db, a.table) THEN db ELSE Fail(db)

----------------------------------------------------------------------------
(* Columns.                                                                *)

AddColumnAction(db, a) ==
  IF ~TableIn(db, a.table) \/ (ColumnIn(db, a.table, a.column) /\ ~a.ifNotExists) THEN Fail(db)
  ELSE IF ColumnIn(db, a.table, a.column) THEN db
  ELSE [db EXCEPT !.tables[a.table].columns = Put(@, a.column, a.value)]

\* A column takes its constraints and indexes with it; a view that reads it
\* keeps it from being dropped.
DropColumnAction(db, a) ==
  IF ~TableIn(db, a.table) THEN db
  ELSE IF Viewed(db, a.table, a.columns) THEN Fail(db)
  ELSE [db EXCEPT !.tables[a.table].columns = Without(@, a.columns),
                  !.tables[a.table].constraints = NotInvolving(@, a.columns),
                  !.tables[a.table].indexes = NotInvolving(@, a.columns)]

\* Mutant: the rename is not probed for.
RenameColumnUnprobed(db, a) ==
  LET followed(v) == [v EXCEPT !.columns =
                        IF v.table # a.table THEN @
                        ELSE [c \in DOMAIN @ |-> IF @[c] = a.column THEN a.to ELSE @[c]]]
  IN  IF ~TableIn(db, a.table) THEN db
      ELSE IF ~ColumnIn(db, a.table, a.column) \/ ColumnIn(db, a.table, a.to) THEN Fail(db)
      ELSE [db EXCEPT !.tables[a.table].columns = RenameKey(@, a.column, a.to),
                      !.tables[a.table].constraints = RenamedIn(@, a.column, a.to),
                      !.tables[a.table].indexes = RenamedIn(@, a.column, a.to),
                      !.views = MapViews(db, followed)]

\* The statement is skipped when the column is gone and the target is there.
RenameColumnAction(db, a) ==
  IF ~ColumnIn(db, a.table, a.column) /\ ColumnIn(db, a.table, a.to) THEN db
  ELSE RenameColumnUnprobed(db, a)

SetNotNullAction(db, a) ==
  IF ~TableIn(db, a.table) THEN db
  ELSE IF ~ColumnIn(db, a.table, a.column) \/ db.tables[a.table].columns[a.column].content = Null
       THEN Fail(db)
  ELSE [db EXCEPT !.tables[a.table].columns[a.column].nullable = FALSE]

\* setDefaultAction and dropDefaultAction.
SetDefaultAction(db, a) ==
  IF ~TableIn(db, a.table) THEN db
  ELSE IF ~ColumnIn(db, a.table, a.column) THEN Fail(db)
  ELSE [db EXCEPT !.tables[a.table].columns[a.column].default = a.default]

----------------------------------------------------------------------------
(* Indexes.  Index names are unique in the schema.                         *)

\* CREATE INDEX IF NOT EXISTS says nothing when the name is taken; the copy of
\* an index, made without the clause, is refused.
CreateIndexAction(db, a) ==
  IF IndexOwners(db, a.name) # {} THEN IF a.ifNotExists THEN db ELSE Fail(db)
  ELSE IF ~TableIn(db, a.table) \/ ~(a.value.columns \subseteq DOMAIN db.tables[a.table].columns)
       THEN Fail(db)
  ELSE [db EXCEPT !.tables[a.table].indexes = Put(@, a.name, a.value)]

DropIndexAction(db, a) ==
  IF \E t \in IndexOwners(db, a.name) : ConstraintIn(db, t, a.name) THEN Fail(db)
  ELSE [db EXCEPT !.tables = [t \in DOMAIN @ |-> [@[t] EXCEPT !.indexes = Without(@, {a.name})]]]

RenameIndexAction(db, a) ==
  IF IndexOwners(db, a.name) = {} THEN db
  ELSE IF IndexOwners(db, a.to) # {} THEN Fail(db)
  ELSE [db EXCEPT !.tables = [t \in DOMAIN @ |->
          IF a.name \in DOMAIN @[t].indexes
            THEN [@[t] EXCEPT !.indexes = RenameKey(@, a.name, a.to)] ELSE @[t]]]

----------------------------------------------------------------------------
(* Constraints.                                                            *)

\* The ADD CONSTRAINT of createFKConstraintAction, CreateCheckConstraintAction
\* and of the duplicator.
CreateConstraintAction(db, a) ==
  IF \/ ~TableIn(db, a.table) \/ ConstraintIn(db, a.table, a.name)
     \/ ~(a.value.columns \subseteq DOMAIN db.tables[a.table].columns)
     \/ a.value.kind = "fk" /\ ~TableIn(db, a.value.ref)
  THEN Fail(db)
  ELSE [db EXCEPT !.tables[a.table].constraints = Put(@, a.name, a.value)]

\* VALIDATE CONSTRAINT reads the rows: a NOT NULL check refuses NULLs.
ValidateConstraintAction(db, a) ==
  IF ~TableIn(db, a.table) THEN db
  ELSE IF \/ ~ConstraintIn(db, a.table, a.name)
          \/ LET k == db.tables[a.table].constraints[a.name]
             IN  k.kind = "notnull"
                   /\ \E c \in k.columns : db.tables[a.table].columns[c].content = Null
       THEN Fail(db)
  ELSE [db EXCEPT !.tables[a.table].constraints[a.name].valid = TRUE]

DropConstraintAction(db, a) ==
  IF ~ConstraintIn(db, a.table, a.name) THEN db
  ELSE [db EXCEPT !.tables[a.table].constraints = Without(@, {a.name}),
                  !.tables[a.table].indexes =
                     IF db.tables[a.table].constraints[a.name].kind \in {"unique", "pk"}
                       THEN Without(@, {a.name}) ELSE @]

\* An index behind the constraint is renamed with it.
RenameConstraintAction(db, a) ==
  IF ~TableIn(db, a.table) \/ (~ConstraintIn(db, a.table, a.name) /\ ConstraintIn(db, a.table, a.to)) THEN db
  ELSE IF ~ConstraintIn(db, a.table, a.name) \/ ConstraintIn(db, a.table, a.to) THEN Fail(db)
  ELSE [db EXCEPT !.tables[a.table].constraints = RenameKey(@, a.name, a.to),
                  !.tables[a.table].indexes =
                     IF a.name \in DOMAIN @ THEN RenameKey(@, a.name, a.to) ELSE @]

UsingIndex(db, t, name, index, kind) ==
  IF index \notin DOMAIN db.tables[t].indexes THEN Fail(db)
  ELSE LET columns == db.tables[t].indexes[index].columns
       IN  [db EXCEPT !.tables[t].indexes = RenameKey(@, index, name),
                      !.tables[t].constraints =
                         Put(@, name, [kind |-> kind, columns |-> columns, valid |-> TRUE, ref |-> Null])]

\* Both are skipped when the constraint is there already.
AddConstraintUsingUniqueIndexAction(db, a) ==
  IF ~TableIn(db, a.table) \/ ConstraintIn(db, a.table, a.name) THEN db
  ELSE UsingIndex(db, a.table, a.name, a.index, "unique")

PrimaryKeyOf(t) == UNION {t.constraints[k].columns : k \in {l \in DOMAIN t.constraints : t.constraints[l].kind = "pk"}}

AddPrimaryKeyAction(db, a) ==
  IF ~TableIn(db, a.table) THEN Fail(db)
  ELSE IF PrimaryKeyOf(db.tables[a.table]) # {} THEN db
  ELSE UsingIndex(db, a.table, a.index, a.index, "pk")

----------------------------------------------------------------------------
(* Trigger functions and version schemas.                                  *)

DropFunctionAction(db, a) == [db EXCEPT !.triggers = Without(@, a.names)]

\* createTriggerAction: the marker column, the function and the trigger.
CreateTriggerAction(db, a) ==
  IF ~TableIn(db, a.trigger.table) \/ ~a.trigger.valid THEN Fail(db)
  ELSE [db EXCEPT
          !.tables[a.trigger.table].columns =
             IF a.marker \in DOMAIN @ THEN @
             ELSE Put(@, a.marker, [nullable |-> TRUE, default |-> TRUE, content |-> Null]),
          !.triggers = Put(@, a.name, a.trigger)]

DropVersionSchema(db, versions) == [db EXCEPT !.views = Without(@, versions)]

----------------------------------------------------------------------------

Execute(db, a) ==
  CASE a.act = "create_table"      -> CreateTableAction(db, a)
    [] a.act = "drop_table"        -> DropTableAction(db, a)
    [] a.act = "rename_table"      -> RenameTableAction(db, a)
    [] a.act = "replica_identity"  -> SetReplicaIdentityAction(db, a)
    [] a.act = "add_column"        -> AddColumnAction(db, a)
    [] a.act = "drop_column"       -> DropColumnAction(db, a)
    [] a.act = "rename_column"     -> RenameColumnAction(db, a)
    [] a.act = "set_not_null"      -> SetNotNullAction(db, a)
    [] a.act = "set_default"       -> SetDefaultAction(db, a)
    [] a.act = "create_index"      -> CreateIndexAction(db, a)
    [] a.act = "drop_index"        -> DropIndexAction(db, a)
    [] a.act = "rename_index"      -> RenameIndexAction(db, a)
    [] a.act = "create_constraint" -> CreateConstraintAction(db, a)
    [] a.act = "validate"          -> ValidateConstraintAction(db, a)
    [] a.act = "drop_constraint"   -> DropConstraintAction(db, a)
    [] a.act = "rename_constraint" -> RenameConstraintAction(db, a)
    [] a.act = "unique_using"      -> AddConstraintUsingUniqueIndexAction(db, a)
    [] a.act = "add_pk"            -> AddPrimaryKeyAction(db, a)
    [] a.act = "drop_function"     -> DropFunctionAction(db, a)
    [] a.act = "create_trigger"    -> CreateTriggerAction(db, a)

\* The coordinator runs an action that was added twice once, where it was
\* added last.
NewCoordinator(actions) ==
  SelectSeq([i \in DOMAIN actions |-> [i |-> i, a |-> actions[i]]],
            LAMBDA e : \A j \in (e.i + 1)..Len(actions) : actions[j] # e.a)

Program(actions) == LET kept == NewCoordinator(actions) IN [i \in DOMAIN kept |-> kept[i].a]

Run(db, program) == FoldLeft(LAMBDA d, a : IF d.ok THEN Execute(d, a) ELSE d, db, program)

IsUnique(table, c) == \E i \in DOMAIN table.indexes : table.indexes[i].unique /\ table.indexes[i].columns = {c}

\* Table by table, what read_schema returns: every name is the physical one.
ReadSchema(db) ==
  [tables |-> [t \in DOMAIN db.tables |->
     LET table == db.tables[t]
         keys == {k \in DOMAIN table.constraints : table.constraints[k].kind = "pk"}
     IN  [name        |-> t,
          deleted     |-> FALSE,
          columns     |-> [c \in DOMAIN table.columns |->
                             [name |-> c, nullable |-> table.columns[c].nullable,
                              default |-> table.columns[c].default, unique |-> IsUnique(table, c),
                              deleted |-> FALSE]],
          constraints |-> [k \in DOMAIN table.constraints \ keys |->
                             [kind |-> table.constraints[k].kind,
                              columns |-> table.constraints[k].columns,
                              def |-> table.constraints[k].columns,
                              ref |-> table.constraints[k].ref]],
          indexes     |-> table.indexes,
          pk          |-> PrimaryKeyOf(table)]],
   shadowed |-> <<>>]
=============================================================================
