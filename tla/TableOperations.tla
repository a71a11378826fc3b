--------------------------- MODULE TableOperations ---------------------------
(***************************************************************************)
(* The operations on tables, and those that add, drop or rename a column   *)
(* (pkg/migrations/op_*.go): what each one requires of the schema          *)
(* (Validate), does when the migration starts (Start), when it completes   *)
(* (Complete), and to undo it (Rollback).                                  *)
(*                                                                         *)
(* Every operator takes the name m of the migration, the operation o and   *)
(* the virtual schema s, and returns a result: whether it returned an      *)
(* error, the schema it leaves, the statements the operation runs itself   *)
(* while its actions are collected (early), the actions it returns (ddl),  *)
(* the triggers it asks for, and the tables to backfill.                   *)
(***************************************************************************)
EXTENDS Duplicator

Result(s, ddl) == [err |-> FALSE, s |-> s, early |-> <<>>, ddl |-> ddl, triggers |-> <<>>, fill |-> {}]
Error(s) == [Result(s, <<>>) EXCEPT !.err = TRUE]

\* s with its table o.table replaced.
WithTable(s, o, t) == [s EXCEPT !.tables[o.table] = t]

MissingTable(s, o) == ~HasTable(s, o.table)
MissingColumn(s, o) == MissingTable(s, o) \/ ~HasColumn(s.tables[o.table], o.column)

----------------------------------------------------------------------------
(* create_table, drop_table, rename_table.                                 *)

\* The table as updateSchema registers it.
VirtualTable(name, table) ==
  ReadSchema([EmptyDatabase EXCEPT !.tables = name :> table]).tables[name]

CreateTableValidate(m, o, s) ==
  IF HasTable(s, o.table) THEN Error(s)
  ELSE Result([s EXCEPT !.tables = Put(@, o.table, VirtualTable(o.table, o.value))], <<>>)

CreateTableStart(m, o, s) ==
  Result([s EXCEPT !.tables = Put(@, o.table, VirtualTable(o.table, o.value))],
         <<CreateTable(o.table, o.value)>>)

CreateTableRollback(m, o, s) == Result(s, <<DropTable(o.table)>>)

DropTableValidate(m, o, s) ==
  IF MissingTable(s, o) THEN Error(s) ELSE Result(RemoveTable(s, s.tables[o.table].name), <<>>)

\* The table is renamed out of the way: its name is free for a later operation.
DropTableStart(m, o, s) ==
  IF MissingTable(s, o) THEN Error(s)
  ELSE LET name == s.tables[o.table].name
       IN  Result(RemoveTable(s, o.table), <<RenameTable(name, DeletionName(m, name))>>)

DropTableComplete(m, o, s) ==
  Result(RemoveTable(s, DeletionName(m, o.table)), <<DropTable(DeletionName(m, o.table))>>)

DropTableRollback(m, o, s) ==
  LET back == UnRemoveTable(s, o.table)
      name == back.tables[o.table].name
  IN  IF o.table \notin DOMAIN s.tables THEN Error(s)
      ELSE Result(back, <<RenameTable(DeletionName(m, name), name)>>)

RenameTableValidate(m, o, s) ==
  IF RenameTableFails(s, o.table, o.to) THEN Error(s) ELSE Result(RenameTableOf(s, o.table, o.to), <<>>)

RenameTableStart(m, o, s) == RenameTableValidate(m, o, s)

RenameTableComplete(m, o, s) ==
  LET renamed == RenameTableOf(s, o.table, o.to)
  IN  Result(IF HasTable(renamed, o.to) THEN [renamed EXCEPT !.tables[o.to].name = o.to] ELSE renamed,
             <<RenameTable(o.table, o.to)>>)

RenameTableRollback(m, o, s) == Result(RenameTableOf(s, o.to, o.table), <<>>)

----------------------------------------------------------------------------
(* add_column, drop_column, rename_column.  A default is "none", "fast"    *)
(* (a value that rewrites no row) or "slow"; `up` is the column, if any,   *)
(* that the new one is computed from, and `down` the one that a dropped    *)
(* column can be computed from.                                            *)

AddColumnValidate(m, o, s) ==
  IF \/ MissingTable(s, o) \/ HasColumn(s.tables[o.table], o.column)
     \/ ~o.nullable /\ o.default = "none" /\ o.up = Null
  THEN Error(s)
  ELSE Result(WithTable(s, o, AddColumnTo(s.tables[o.table], o.column,
                 [name |-> TemporaryName(m, o.column), nullable |-> FALSE, default |-> FALSE, unique |-> FALSE,
                  deleted |-> FALSE])),
              <<>>)

AddColumnStart(m, o, s) ==
  LET t == s.tables[o.table]
      temp == TemporaryName(m, o.column)
      fast == o.default = "fast"
  IN  IF MissingTable(s, o) \/ (o.default = "slow" /\ o.up = Null) THEN Error(s)
      ELSE [Result(WithTable(s, o, AddColumnTo(t, o.column,
                      [name |-> temp, nullable |-> o.nullable, default |-> o.default # "none", unique |-> o.unique,
                       deleted |-> FALSE])),
                   <<AddColumn(t.name, temp, [nullable |-> o.nullable \/ ~fast, default |-> fast,
                                              content |-> IF fast THEN <<m>> ELSE Null])>>
                   \o (IF o.nullable \/ fast THEN <<>>
                       ELSE <<CreateConstraint(t.name, NotNullConstraintName(o.column), "notnull", {temp}, Null, FALSE)>>)
                   \o (IF o.check = Null THEN <<>>
                       ELSE <<CreateConstraint(t.name, o.check, "check", {temp}, Null, FALSE)>>)
                   \o (IF ~o.unique THEN <<>>
                       ELSE <<CreateIndex(t.name, UniqueIndexName(o.column), {temp}, TRUE)>>))
            EXCEPT !.triggers =
                     IF o.up = Null THEN <<>>
                     ELSE <<Trigger(m, TriggerName(m, o.table, o.column), "up", t, t.name, temp,
                                    t.columns[o.up].name)>>,
                   !.fill = IF o.up = Null THEN {} ELSE {t.name}]

UpgradeNotNull(t, column) ==
  <<ValidateConstraint(t, NotNullConstraintName(column)), SetNotNull(t, column),
    DropConstraint(t, NotNullConstraintName(column))>>

AddColumnComplete(m, o, s) ==
  LET t == s.tables[o.table]
      temp == TemporaryName(m, o.column)
      late == o.default # "none" /\ ~t.columns[temp].default
  IN  IF MissingTable(s, o) THEN Error(s)
      \* The code dereferences the column without a check.
      ELSE IF o.default # "none" /\ temp \notin DOMAIN t.columns THEN Error(s)
      ELSE Result(s,
             <<RenameColumn(t.name, temp, o.column), DropFunction({TriggerName(m, o.table, o.column)}),
               DropMarker(m, t.name)>>
             \o (IF ~o.nullable /\ o.default = "none" THEN UpgradeNotNull(t.name, o.column) ELSE <<>>)
             \o (IF o.check = Null THEN <<>> ELSE <<ValidateConstraint(t.name, o.check)>>)
             \o (IF ~o.unique THEN <<>>
                 ELSE <<AddConstraintUsingUniqueIndex(t.name, o.column, UniqueIndexName(o.column))>>)
             \o (IF late THEN <<SetDefault(t.name, o.column, TRUE)>> ELSE <<>>)
             \o (IF late /\ ~o.nullable THEN UpgradeNotNull(t.name, o.column) ELSE <<>>))

AddColumnRollback(m, o, s) ==
  LET t == s.tables[o.table]
  IN  IF MissingColumn(s, o) THEN Error(s)
      ELSE Result(s, <<DropColumn(t.name, {t.columns[o.column].name}),
                       DropFunction({TriggerName(m, o.table, o.column)}), DropMarker(m, t.name)>>)

DropColumnValidate(m, o, s) == IF MissingColumn(s, o) THEN Error(s) ELSE Result(s, <<>>)

DropColumnStart(m, o, s) ==
  LET t == s.tables[o.table]
  IN  IF MissingColumn(s, o) THEN Error(s)
      ELSE [Result(WithTable(s, o, SetDeleted(t, o.column, TRUE)), <<>>)
            EXCEPT !.triggers = IF o.down = Null THEN <<>>
                                ELSE <<Trigger(m, TriggerName(m, o.table, o.column), "down", t, t.name,
                                               o.column, o.column)>>]

DropColumnComplete(m, o, s) ==
  LET t == s.tables[o.table]
  IN  IF MissingTable(s, o) THEN Error(s)
      ELSE Result(s, <<DropColumn(t.name, {o.column}), DropFunction({TriggerName(m, o.table, o.column)}),
                       DropMarker(m, t.name)>>)

DropColumnRollback(m, o, s) ==
  LET t == s.tables[o.table]
  IN  IF MissingTable(s, o) THEN Error(s)
      ELSE Result(WithTable(s, o, SetDeleted(t, o.column, FALSE)),
                  <<DropFunction({TriggerName(m, o.table, o.column)}), DropMarker(m, t.name)>>)

Renamed(s, o) ==
  WithTable(s, o, RenameConstraintColumns(RenameColumnOf(s.tables[o.table], o.column, o.to), o.column, o.to))

RenameColumnValidate(m, o, s) ==
  IF MissingColumn(s, o) \/ HasColumn(s.tables[o.table], o.to) THEN Error(s) ELSE Result(Renamed(s, o), <<>>)

RenameColumnStart(m, o, s) == IF MissingColumn(s, o) THEN Error(s) ELSE Result(Renamed(s, o), <<>>)

RenameColumnComplete(m, o, s) ==
  IF MissingTable(s, o) THEN Error(s)
  ELSE Result(Renamed(s, o), <<RenameColumn(s.tables[o.table].name, o.column, o.to)>>)

RenameColumnRollback(m, o, s) ==
  IF MissingTable(s, o) THEN Error(s)
  ELSE Result(WithTable(s, o, RenameColumnOf(s.tables[o.table], o.to, o.column)), <<>>)
=============================================================================
