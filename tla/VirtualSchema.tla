---------------------------- MODULE VirtualSchema ----------------------------
(***************************************************************************)
(* The in-memory schema (pkg/schema) that operations read and update, and  *)
(* the names pgroll gives to the objects it keeps in the database while a  *)
(* migration is in flight.                                                 *)
(*                                                                         *)
(* A name is a sequence: <<"c">> is a user's name, <<"new", "m1", "c">> is *)
(* the temporary name that migration m1 gives to it.  Prefix and scope     *)
(* suffix of the source's strings are the first two elements.  What a      *)
(* check constraint's SQL says is the set of column names it mentions.     *)
(***************************************************************************)
EXTENDS Integers, Sequences, FiniteSets, SequencesExt, Functions

TemporaryName(m, name) == <<"new", m>> \o name
DeletionName(m, name) == <<"del", m>> \o name
DuplicationName(m, name) == <<"dup", m>> \o name
NeedsBackfillColumnName(m) == <<"marker", m>>
TriggerName(m, table, column) == <<"trigger", m>> \o table \o column
NotNullConstraintName(column) == <<"notnull">> \o column
UniqueIndexName(column) == <<"uniq">> \o column
PrimaryKeyName(table) == <<"pkey">> \o table

Unprefixed(name) == SubSeq(name, 3, Len(name))
IsTemporaryName(name) == Head(name) = "new"
IsDuplicatedName(name) == Head(name) = "dup"
IsDeletionName(name) == Head(name) = "del"
IsNotNullConstraintName(name) == Head(name) = "notnull"
IsInternalName(name) == Head(name) \in {"new", "del", "dup", "marker"}

\* A name that is temporary already has its prefix and scope replaced.
TemporaryNameRebase(m, name) ==
  TemporaryName(m, IF IsTemporaryName(name) THEN Unprefixed(name) ELSE name)

StripDuplicationPrefix(name) == IF IsDuplicatedName(name) THEN Unprefixed(name) ELSE name

----------------------------------------------------------------------------
(* Maps.                                                                   *)

Without(f, keys) == Restrict(f, DOMAIN f \ keys)
Put(f, key, value) == [k \in DOMAIN f \cup {key} |-> IF k = key THEN value ELSE f[k]]
RenameKey(f, from, to) == Put(Without(f, {from}), to, f[from])
Substitute(names, from, to) == {IF n = from THEN to ELSE n : n \in names}

----------------------------------------------------------------------------
(* Tables.  An entry that is Deleted is kept and cannot be looked up.  A   *)
(* table that is renamed onto a Deleted entry shadows it.                  *)

HasTable(s, table) == table \in DOMAIN s.tables /\ ~s.tables[table].deleted

RemoveTable(s, table) ==
  IF table \in DOMAIN s.tables THEN [s EXCEPT !.tables[table].deleted = TRUE] ELSE s

UnRemoveTable(s, table) ==
  IF table \in DOMAIN s.tables THEN [s EXCEPT !.tables[table].deleted = FALSE] ELSE s

Shadows(s, table) == IF table \in DOMAIN s.shadowed THEN s.shadowed[table] ELSE <<>>

RenameTableFails(s, from, to) == ~HasTable(s, from) \/ HasTable(s, to)

RenameTableOf(s, from, to) ==
  LET pushed == IF to \in DOMAIN s.tables
                  THEN Put(s.shadowed, to, Append(Shadows(s, to), s.tables[to]))
                  ELSE s.shadowed
      stack == IF from \in DOMAIN pushed THEN pushed[from] ELSE <<>>
      renamed == RenameKey(s.tables, from, to)
  IN  IF RenameTableFails(s, from, to) THEN s
      ELSE IF stack = <<>> THEN [s EXCEPT !.tables = renamed, !.shadowed = pushed]
      ELSE [s EXCEPT !.tables = Put(renamed, from, Last(stack)),
                     !.shadowed = Put(pushed, from, Front(stack))]

----------------------------------------------------------------------------
(* Columns and constraints of a table t.                                   *)

HasColumn(t, column) == column \in DOMAIN t.columns /\ ~t.columns[column].deleted

AddColumnTo(t, column, value) == [t EXCEPT !.columns = Put(@, column, value)]
SetDeleted(t, column, deleted) ==
  IF column \in DOMAIN t.columns THEN [t EXCEPT !.columns[column].deleted = deleted] ELSE t

RenameColumnOf(t, from, to) ==
  IF from \in DOMAIN t.columns THEN [t EXCEPT !.columns = RenameKey(@, from, to)] ELSE t

\* The constraints' column lists follow a rename; the text of a check does not.
RenameConstraintColumns(t, from, to) ==
  [t EXCEPT !.constraints =
     [k \in DOMAIN @ |-> [@[k] EXCEPT !.columns = Substitute(@, from, to)]]]

ConstraintExists(t, name) == name \in DOMAIN t.constraints
GetConstraintColumns(t, name) ==
  IF ConstraintExists(t, name) THEN t.constraints[name].columns ELSE {}

IsCheck(constraint) == constraint.kind \in {"check", "notnull"}

\* Every column a trigger function declares a variable for; deleted entries
\* are still in the map.
PhysicalColumns(t) == {t.columns[c].name : c \in DOMAIN t.columns}
=============================================================================
