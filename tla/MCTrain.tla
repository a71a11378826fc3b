------------------------------- MODULE MCTrain -------------------------------
EXTENDS Train

C(nullable, default) == [nullable |-> nullable, default |-> default, content |-> Null]
K(kind, columns, ref) == [kind |-> kind, columns |-> columns, valid |-> TRUE, ref |-> ref]

Users ==
  [columns     |-> <<"id">> :> C(FALSE, FALSE) @@ <<"name">> :> C(FALSE, FALSE) @@ <<"email">> :> C(TRUE, TRUE),
   constraints |-> PrimaryKeyName(<<"users">>) :> K("pk", {<<"id">>}, Null)
                     @@ <<"short">> :> K("check", {<<"name">>}, Null)
                     @@ <<"single">> :> K("unique", {<<"email">>}, Null),
   indexes     |-> PrimaryKeyName(<<"users">>) :> [columns |-> {<<"id">>}, unique |-> TRUE]
                     @@ <<"single">> :> [columns |-> {<<"email">>}, unique |-> TRUE]
                     @@ <<"byname">> :> [columns |-> {<<"name">>}, unique |-> FALSE]]

Orders ==
  [columns     |-> <<"id">> :> C(FALSE, FALSE) @@ <<"user">> :> C(TRUE, FALSE),
   constraints |-> PrimaryKeyName(<<"orders">>) :> K("pk", {<<"id">>}, Null)
                     @@ <<"buyer">> :> K("fk", {<<"user">>}, <<"users">>),
   indexes     |-> PrimaryKeyName(<<"orders">>) :> [columns |-> {<<"id">>}, unique |-> TRUE]]

MCBase == <<"users">> :> Users @@ <<"orders">> :> Orders

Items ==
  [columns |-> <<"id">> :> C(FALSE, FALSE), constraints |-> <<>>, indexes |-> <<>>]

----------------------------------------------------------------------------
(* A menu of operations on these tables.                                   *)

Table(op, table) == [op |-> op, table |-> table]
Column(op, table, column) == [op |-> op, table |-> table, column |-> column]

AddTo(table, column, nullable, default, up, check, unique) ==
  [op |-> "add_column", table |-> table, column |-> column, nullable |-> nullable, default |-> default,
   up |-> up, check |-> check, unique |-> unique]
Alter(table, column, changes, name, ref, up) ==
  [op |-> "alter_column", table |-> table, column |-> column, changes |-> changes, name |-> name,
   ref |-> ref, up |-> up, down |-> up \/ "nullable" \in changes]
Constrain(table, name, kind, columns, ref) ==
  [op |-> "create_constraint", table |-> table, name |-> name, kind |-> kind, columns |-> columns, ref |-> ref]
Sql(up, down, onComplete) == [op |-> "sql", up |-> up, down |-> down, onComplete |-> onComplete]

U == <<"users">>
O == <<"orders">>

Menu ==
  [createTable    |-> [op |-> "create_table", table |-> <<"items">>, value |-> Items],
   recreateOrders |-> [op |-> "create_table", table |-> O, value |-> Items],
   dropOrders     |-> Table("drop_table", O),
   renameOrders   |-> [op |-> "rename_table", table |-> O, to |-> <<"sales">>],
   renameUsers    |-> [op |-> "rename_table", table |-> U, to |-> <<"people">>],
   addNick        |-> AddTo(U, <<"nick">>, FALSE, "none", <<"name">>, <<"nickshort">>, FALSE),
   addAge         |-> AddTo(U, <<"age">>, TRUE, "fast", Null, Null, TRUE),
   addRank        |-> AddTo(U, <<"rank">>, FALSE, "slow", <<"name">>, Null, FALSE),
   addAgeToPeople |-> AddTo(<<"people">>, <<"age">>, TRUE, "none", <<"email">>, Null, FALSE),
   dropEmail      |-> Column("drop_column", U, <<"email">>) @@ [down |-> <<"id">>],
   addEmail       |-> AddTo(U, <<"email">>, TRUE, "none", Null, Null, FALSE),
   renameName     |-> Column("rename_column", U, <<"name">>) @@ [to |-> <<"label">>],
   renameEmail    |-> Column("rename_column", U, <<"email">>) @@ [to |-> <<"mail">>],
   alterEmail     |-> Alter(U, <<"email">>, {"type"}, Null, Null, TRUE),
   requireEmail   |-> Alter(U, <<"email">>, {"notnull"}, Null, Null, TRUE),
   defaultEmail   |-> Alter(U, <<"email">>, {"nodefault"}, Null, Null, FALSE),
   alterName      |-> Alter(U, <<"name">>, {"type"}, Null, Null, TRUE),
   optionalName   |-> Alter(U, <<"name">>, {"nullable"}, Null, Null, FALSE),
   checkMail      |-> Alter(U, <<"mail">>, {"check"}, <<"mailed">>, Null, TRUE),
   alterUser      |-> Alter(O, <<"user">>, {"type"}, Null, Null, TRUE),
   alterId        |-> Alter(U, <<"id">>, {"type"}, Null, Null, TRUE),
   referName      |-> Alter(O, <<"user">>, {"fk"}, <<"second">>, U, TRUE),
   uniqueName     |-> Alter(U, <<"name">>, {"unique"}, <<"once">>, Null, TRUE),
   createUnique   |-> Constrain(U, <<"both">>, "unique", {<<"name">>, <<"email">>}, Null),
   createCheck    |-> Constrain(U, <<"both">>, "check", {<<"name">>}, Null),
   createFK       |-> Constrain(O, <<"second">>, "fk", {<<"user">>}, U),
   dropCheck      |-> Table("drop_constraint", U) @@ [name |-> <<"short">>],
   dropUnique     |-> Table("drop_multicolumn", U) @@ [name |-> <<"single">>],
   dropFK         |-> Table("drop_constraint", O) @@ [name |-> <<"buyer">>],
   renameCheck    |-> Table("rename_constraint", U) @@ [name |-> <<"short">>, to |-> <<"brief">>],
   createIndex    |-> Table("create_index", U) @@ [name |-> <<"byemail">>, columns |-> {<<"email">>}],
   reIndex        |-> Table("create_index", U) @@ [name |-> <<"byname">>, columns |-> {<<"email">>}],
   dropIndex      |-> Table("drop_index", U) @@ [name |-> <<"byname">>],
   identity       |-> Table("replica_identity", U),
   sqlCreate      |-> Sql(<<CreateTable(<<"log">>, Items)>>, <<DropTable(<<"log">>)>>, FALSE),
   sqlDrop        |-> Sql(<<DropColumn(U, {<<"email">>})>>, <<>>, TRUE)]

Migration(m, op) == [m |-> m, ops |-> <<Menu[op]>>]

\* Pairs that PostgreSQL refuses whatever pgroll does: the SQL of the second
\* names what the first took away or has made.
Senseless == {<<"renameName", "addNick">>, <<"renameName", "addRank">>, <<"sqlCreate", "sqlCreate">>}

\* Longer trains, and migrations of several operations.
I == <<"items">>
S == <<"sales">>
More ==
  [renameUser   |-> Column("rename_column", O, <<"user">>) @@ [to |-> <<"buyer">>],
   renameBuyer  |-> Column("rename_column", O, <<"buyer">>) @@ [to |-> <<"client">>],
   alterClient  |-> Alter(O, <<"client">>, {"type"}, Null, Null, TRUE),
   alterPeople  |-> Alter(<<"people">>, <<"email">>, {"notnull"}, Null, Null, TRUE),
   requireMail  |-> Alter(U, <<"mail">>, {"notnull"}, Null, Null, TRUE),
   renameAge    |-> Column("rename_column", U, <<"age">>) @@ [to |-> <<"years">>],
   indexYears   |-> Table("create_index", U) @@ [name |-> <<"byyears">>, columns |-> {<<"years">>}],
   indexItems   |-> Table("create_index", I) @@ [name |-> <<"bysize">>, columns |-> {<<"size">>}],
   addToItems   |-> AddTo(I, <<"size">>, TRUE, "none", Null, Null, FALSE),
   renameSales  |-> [op |-> "rename_table", table |-> S, to |-> <<"bills">>],
   alterBills   |-> Alter(<<"bills">>, <<"user">>, {"default"}, Null, Null, FALSE)] @@ Menu

Ops(titles) == [i \in DOMAIN titles |-> More[titles[i]]]
Train2(a, b) == <<[m |-> "m1", ops |-> Ops(a)], [m |-> "m2", ops |-> Ops(b)]>>
Train3(a, b, c) == Append(Train2(<<a>>, <<b>>), [m |-> "m3", ops |-> Ops(<<c>>)])

Longer ==
  {Train3("renameUser", "renameBuyer", "alterClient"),
   Train3("renameOrders", "renameSales", "alterBills"),
   Train3("renameUsers", "alterPeople", "createTable"),
   Train3("defaultEmail", "renameEmail", "requireMail"),
   Train3("addAge", "renameAge", "indexYears"),
   Train3("dropEmail", "createTable", "addEmail"),
   Train3("dropOrders", "createTable", "recreateOrders"),
   Train3("createTable", "addToItems", "indexItems"),
   Train2(<<"alterEmail", "createIndex">>, <<"addNick", "addRank">>),
   Train2(<<"dropEmail", "addEmail">>, <<"alterName", "alterId">>),
   Train2(<<"renameName", "renameEmail">>, <<"checkMail", "renameUsers">>)}

\* Every operation alone, every pair and the longer trains, with the triggers of
\* two migrations firing in either order: it is that of their scopes' hashes.
Titles == DOMAIN Menu
MCTrains == {<<Migration("m1", a)>> : a \in Titles \ {"sqlDrop"}}
          \cup {<<Migration("m1", p[1]), Migration("m2", p[2])>> : p \in (Titles \X Titles) \ Senseless}
          \cup Longer
EitherOrder == {1, -1}

----------------------------------------------------------------------------
(* The pairs on which the code breaks a property, by cause.                *)

\* create_constraint is completed inline: its DROP COLUMN is blocked by the
\* previous version's views.
InlineConstraint == {"createUnique", "createCheck", "createFK"} \X Titles

\* add_column with `up` is completed inline: its trigger is gone while the
\* previous version still writes.
InlineBackfill == {"addNick", "addRank"} \X Titles

\* An onComplete statement meets the live version schema, which is dropped only
\* when something is queued.
UnqueuedSQL == {"addAge", "addNick", "addRank", "createIndex", "createTable", "identity",
                "renameCheck", "sqlCreate"} \X {"sqlDrop"}

\* Raw SQL of the contraction takes away what the other's Complete needs.
DroppedBySQL == {"sqlDrop"} \X {"alterEmail", "createUnique", "defaultEmail", "renameEmail", "requireEmail"}

\* drop_constraint looks for a constraint on a column that is a copy or renamed.
ConstraintOnCopy == ({"alterName", "optionalName", "uniqueName", "renameName"} \X {"dropCheck"})
                      \cup ({"alterUser", "referName"} \X {"dropFK"})

\* Complete of an operation on a table that a later migration dropped.
TableDropped == {"alterUser", "dropFK", "referName"} \X {"dropOrders"}

\* Validate does not see that the replayed first has done it already: what
\* fails later, and what goes through.
RepeatFails == {<<"dropCheck", "dropCheck">>, <<"dropCheck", "renameCheck">>, <<"dropEmail", "dropUnique">>,
                <<"dropFK", "dropFK">>, <<"requireEmail", "requireEmail">>}
RepeatPasses == {<<"dropUnique", "dropUnique">>, <<"optionalName", "optionalName">>}

\* The name is taken until the first is completed, or freed by its Complete.
NameTaken == {<<"renameOrders", "recreateOrders">>}
NameLost == {<<"dropIndex", "reIndex">>}

\* The columns an operation copies, and those its `up` reads.
Copied(o) ==
  CASE o.op = "alter_column"      -> {<<o.table, o.column>>}
    [] o.op = "create_constraint" -> {<<o.table, c>> : c \in o.columns}
    [] o.op \in {"drop_constraint", "drop_multicolumn"} ->
         {<<o.table, c>> : c \in MCBase[o.table].constraints[o.name].columns}
    [] OTHER                      -> {}
ReadBy(o) == Copied(o) \cup (IF o.op = "add_column" THEN {<<o.table, o.up>>} ELSE {})

\* The second reads the copy that the first fills, and its trigger fires first.
Stale == {p \in Titles \X Titles : Copied(Menu[p[1]]) \cap ReadBy(Menu[p[2]]) # {}}

\* A copy of a copy: a constraint keeps the name of its copy, a NOT NULL column
\* its check, a dropped constraint comes back, a default is lost.
CopyOfCopy ==
  ({"alterName", "optionalName", "uniqueName", "dropCheck"}
     \X {"alterName", "optionalName", "uniqueName", "createCheck", "createUnique"})
    \cup ({"alterUser", "dropFK", "referName"} \X {"alterUser", "referName"})
    \cup {<<"alterUser", "createFK">>, <<"alterId", "alterId">>, <<"alterEmail", "alterEmail">>,
          <<"alterEmail", "createUnique">>, <<"alterEmail", "dropUnique">>, <<"alterEmail", "requireEmail">>,
          <<"defaultEmail", "createUnique">>, <<"requireEmail", "createUnique">>}
CopyOfDropped == {"dropUnique"} \X {"alterEmail", "defaultEmail", "requireEmail"}

\* The inverse is derived from the boundary's snapshot and the replayed Starts,
\* which have other names, or no index or default.
SnapshotDiffers ==
  {<<"createIndex", "dropEmail">>, <<"renameName", "dropIndex">>, <<"renameUsers", "dropFK">>,
   <<"renameUsers", "dropIndex">>, <<"renameUsers", "dropOrders">>, <<"requireEmail", "dropEmail">>,
   <<"alterEmail", "dropEmail">>, <<"alterEmail", "defaultEmail">>}

Plans(pairs) == {<<Migration("m1", p[1]), Migration("m2", p[2])>> : p \in pairs}
StalePlans == (Plans(Stale) \cup {Train3("defaultEmail", "renameEmail", "requireMail")}) \X {-1}

MCKnown ==
  [NothingFails |->
     Plans(InlineConstraint \cup UnqueuedSQL \cup DroppedBySQL \cup ConstraintOnCopy \cup TableDropped
             \cup RepeatFails \cup NameTaken) \X EitherOrder,
   ValidatedAsIfCompleted |-> Plans(RepeatFails \cup RepeatPasses \cup NameLost) \X EitherOrder,
   SealedAsDeclared |->
     (Plans(InlineBackfill \cup RepeatPasses \cup NameLost \cup CopyOfCopy \cup CopyOfDropped
              \cup {<<"sqlDrop", "dropUnique">>}) \X EitherOrder) \cup StalePlans,
   VersionsServe |->
     (Plans(InlineBackfill \cup RepeatPasses \cup {<<"renameName", "dropCheck">>}) \X EitherOrder)
       \cup StalePlans,
   UndoRestores |->
     Plans(ConstraintOnCopy \cup NameLost \cup {<<"dropCheck", "dropCheck">>, <<"dropFK", "dropFK">>})
       \X EitherOrder,
   InversionRestores |->
     Plans(SnapshotDiffers \cup RepeatPasses \cup NameLost \cup CopyOfCopy) \X EitherOrder]

NoneKnown == [p \in DOMAIN MCKnown |-> {}]

\* An alteration that is drained with a crash on the way.
Drained == {<<Migration("m1", "alterEmail"), Migration("m2", "createTable")>>}
=============================================================================
