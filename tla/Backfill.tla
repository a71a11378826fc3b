------------------------------ MODULE Backfill ------------------------------
(***************************************************************************)
(* The backfill of one table (pkg/backfill) through the retrying           *)
(* connection (pkg/db), while applications write to the table through the  *)
(* previous and, once Start has returned, through the new version schema.  *)
(*                                                                         *)
(* A column that the migration changes is held twice: `old` is the column  *)
(* of the previous version, `new` the one the migration added.  A value is *)
(* the number of the write it stems from and, in `new`, the `up`           *)
(* expressions it went through.                                            *)
(***************************************************************************)
EXTENDS Integers, Sequences, FiniteSets, SequencesExt

CONSTANTS Keys,       \* keys of rows, in order
          Jobs,       \* the operations of a migration: both kinds can be tried
          Identities, \* the identity column: "text", "integer" or "none"
          Finals,     \* whether the migration's own schema is the one projected
          BatchSize,
          Budget,     \* attempts that fit the lock_timeout retry budget
          FailAt,     \* the phases in which a statement may fail for good
          MaxWrites

ASSUME BackfillAssumption ==
  /\ Keys \subseteq Nat \ {0} /\ IsFiniteSet(Keys)
  /\ BatchSize \in Nat \ {0} /\ Budget \in Nat /\ MaxWrites \in Nat
  /\ FailAt \subseteq {"triggers", "batch", "cancel"}
  /\ Identities \subseteq {"text", "integer", "none"} /\ Finals \subseteq BOOLEAN
  /\ \A j \in Jobs : \A i \in DOMAIN j : j[i].kind \in {"alter", "add"}

VARIABLES rows,     \* the table
          marker,   \* the column _pgroll_needs_backfill_<scope> exists
          triggers, \* the triggers that exist
          pc,       \* the phase of performBackfills
          todo,     \* triggers CreateTriggers has still to create
          cursor,   \* LastValue
          picked,   \* the rows a statement in progress has selected
          tries,    \* lock timeouts of the call in progress
          writes,   \* writes made by applications
          truth,    \* what applications last wrote, row by row: a write through the
                    \* previous version restates the columns it does not have
          overtaken, \* a write reached a row that a statement had selected
          missed,   \* the columns of rows that the backfill will not fill
          setup     \* the case tried; it never changes

\* The history of the cases in which the code leaves a row behind.
history == <<overtaken, missed>>

vars == <<rows, marker, triggers, pc, todo, cursor, picked, tries, writes, truth, history, setup>>

Columns == {setup.ops[i].col : i \in DOMAIN setup.ops}

HasIdentity == setup.identity # "none"

Altered(c) == \E i \in DOMAIN setup.ops : setup.ops[i] = [col |-> c, kind |-> "alter"]

Null == [w |-> -1, ups |-> <<>>]

\* LastValue before it is allocated, and filled with empty strings.
NoValue == -1
EmptyValue == 0

InOrder(positions) == SetToSortSeq(positions, LAMBDA i, j : i < j)

\* What a value of the new column has gone through: every operation on the
\* column, in the order of the migration.
AllUps(c) == InOrder({i \in DOMAIN setup.ops : setup.ops[i].col = c})

\* The operations on a column, as they are added one after the other.
TasksOn(ops, c) == SelectSeq([i \in DOMAIN ops |-> i], LAMBDA i : ops[i].col = c)

\* Mutant: the second operation's SQL replaces the first's.
AddTaskReplacing(c) == <<Max({i \in DOMAIN setup.ops : setup.ops[i].col = c})>>

\* The SQL of a column's `up` trigger.  Triggers are keyed by name: operations
\* on one column share theirs, and the later one's SQL is rewritten to read
\* what the earlier one assigned.
AddTask(c) == TasksOn(setup.ops, c)

JobTriggers == {[dir |-> "up", col |-> c] : c \in Columns}
                 \cup {[dir |-> "down", col |-> c] : c \in {d \in Columns : Altered(d)}}

Up(c, v) == [w |-> v, ups |-> AddTask(c)]

\* The search_path of the session that writes: pgroll's own is the base
\* schema, the previous version's is never the migration's.
IsLatest(via) == via = "new" /\ setup.final

Ups(via) == {c \in Columns : [dir |-> "up", col |-> c] \in triggers /\ ~IsLatest(via)}
Downs(via) == {c \in Columns : [dir |-> "down", col |-> c] \in triggers /\ IsLatest(via)}

\* Mutant: the function leaves the marker alone.
FunctionKeepsMarker(row, via) ==
  [row EXCEPT !.new = [c \in Columns |-> IF c \in Ups(via) THEN Up(c, row.old[c]) ELSE row.new[c]]]

\* The trigger functions, on the row NEW.
Function(row, via) ==
  [old  |-> [c \in Columns |-> IF c \in Downs(via) THEN row.new[c].w ELSE row.old[c]],
   new  |-> [c \in Columns |-> IF c \in Ups(via) THEN Up(c, row.old[c]) ELSE row.new[c]],
   flag |-> row.flag /\ Ups(via) \cup Downs(via) = {}]

Touch(keys, via) == rows' = [k \in DOMAIN rows |->
                               IF k \in keys THEN Function(rows[k], via) ELSE rows[k]]

InitialRow == [old |-> [c \in Columns |-> 0], new |-> [c \in Columns |-> Null], flag |-> FALSE]

Init == /\ setup \in [ops : Jobs, identity : Identities, final : Finals]
        /\ \E present \in SUBSET Keys :
             /\ rows = [k \in present |-> InitialRow]
             /\ truth = [k \in present |-> [c \in Columns |-> 0]]
        /\ marker = FALSE
        /\ triggers = {}
        /\ pc = "triggers"
        /\ todo = JobTriggers
        /\ cursor = NoValue
        /\ picked = {}
        /\ tries = 0
        /\ writes = 0
        /\ overtaken = FALSE
        /\ missed = {}

----------------------------------------------------------------------------
(* CreateTriggers.  The three statements of a trigger run outside the      *)
(* transaction that is opened around them and commit one by one; the order *)
(* of the triggers is that of a Go map.                                    *)

\* ALTER TABLE ... ADD COLUMN IF NOT EXISTS ... DEFAULT true.
AddMarker ==
  /\ pc = "triggers" /\ todo # {} /\ picked = {}
  /\ marker' = TRUE
  /\ rows' = IF marker THEN rows ELSE [k \in DOMAIN rows |-> [rows[k] EXCEPT !.flag = TRUE]]
  /\ picked' \in {{t} : t \in todo}
  /\ tries' = 0
  /\ UNCHANGED <<triggers, pc, todo, cursor, writes, truth, history, setup>>

\* CREATE OR REPLACE FUNCTION, then CREATE OR REPLACE TRIGGER.
CreateTrigger ==
  /\ pc = "triggers" /\ picked # {}
  /\ triggers' = triggers \cup picked
  /\ todo' = todo \ picked
  /\ picked' = {}
  /\ tries' = 0
  /\ UNCHANGED <<rows, marker, pc, cursor, writes, truth, history, setup>>

\* performBackfills goes on whether or not CreateTriggers succeeded: the error
\* of a statement, or of a lock beyond the budget, is dropped.
CreateTriggersReturns ==
  /\ pc = "triggers"
  /\ todo = {} \/ "triggers" \in FailAt
  /\ pc' = "backfill" /\ picked' = {} /\ todo' = {} /\ tries' = 0
  /\ UNCHANGED <<rows, marker, triggers, cursor, writes, truth, history, setup>>

----------------------------------------------------------------------------
(* Backfill.Start: batches, each one retryable transaction.                *)

Flagged == {k \in DOMAIN rows : rows[k].flag}

\* Mutant: a key is skipped between two batches.
AfterNext(k) == k > cursor + 1

\* (key) > (LastValue); the empty string sorts before every key.
After(k) == k > cursor

\* ORDER BY key LIMIT BatchSize.
Batch == LET ahead == {k \in Flagged : After(k)}
         IN  {k \in ahead : Cardinality({j \in ahead : j < k}) < BatchSize}

\* The statement cannot be planned or its literal cannot be read.
Malformed == ~marker \/ (cursor = EmptyValue /\ setup.identity = "integer")

\* pkBatcher.updateBatch.  Which row of the batch is returned last is open.
UpdateBatchByKey ==
  /\ pc = "backfill" /\ HasIdentity /\ ~Malformed /\ Batch # {}
  /\ Touch(Batch, "pgroll")
  /\ cursor' \in Batch
  /\ tries' = 0
  /\ UNCHANGED <<marker, triggers, pc, todo, picked, writes, truth, history, setup>>

\* sql.ErrNoRows ends the loop; Scan has left LastValue as it was.
NoMoreBatches ==
  /\ pc = "backfill" /\ HasIdentity /\ ~Malformed /\ Batch = {}
  /\ pc' = "done" /\ tries' = 0
  /\ UNCHANGED <<rows, marker, triggers, todo, cursor, picked, writes, truth, history, setup>>

\* needsBackfillColumnBatcher: its subquery reads ctids without locking them.
SelectByMarker ==
  /\ pc = "backfill" /\ ~HasIdentity /\ ~Malformed
  /\ picked' \in {s \in SUBSET Flagged :
                    \/ Cardinality(s) = BatchSize
                    \/ s = Flagged /\ Cardinality(s) < BatchSize}
  /\ pc' = "update"
  /\ overtaken' = FALSE
  /\ UNCHANGED <<rows, marker, triggers, todo, cursor, tries, writes, truth, missed, setup>>

\* A row that was updated meanwhile has another ctid and is skipped; when no
\* row is left the batcher returns sql.ErrNoRows, whatever is flagged.
UpdateByMarker ==
  /\ pc = "update"
  /\ Touch(picked, "pgroll")
  /\ pc' = IF picked = {} THEN "done" ELSE "backfill"
  /\ picked' = {} /\ tries' = 0
  /\ missed' = IF picked = {} /\ overtaken THEN missed \cup (Flagged \X Columns) ELSE missed
  /\ UNCHANGED <<marker, triggers, todo, cursor, writes, truth, overtaken, setup>>

\* Backfill.Start returns an error, and performBackfills rolls the migration
\* back: the row count or a batch failed, other than by lock_timeout or beyond
\* the retry budget.
BackfillFails ==
  /\ pc \in {"backfill", "update"}
  /\ Malformed \/ "batch" \in FailAt
  /\ pc' = "failed"
  /\ UNCHANGED <<rows, marker, triggers, todo, cursor, picked, tries, writes, truth, history, setup>>

\* The context ends: by a signal, between two attempts or two batches.
Cancelled ==
  /\ "cancel" \in FailAt /\ pc \in {"triggers", "backfill", "update"}
  /\ pc' = "cancelled"
  /\ UNCHANGED <<rows, marker, triggers, todo, cursor, picked, tries, writes, truth, history, setup>>

----------------------------------------------------------------------------
(* RDB.  A statement or transaction that ends with lock_timeout has        *)
(* changed nothing and is run again while the budget lasts.                *)

\* LastValue is allocated before the query runs and survives the attempt.
LastValueAfterAttempt == IF cursor = NoValue THEN EmptyValue ELSE cursor

LockTimeout ==
  /\ \/ pc = "triggers" /\ todo # {} /\ cursor' = cursor
     \/ pc = "backfill" /\ HasIdentity /\ ~Malformed /\ cursor' = LastValueAfterAttempt
     \/ pc = "backfill" /\ ~HasIdentity /\ ~Malformed /\ cursor' = cursor
  /\ tries < Budget
  /\ tries' = tries + 1
  /\ UNCHANGED <<rows, marker, triggers, pc, todo, picked, writes, truth, history, setup>>

----------------------------------------------------------------------------
(* Applications.  The fleet moves to the new version once Start returned.  *)

Writers == IF pc = "done" THEN {"old", "new"} ELSE {"old"}

WriteRow(row, c, via) ==
  IF via = "old" THEN Function([row EXCEPT !.old[c] = writes + 1], via)
  ELSE Function([row EXCEPT !.new[c] = [w |-> writes + 1, ups |-> AllUps(c)]], via)

\* A column that only the new version has is what its `up` says of the row the
\* previous version wrote, whatever the new version had put there.
Written(k, c, via) ==
  [d \in Columns |-> IF d = c THEN writes + 1
                     ELSE IF via = "old" /\ ~Altered(d) THEN rows[k].old[d]
                     ELSE truth[k][d]]

CanWrite == pc \notin {"failed", "cancelled"} /\ writes < MaxWrites

\* A write clears the marker of its row for all columns, also for those that
\* have no trigger yet: they stay unfilled until they are written again.
MissedBy(k, cols, via) ==
  LET filled == IF via = "new" THEN cols ELSE cols \cap Ups(via)
      passed == IF via = "new" \/ Ups(via) = {} THEN {} ELSE Columns \ Ups(via)
  IN  (missed \ ({k} \X filled)) \cup ({k} \X passed)

AppUpdate ==
  /\ CanWrite
  /\ \E k \in DOMAIN rows, c \in Columns, via \in Writers :
       /\ via = "new" => Altered(c)
       /\ rows' = [rows EXCEPT ![k] = WriteRow(rows[k], c, via)]
       /\ truth' = [truth EXCEPT ![k] = Written(k, c, via)]
       /\ picked' = IF pc = "update" THEN picked \ {k} ELSE picked
       /\ overtaken' = (overtaken \/ (pc = "update" /\ k \in picked))
       /\ missed' = MissedBy(k, {c}, via)
  /\ writes' = writes + 1
  /\ UNCHANGED <<marker, triggers, pc, todo, cursor, tries, setup>>

\* A row inserted while the marker column exists is flagged by its default.
NewRow(via) ==
  LET base == [InitialRow EXCEPT !.flag = marker]
  IN  IF via = "old" THEN [base EXCEPT !.old = [c \in Columns |-> writes + 1]]
      ELSE [base EXCEPT !.new = [c \in Columns |-> [w |-> writes + 1, ups |-> AllUps(c)]]]

AppInsert ==
  /\ CanWrite
  /\ \E k \in Keys \ DOMAIN rows, via \in Writers :
       /\ rows' = [j \in DOMAIN rows \cup {k} |->
                     IF j = k THEN Function(NewRow(via), via) ELSE rows[j]]
       /\ truth' = [j \in DOMAIN rows \cup {k} |->
                      IF j = k THEN [c \in Columns |-> writes + 1] ELSE truth[j]]
       /\ missed' = MissedBy(k, Columns, via)
  /\ writes' = writes + 1
  /\ UNCHANGED <<marker, triggers, pc, todo, cursor, picked, tries, overtaken, setup>>

Pgroll == \/ AddMarker \/ CreateTrigger \/ CreateTriggersReturns
          \/ UpdateBatchByKey \/ NoMoreBatches \/ SelectByMarker \/ UpdateByMarker
          \/ BackfillFails

Next == Pgroll \/ Cancelled \/ LockTimeout \/ AppUpdate \/ AppInsert

Spec == Init /\ [][Next]_vars /\ WF_vars(Pgroll)

----------------------------------------------------------------------------
\* Adding the operations one after the other leaves each column its own, in
\* the order of the migration.
TasksInOrder(ops) ==
  \A c \in {ops[i].col : i \in DOMAIN ops} :
    TasksOn(ops, c) = InOrder({i \in DOMAIN ops : ops[i].col = c})

InSync(k, c) ==
  /\ rows[k].new[c] = [w |-> truth[k][c], ups |-> AllUps(c)]
  /\ Altered(c) => rows[k].old[c] = truth[k][c]

UpTrigger(c) == [dir |-> "up", col |-> c]

\* CreateTriggers got as far as this column's triggers.
Served(c) == {t \in JobTriggers : t.col = c} \subseteq triggers

\* Once the backfill has ended, every row holds what the applications last
\* wrote to it, in the column of each version, through every `up` expression
\* of the migration, whichever version wrote it and whenever, between two
\* statements or during one.  The code breaks this in three cases, which are
\* excused by name: a column whose triggers were not all created, since
\* performBackfills drops that error (~Served); a row last written after
\* another column's trigger and before the column's own, and, on a table
\* without a key, the rows still flagged when a write overtook every row of a
\* statement (both missed).  A fourth is a run of its own: a migration that is
\* not the last of its train (~setup.final).
WritesPropagate ==
  pc = "done" => \A k \in DOMAIN rows, c \in Columns :
                   Served(c) /\ <<k, c>> \notin missed => InSync(k, c)

\* While the backfill runs, the previous version reads what it wrote, and a
\* column of a row that the batches will not visit any more is filled: none is
\* skipped for good by the marker, the cursor, a retry or an overlapping write.
\* A row that was last written after another column's trigger and before the
\* column's own is skipped (missed), and so is a column without a trigger.
NoRowLeftBehind ==
  pc \in {"backfill", "update"} =>
    \A k \in DOMAIN rows, c \in Columns :
      /\ rows[k].old[c] = truth[k][c]
      /\ UpTrigger(c) \in triggers /\ <<k, c>> \notin missed =>
           \/ rows[k].new[c] = Up(c, rows[k].old[c])
           \/ rows[k].flag /\ (HasIdentity => After(k))

\* The keyless batcher sets the marker to true, and no trigger clears it.
Endless == pc \in {"backfill", "update"} /\ ~HasIdentity
             /\ \A c \in Columns : UpTrigger(c) \notin triggers

\* The backfill ends: writes and overlapping writes do not keep the batches of
\* a table without a key from running out of flagged rows.  Only where the
\* dropped error of CreateTriggers left no trigger do they go on for ever.
BackfillEnds == <>(pc \in {"done", "failed", "cancelled"} \/ Endless)

=============================================================================
