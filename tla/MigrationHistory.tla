-------------------------- MODULE MigrationHistory --------------------------
(***************************************************************************)
(* The migration history as pkg/state and its callers in pkg/roll change   *)
(* it: every SQL statement is one atomic step, and an operation that reads *)
(* before it writes (roll.Start, CreateBaseline, Stamp, Prune, Rebaseline) *)
(* keeps what it read in op[p] until it writes, so that the statements of  *)
(* two pgroll processes interleave.  A process that stops between two of   *)
(* its statements leaves the table as it is (Stop).                        *)
(***************************************************************************)
EXTENDS MigrationsTable

CONSTANTS Procs,         \* the pgroll processes
          Admins,        \* those of them that may rewrite history: baseline,
                         \* stamp, prune, rebaseline (the others deploy)
          StampTypes,    \* the types `pgroll stamp` is asked for
          BaselineFiles  \* the names whose file is marked `baseline: true`

ASSUME StampAssumption == StampTypes \subseteq Types /\ BaselineFiles \subseteq Names

VARIABLES migrations,   \* the table pgroll.migrations
          op,           \* what each process has read and not yet acted on
          copy          \* Prune's temporary table of the rows to keep

vars == <<migrations, op, copy>>

Idle == [at |-> "idle", names |-> {}, parent |-> NoName, type |-> "pgroll"]

Reading(at, names) == [Idle EXCEPT !.at = at, !.names = names]

\* The rows rebaseline holds FOR UPDATE between its audit and its commit.
Locked == UNION {op[p].names : p \in {q \in Procs : op[q].at = "rebaseline"}}

Init == /\ migrations = EmptyTable
        /\ op = [p \in Procs |-> Idle]
        /\ copy = [p \in Procs |-> EmptyTable]

----------------------------------------------------------------------------
(* Single statements of pkg/state, issued by a process that has nothing    *)
(* pending here (the deployment commands interleave them with DDL).        *)

Complete(p, n) ==
  /\ op[p].at = "idle"
  /\ n \in ActiveMigrations(migrations)
  /\ migrations' = Completed(migrations, n)
  /\ UNCHANGED <<op, copy>>

MarkCompleteDeferred(p, n) ==
  /\ op[p].at = "idle"
  /\ n \in ActiveMigrations(migrations)
  /\ migrations' = MarkedDeferred(migrations, n)
  /\ UNCHANGED <<op, copy>>

ClearCompleteDeferred(p, n) ==
  /\ op[p].at = "idle"
  /\ n \in DeferredCompletes(migrations)
  /\ migrations' = DeferredCleared(migrations, n)
  /\ UNCHANGED <<op, copy>>

MarkSealed(p) ==
  /\ op[p].at = "idle"
  /\ \E n \in UnsealedMigrations(migrations) : migrations[n].done
  /\ migrations' = MarkedSealed(migrations)
  /\ UNCHANGED <<op, copy>>

\* The parent foreign key refuses the DELETE of a row that has a child.
Rollback(p, n) ==
  /\ op[p].at = "idle"
  /\ n \in ActiveMigrations(migrations)
  /\ ~HasChild(migrations, n)
  /\ migrations' = Deleted(migrations, n)
  /\ UNCHANGED <<op, copy>>

DeleteMigration(p, n) ==
  /\ op[p].at = "idle"
  /\ n \in DOMAIN migrations \ Locked
  /\ ~HasChild(migrations, n)
  /\ migrations' = Deleted(migrations, n)
  /\ UNCHANGED <<op, copy>>

----------------------------------------------------------------------------
(* roll.Start: look for an active migration, then insert.                  *)

StartBegin(p, n) ==
  /\ op[p].at = "idle"
  /\ ~IsActiveMigrationPeriod(migrations)
  /\ op' = [op EXCEPT ![p] = Reading("start", {n})]
  /\ UNCHANGED <<migrations, copy>>

\* An INSERT that a key or an index refuses leaves the table as it is.
InsertOrFail(n, row) ==
  LET new == Inserted(migrations, n, row)
  IN  IF n \notin DOMAIN migrations /\ Constraints(new)
      THEN migrations' = new
      ELSE UNCHANGED migrations

Start(p) ==
  /\ op[p].at = "start"
  /\ \E n \in op[p].names, ts \in Later(migrations) :
       InsertOrFail(n, StartedRow(LatestMigration(migrations), ts))
  /\ op' = [op EXCEPT ![p] = Idle]
  /\ UNCHANGED copy

----------------------------------------------------------------------------
(* CreateBaseline: look for an active migration, then insert.              *)

BaselineBegin(p, n) ==
  /\ p \in Admins
  /\ op[p].at = "idle"
  /\ ~IsActiveMigrationPeriod(migrations)
  /\ op' = [op EXCEPT ![p] = Reading("baseline", {n})]
  /\ UNCHANGED <<migrations, copy>>

CreateBaseline(p) ==
  /\ op[p].at = "baseline"
  /\ \E n \in op[p].names, ts \in Later(migrations) :
       InsertOrFail(n, StampedRow(LatestMigration(migrations), "baseline", ts))
  /\ op' = [op EXCEPT ![p] = Idle]
  /\ UNCHANGED copy

----------------------------------------------------------------------------
(* roll.Stamp: look for an active migration, skip recorded names, read the *)
(* leaf, then insert the rest in name order, each on top of the previous.  *)

\* Mutant: a migration in progress is not refused.
StampBeginAnytime(p, names, type) ==
  /\ p \in Admins
  /\ op[p].at = "idle"
  /\ names \ DOMAIN migrations # {}
  /\ op' = [op EXCEPT ![p] =
              [Reading("stamp", names \ DOMAIN migrations) EXCEPT
                 !.parent = LatestMigration(migrations), !.type = type]]
  /\ UNCHANGED <<migrations, copy>>

StampBegin(p, names, type) ==
  /\ p \in Admins
  /\ op[p].at = "idle"
  /\ ~IsActiveMigrationPeriod(migrations)
  /\ names \ DOMAIN migrations # {}
  /\ op' = [op EXCEPT ![p] =
              [Reading("stamp", names \ DOMAIN migrations) EXCEPT
                 !.parent = LatestMigration(migrations), !.type = type]]
  /\ UNCHANGED <<migrations, copy>>

First(names) == CHOOSE n \in names : \A k \in names : n <= k

\* A parent that was not read (empty history) is resolved by the INSERT; a
\* file marked as a baseline is stamped as one, whatever the type asked for.
Stamp(p) ==
  /\ op[p].at = "stamp"
  /\ \E ts \in Later(migrations) :
       LET n      == First(op[p].names)
           type   == IF n \in BaselineFiles THEN "baseline" ELSE op[p].type
           parent == IF op[p].parent = NoName THEN LatestMigration(migrations)
                     ELSE op[p].parent
           new    == Inserted(migrations, n, StampedRow(parent, type, ts))
       IN  \/ /\ n \notin DOMAIN migrations /\ Constraints(new)
              /\ migrations' = new
              /\ op' = [op EXCEPT ![p] =
                   IF op[p].names = {n} THEN Idle
                   ELSE [op[p] EXCEPT !.names = @ \ {n}, !.parent = n]]
           \/ /\ n \in DOMAIN migrations \/ ~Constraints(new)
              /\ op' = [op EXCEPT ![p] = Idle]
              /\ UNCHANGED migrations
  /\ UNCHANGED copy

----------------------------------------------------------------------------
(* roll.Prune: validate the targets; then one transaction counts the names *)
(* and copies the other rows, and swaps the whole history for the copy.    *)
(* The transaction is READ COMMITTED: its DELETE sees rows that were       *)
(* committed after the copy was made.                                      *)

PruneBegin(p, names) ==
  /\ p \in Admins
  /\ op[p].at = "idle"
  /\ names # {} /\ names \subseteq DOMAIN migrations
  /\ ~IsActiveMigrationPeriod(migrations)
  /\ names \cap Baselines(migrations) = {}
  /\ op' = [op EXCEPT ![p] = Reading("prune", names)]
  /\ UNCHANGED <<migrations, copy>>

PruneCopy(p) ==
  /\ op[p].at = "prune"
  /\ \/ /\ op[p].names \subseteq DOMAIN migrations
        /\ op' = [op EXCEPT ![p].at = "swap"]
        /\ copy' = [copy EXCEPT ![p] = Keepers(migrations, op[p].names)]
     \/ /\ ~(op[p].names \subseteq DOMAIN migrations)
        /\ op' = [op EXCEPT ![p] = Idle]
        /\ UNCHANGED copy
  /\ UNCHANGED migrations

PruneSwap(p) ==
  /\ op[p].at = "swap"
  /\ Locked = {}
  /\ migrations' = copy[p]
  /\ op' = [op EXCEPT ![p] = Idle]
  /\ copy' = [copy EXCEPT ![p] = EmptyTable]

----------------------------------------------------------------------------
(* roll.Rebaseline: unless the database's baseline sorts at or after the   *)
(* anchor, audit the history and convert the anchor's row in place.        *)

RebaselineBegin(p, n) ==
  /\ p \in Admins
  /\ op[p].at = "idle"
  /\ LatestBaseline(migrations) < n
  /\ RebaselineAudit(migrations, n)
  /\ op' = [op EXCEPT ![p] = Reading("rebaseline", {n})]
  /\ UNCHANGED <<migrations, copy>>

ConvertMigrationToBaseline(p) ==
  /\ op[p].at = "rebaseline"
  /\ \E n \in op[p].names : migrations' = ConvertedToBaseline(migrations, n)
  /\ op' = [op EXCEPT ![p] = Idle]
  /\ UNCHANGED copy

----------------------------------------------------------------------------
\* A process dies, or its next statement fails, between two statements.
Stop(p) ==
  /\ op[p].at # "idle"
  /\ op' = [op EXCEPT ![p] = Idle]
  /\ copy' = [copy EXCEPT ![p] = EmptyTable]
  /\ UNCHANGED migrations

Next ==
  \E p \in Procs :
    \/ \E n \in Names : \/ Complete(p, n)
                        \/ MarkCompleteDeferred(p, n)
                        \/ ClearCompleteDeferred(p, n)
                        \/ Rollback(p, n)
                        \/ DeleteMigration(p, n)
                        \/ StartBegin(p, n)
                        \/ BaselineBegin(p, n)
                        \/ RebaselineBegin(p, n)
    \/ \E names \in SUBSET Names : \/ PruneBegin(p, names)
                                   \/ \E type \in StampTypes : StampBegin(p, names, type)
    \/ MarkSealed(p)
    \/ Start(p)
    \/ CreateBaseline(p)
    \/ Stamp(p)
    \/ PruneCopy(p)
    \/ PruneSwap(p)
    \/ ConvertMigrationToBaseline(p)
    \/ Stop(p)

Spec == Init /\ [][Next]_vars

----------------------------------------------------------------------------
Stages == {"idle", "start", "baseline", "stamp", "prune", "swap", "rebaseline"}

Operation == [at     : Stages,
              names  : SUBSET Names,
              parent : Names \cup {NoName},
              type   : Types]

TypeOK == /\ IsTable(migrations)
          /\ op \in [Procs -> Operation]
          /\ DOMAIN copy = Procs
          /\ \A p \in Procs : IsTable(copy[p])

(***************************************************************************)
(* Chain order.  Created_at is distinct in every row and each row's parent *)
(* is the row created just before it: the parent chain, the order of       *)
(* created_at and the one leaf latest_migration() returns agree.           *)
(* DeferredCompletes, UnsealedMigrations, SchemaHistory and Prune order by *)
(* created_at and rely on it; latest_migration() relies on the one leaf.   *)
(***************************************************************************)
LinearHistory == InChainOrder(migrations)

(***************************************************************************)
(* At most one row is not done, also when two processes both saw none      *)
(* (only_one_active of init.sql), and no row is sealed or has its contract *)
(* DDL queued before it is done: an active migration is never past the     *)
(* point of no return.                                                     *)
(***************************************************************************)
SingleActive == RowsConsistent(migrations)

(***************************************************************************)
(* The active migration is the leaf, the row Rollback and revert remove.   *)
(* With one pgroll process at a time: baseline and stamp look for an       *)
(* active migration before they insert, and a Start in between gets a      *)
(* child.                                                                  *)
(***************************************************************************)
ActiveIsLeaf == \A n \in ActiveMigrations(migrations) : ~HasChild(migrations, n)

(***************************************************************************)
(* Prune deletes the named migrations: every other row survives with the   *)
(* flags it had.  With one pgroll process at a time: Prune copies the rows *)
(* it keeps before it deletes all of them, and what another process writes *)
(* in between is lost.                                                     *)
(***************************************************************************)
SameButParent(r, s) == [r EXCEPT !.parent = NoName] = [s EXCEPT !.parent = NoName]

PruneExact ==
  [][\A p \in Procs :
       op[p].at = "swap" /\ migrations' # migrations /\ op'[p].at = "idle" =>
         /\ DOMAIN migrations' = DOMAIN migrations \ op[p].names
         /\ \A n \in DOMAIN migrations' :
              SameButParent(migrations[n], migrations'[n])]_vars

(***************************************************************************)
(* Rebaselining cannot change what `pgroll migrate` would do with a        *)
(* directory truncated at the anchor (ConvertMigrationToBaseline's safety  *)
(* contract): the files still to be applied, and the recorded migrations   *)
(* that no file backs, are the same before and after the conversion.       *)
(***************************************************************************)
Unapplied(t, files) == {f \in files : f > LatestBaseline(t)} \ SchemaHistory(t)

Unbacked(t, files) == SchemaHistory(t) \ {f \in files : f > LatestBaseline(t)}

RebaselineKeepsPlan ==
  [][\A n \in DOMAIN migrations \cap DOMAIN migrations' :
       migrations[n].type # "baseline" /\ migrations'[n].type = "baseline" =>
         LET After == {k \in Names : k > n}
         IN  \A files \in SUBSET After :
               /\ Unapplied(migrations', files \cup {n}) =
                    Unapplied(migrations, files \cup {n})
               /\ Unbacked(migrations', files \cup {n}) =
                    Unbacked(migrations, files \cup {n}) \ {k \in Names : k < n}]_vars
=============================================================================
