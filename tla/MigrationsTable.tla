-------------------------- MODULE MigrationsTable --------------------------
(***************************************************************************)
(* The table pgroll.migrations of one schema (pkg/state/init.sql), the     *)
(* queries pkg/state runs on it and the effect of each of its statements,  *)
(* as operators on a table value t: a function from the names of the       *)
(* recorded migrations to their rows.  A name is a positive number, so     *)
(* that "sorts after" is ">"; NoName stands for SQL's NULL.                *)
(***************************************************************************)
EXTENDS Naturals, Functions

CONSTANTS Names,        \* the migration names
          Timestamps    \* the values created_at can take

ASSUME NamesAssumption == Names \subseteq Nat \ {0}
ASSUME TimestampsAssumption == Timestamps \subseteq Nat

NoName == 0

Types == {"pgroll", "inferred", "baseline"}

Row == [parent   : Names \cup {NoName},
        done     : BOOLEAN,
        deferred : BOOLEAN,      \* complete_deferred
        sealed   : BOOLEAN,
        type     : Types,        \* migration_type
        created  : Timestamps]   \* created_at

IsTable(t) == /\ DOMAIN t \subseteq Names
              /\ t \in [DOMAIN t -> Row]

EmptyTable == [n \in {} |-> [parent |-> NoName]]

----------------------------------------------------------------------------
(* Queries.                                                                *)

HasChild(t, n) == \E c \in DOMAIN t : t[c].parent = n

Leaves(t) == {n \in DOMAIN t : ~HasChild(t, n)}

\* latest_migration(): the row that is nobody's parent.
LatestMigration(t) == IF Leaves(t) = {} THEN NoName
                      ELSE CHOOSE n \in Leaves(t) : TRUE

ActiveMigrations(t) == {n \in DOMAIN t : ~t[n].done}

IsActiveMigrationPeriod(t) == ActiveMigrations(t) # {}

DeferredCompletes(t) == {n \in DOMAIN t : t[n].deferred}

HasSealedDeferred(t) == \E n \in DOMAIN t : t[n].deferred /\ t[n].sealed

\* Mutant: every row counts as unsealed.
UnsealedMigrationsAll(t) == DOMAIN t

UnsealedMigrations(t) == {n \in DOMAIN t : ~t[n].sealed}

Baselines(t) == {n \in DOMAIN t : t[n].type = "baseline"}

LatestBaseline(t) ==
  IF Baselines(t) = {} THEN NoName
  ELSE CHOOSE b \in Baselines(t) :
         \A k \in Baselines(t) : t[k].created <= t[b].created

\* The rows after the latest baseline, without the inferred ones.
SchemaHistory(t) ==
  {n \in DOMAIN t : /\ t[n].type # "inferred"
                    /\ \A b \in Baselines(t) : t[b].created < t[n].created}

\* CURRENT_TIMESTAMP at an insert: later than every row of the table.
Later(t) == {ts \in Timestamps : \A n \in DOMAIN t : t[n].created < ts}

----------------------------------------------------------------------------
(* Constraints.  The primary key is the function itself.                   *)

ParentForeignKey(t) ==
  \A n \in DOMAIN t : t[n].parent # NoName => t[n].parent \in DOMAIN t

OnlyOneActive(t) ==
  \A m, n \in DOMAIN t : ~t[m].done /\ ~t[n].done => m = n

OnlyFirstMigrationWithoutParent(t) ==
  \A m, n \in DOMAIN t : t[m].parent = NoName /\ t[n].parent = NoName => m = n

HistoryIsLinear(t) ==
  \A m, n \in DOMAIN t :
    t[m].parent = t[n].parent /\ t[m].parent # NoName => m = n

\* Mutant: a parent may have two children.
ConstraintsForked(t) == ParentForeignKey(t) /\ OnlyOneActive(t)

\* Mutant: the partial index on active rows is missing.
ConstraintsManyActive(t) ==
  ParentForeignKey(t) /\ OnlyFirstMigrationWithoutParent(t) /\ HistoryIsLinear(t)

Constraints(t) == /\ ParentForeignKey(t)
                  /\ OnlyOneActive(t)
                  /\ OnlyFirstMigrationWithoutParent(t)
                  /\ HistoryIsLinear(t)

----------------------------------------------------------------------------
(* Statements.                                                             *)

Inserted(t, n, row) ==
  [k \in DOMAIN t \cup {n} |-> IF k = n THEN row ELSE t[k]]

\* INSERT of State.Start: the row of a migration that begins.
StartedRow(parent, ts) ==
  [parent |-> parent, done |-> FALSE, deferred |-> FALSE, sealed |-> FALSE,
   type |-> "pgroll", created |-> ts]

\* Mutant: created_at is left at the epoch.
StampedRowEpoch(parent, type, ts) ==
  [parent |-> parent, done |-> TRUE, deferred |-> FALSE, sealed |-> TRUE,
   type |-> type, created |-> 0]

\* INSERT of State.Stamp and State.CreateBaseline: recorded as applied.
StampedRow(parent, type, ts) ==
  [parent |-> parent, done |-> TRUE, deferred |-> FALSE, sealed |-> TRUE,
   type |-> type, created |-> ts]

Completed(t, n) == [t EXCEPT ![n].done = TRUE]

MarkedDeferred(t, n) == [t EXCEPT ![n].done = TRUE, ![n].deferred = TRUE]

DeferredCleared(t, n) == [t EXCEPT ![n].deferred = FALSE]

\* Mutant: the active row is sealed, too.
MarkedSealedAll(t) == [n \in DOMAIN t |-> [t[n] EXCEPT !.sealed = TRUE]]

\* Mutant: only queued rows are sealed.
MarkedSealedQueued(t) ==
  [n \in DOMAIN t |-> [t[n] EXCEPT !.sealed = t[n].sealed \/ t[n].deferred]]

MarkedSealed(t) ==
  [n \in DOMAIN t |-> [t[n] EXCEPT !.sealed = t[n].sealed \/ t[n].done]]

Deleted(t, n) == Restrict(t, DOMAIN t \ {n})

\* Prune's LAG(name) OVER (ORDER BY created_at) on the rows it keeps.
IsLag(t, p, n) ==
  /\ p \in DOMAIN t
  /\ t[p].created < t[n].created
  /\ \A k \in DOMAIN t : t[k].created < t[n].created
                           => t[k].created <= t[p].created

Lag(t, n) == IF \E k \in DOMAIN t : t[k].created < t[n].created
             THEN CHOOSE p \in DOMAIN t : IsLag(t, p, n)
             ELSE NoName

Rewired(t) == [n \in DOMAIN t |-> [t[n] EXCEPT !.parent = Lag(t, n)]]

\* Mutant: the parents are not rewired.
KeepersUnwired(t, names) == Restrict(t, DOMAIN t \ names)

\* Mutant: the copy leaves out the column sealed.
KeepersUnsealed(t, names) ==
  LET kept == Rewired(Restrict(t, DOMAIN t \ names))
  IN  [n \in DOMAIN kept |-> [kept[n] EXCEPT !.sealed = FALSE]]

Keepers(t, names) == Rewired(Restrict(t, DOMAIN t \ names))

\* Mutant: creation order and name order need not agree.
RebaselineAuditUnordered(t, n) ==
  /\ n \in DOMAIN t
  /\ t[n].type = "pgroll"
  /\ t[n].done /\ t[n].sealed /\ ~t[n].deferred
  /\ ~IsActiveMigrationPeriod(t)

\* The audits of ConvertMigrationToBaseline for the anchor n.
RebaselineAudit(t, n) ==
  /\ n \in DOMAIN t
  /\ t[n].type = "pgroll"
  /\ t[n].done /\ t[n].sealed /\ ~t[n].deferred
  /\ ~IsActiveMigrationPeriod(t)
  /\ \A k \in DOMAIN t \ {n} : t[k].created <= t[n].created
                                 => t[k].sealed /\ ~t[k].deferred
  /\ \A b \in Baselines(t) : t[b].created < t[n].created
  /\ \A k \in DOMAIN t \ {n} :
       t[k].type # "inferred" =>
         (t[k].created <= t[n].created <=> k < n)

ConvertedToBaseline(t, n) == [t EXCEPT ![n].type = "baseline"]

----------------------------------------------------------------------------
(* What readers of the table rely on.  Chain order: created_at is distinct *)
(* in every row and each row's parent is the row created just before it.   *)

DistinctTimes(t) ==
  \A m, n \in DOMAIN t : t[m].created = t[n].created => m = n

FollowsPredecessor(t) ==
  \A n \in DOMAIN t :
    IF t[n].parent = NoName
    THEN \A k \in DOMAIN t : t[n].created <= t[k].created
    ELSE IsLag(t, t[n].parent, n)

InChainOrder(t) == DistinctTimes(t) /\ FollowsPredecessor(t)

\* At most one row is active, and none is sealed or queued before it is done.
RowsConsistent(t) ==
  /\ OnlyOneActive(t)
  /\ \A n \in DOMAIN t : t[n].sealed \/ t[n].deferred => t[n].done
=============================================================================
