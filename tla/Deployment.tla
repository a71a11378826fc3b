----------------------------- MODULE Deployment -----------------------------
(***************************************************************************)
(* The life of a deployment: `pgroll migrate` applies a train of           *)
(* migrations, `pgroll complete` contracts it, `pgroll rollback` and       *)
(* `pgroll revert` take it back (cmd/ and pkg/roll).  Every statement that *)
(* changes the database is one step of a pgroll process; a process may     *)
(* die, or fail, before any step listed in CrashAt.  The physical schema   *)
(* is abstracted to the phase each migration's DDL has reached.            *)
(***************************************************************************)
EXTENDS MigrationsTable

CONSTANTS Procs,           \* pgroll processes
          Destructive,     \* CompleteMustBeDeferred
          OnCompleteSQL,   \* CompleteRequiresLiveSchemaDrop
          RawSQL,          \* a raw SQL operation: RequiresSchemaRefresh
          Backfilled,      \* migrations that backfill rows
          Irreversible,    \* migrations marked `irreversible`
          Modes,           \* whether version schemas are used: both can be tried
          Verbs,           \* the commands the operator uses
          Careful,         \* the operator finishes what was interrupted
          CrashAt,         \* the steps before which a process may stop
          TriggerErrors    \* CreateTriggers may fail while its process lives on

ASSUME ClassAssumption ==
  /\ OnCompleteSQL \subseteq Destructive /\ Destructive \subseteq Names
  /\ OnCompleteSQL \subseteq RawSQL /\ RawSQL \subseteq Names
  /\ Backfilled \subseteq Names /\ Irreversible \subseteq Names
  /\ Modes \subseteq BOOLEAN /\ Careful \in BOOLEAN /\ TriggerErrors \in BOOLEAN

VARIABLES migrations,   \* the table pgroll.migrations
          snapshot,     \* its column resulting_schema
          phys,         \* the phase of each migration's DDL
          marker,       \* migrations with rows flagged _pgroll_needs_backfill
          schemas,      \* migrations whose version schema exists
          fleet,        \* the version schema the applications use
          proc,         \* the pgroll processes
          versionSchemas  \* UseVersionSchema(); it never changes

vars == <<migrations, snapshot, phys, marker, schemas, fleet, proc, versionSchemas>>

db == <<migrations, snapshot, phys, marker, schemas>>

env == <<fleet, versionSchemas>>

\* "expanded": Start's DDL ran; "filling": the triggers write both versions,
\* too; "ready": and the backfill has ended.  "damaged": no phase of the
\* migration looks like this.
Phases == {"absent", "expanding", "expanded", "filling", "ready", "contracting",
           "contracted", "damaged"}

Materialized == {"ready", "contracting", "contracted"}

Steps == {"start", "insert", "ops", "views", "triggers", "backfill", "active", "defer",
          "dropOld", "queue", "seal", "dropLive", "drain", "clear", "refresh",
          "reproject", "own", "done", "reseal", "stamp", "cleanup",
          "dropVersion", "undo", "delete", "leaf"}

NoQueue == [n \in {} |-> 0]

Idle == [at |-> "idle", verb |-> "none", cur |-> NoName, todo |-> {},
         converge |-> FALSE, queue |-> NoQueue, dropLive |-> FALSE,
         applied |-> {}]

Init == /\ migrations = EmptyTable
        /\ phys = [n \in Names |-> "absent"]
        /\ snapshot = [n \in Names |-> phys]
        /\ marker = {}
        /\ schemas = {}
        /\ fleet = NoName
        /\ proc = [p \in Procs |-> Idle]
        /\ versionSchemas \in Modes

----------------------------------------------------------------------------
(* Control.                                                                *)

At(p, step) == proc[p].at = step

Become(p, state) == proc' = [proc EXCEPT ![p] = state]

Goto(p, step) == Become(p, [proc[p] EXCEPT !.at = step])

Return(p) == Become(p, Idle)

AllIdle == \A p \in Procs : At(p, "idle")

\* A train is applied in name order; its last migration alone projects a
\* version schema and stays active.
First(names) == CHOOSE n \in names : \A k \in names : n <= k
Intermediate(p) == proc[p].todo # {} /\ proc[p].todo # {First(proc[p].todo)}

\* The order of DeferredCompletes and, backwards, of the revert walk.
ByCreation(names) == [n \in names |-> migrations[n].created]
Newest(queue) == CHOOSE n \in DOMAIN queue : \A k \in DOMAIN queue : queue[k] <= queue[n]
Oldest(queue) == CHOOSE n \in DOMAIN queue : \A k \in DOMAIN queue : queue[n] <= queue[k]

\* The next migration of the train, or the end of the command.
NextMigration(p) ==
  LET rest == proc[p].todo \ {First(proc[p].todo)}
  IN  IF Intermediate(p)
      THEN Become(p, [proc[p] EXCEPT !.at = "start", !.cur = First(rest), !.todo = rest])
      ELSE Return(p)

\* runMigration, once Start has returned.
AfterStart(p) == IF Intermediate(p) \/ proc[p].converge THEN Goto(p, "active") ELSE Return(p)

\* Mutant: the backfill is skipped.
AfterViewsUnfilled(p) == AfterStart(p)

AfterViews(p) == IF proc[p].cur \in Backfilled THEN Goto(p, "triggers") ELSE AfterStart(p)

----------------------------------------------------------------------------
(* Commands.  The fleet moves between commands, to a schema whose expand   *)
(* is finished: to the newest one before `pgroll complete`, off what is    *)
(* about to be undone before rollback and revert.  It may also be stopped. *)

Free(p, verb) == At(p, "idle") /\ verb \in Verbs

\* A careful operator re-runs an interrupted revert before anything else and
\* an interrupted complete before the next migrate, and completes only a
\* migration whose own migrate returned without an error: what a later migrate
\* says of one that was killed (ExpandComplete) is not relied on.
Settled == \A n \in DOMAIN migrations : migrations[n].done => phys[n] \in Materialized

FleetAtNewest ==
  fleet \in schemas \cap DOMAIN migrations =>
    \A s \in schemas \cap DOMAIN migrations :
      migrations[s].created <= migrations[fleet].created

Repin(s) ==
  /\ AllIdle
  /\ s # fleet
  /\ s # NoName => s \in schemas /\ phys[s] \in Materialized
  /\ fleet' = s
  /\ UNCHANGED <<db, proc, versionSchemas>>

\* Mutant: the pending backfill is not probed.
ExpandCompleteUnprobed(n) == n \in schemas

\* printMigratePreFlight: the active migration's expand has materialized.
ExpandComplete(n) == n \in schemas /\ n \notin marker

\* migrate with something to apply; `--complete` is for databases no
\* application is pinned to.
MigrateBegin(p, names, converge) ==
  /\ Free(p, "migrate")
  /\ ~IsActiveMigrationPeriod(migrations)
  /\ names # {} /\ names \cap DOMAIN migrations = {}
  /\ Careful => Settled /\ ~HasSealedDeferred(migrations)
  /\ converge => fleet = NoName
  /\ Become(p, [Idle EXCEPT !.at = "start", !.verb = "migrate",
                            !.cur = First(names), !.todo = names,
                            !.converge = converge])
  /\ UNCHANGED <<db, env>>

\* migrate --complete over a migration that awaits its Complete.
MigrateAwaiting(p, n) ==
  /\ Free(p, "migrate")
  /\ n \in ActiveMigrations(migrations)
  /\ \A q \in Procs \ {p} : At(q, "idle")
  /\ ExpandComplete(n)
  /\ fleet = NoName
  /\ Careful => Settled /\ phys[n] \in Materialized
  /\ Become(p, [Idle EXCEPT !.at = "active", !.verb = "complete"])
  /\ UNCHANGED <<db, env>>

\* complete, with an active migration.
CompleteBegin(p, n) ==
  /\ Free(p, "complete")
  /\ n \in ActiveMigrations(migrations)
  /\ Careful => /\ Settled /\ phys[n] \in Materialized
                /\ versionSchemas /\ ~HasSealedDeferred(migrations) => ExpandComplete(n)
  /\ FleetAtNewest
  /\ Become(p, [Idle EXCEPT !.at = "active", !.verb = "complete"])
  /\ UNCHANGED <<db, env>>

\* Mutant: an unfinished batch is not told from a finished one.
FinishBeginUnguarded(p, force) ==
  LET queue == ByCreation(DeferredCompletes(migrations))
  IN  /\ Free(p, "complete") /\ FleetAtNewest
      /\ ~IsActiveMigrationPeriod(migrations) /\ DOMAIN queue # {}
      /\ Become(p, [Idle EXCEPT !.at = "seal", !.verb = "finish",
                      !.cur = LatestMigration(migrations), !.queue = queue])
      /\ UNCHANGED <<db, env>>

\* complete, without one: FinishContraction up to its first write.
FinishBegin(p, force) ==
  LET queue == ByCreation(DeferredCompletes(migrations))
      live  == LatestMigration(migrations)
  IN  /\ Free(p, "complete")
      /\ force => "force" \in Verbs /\ (Careful => ~versionSchemas)
      /\ ~IsActiveMigrationPeriod(migrations)
      /\ FleetAtNewest
      /\ Careful => Settled
      /\ \/ /\ DOMAIN queue = {}
            /\ Become(p, [Idle EXCEPT !.at = "stamp", !.verb = "finish"])
         \/ /\ DOMAIN queue # {}
            /\ HasSealedDeferred(migrations) \/ force \/ live \in schemas
            /\ Become(p, [Idle EXCEPT !.at = "seal", !.verb = "finish", !.cur = live,
                            !.queue = queue,
                            !.dropLive = DOMAIN queue \cap OnCompleteSQL # {}])
      /\ UNCHANGED <<db, env>>

RollbackBegin(p, n) ==
  /\ Free(p, "rollback")
  /\ n \in ActiveMigrations(migrations) \ {fleet}
  /\ Become(p, [Idle EXCEPT !.at = "dropVersion", !.verb = "rollback", !.cur = n])
  /\ UNCHANGED <<db, env>>

\* Mutant: contracted rows are not refused.
RevertibleUnchecked(window) == LatestMigration(migrations) \in window

\* RevertTargets: the unsealed suffix of the history, if all of it can be
\* reverted.
Revertible(window) ==
  /\ LatestMigration(migrations) \in window
  /\ \A n \in window, k \in DOMAIN migrations \ window :
       migrations[k].created < migrations[n].created
  /\ window \cap Irreversible = {}
  /\ \A n \in window : n \in Destructive => ~migrations[n].done \/ migrations[n].deferred

\* RevertPlan: everything from the row `oldest` on.
RevertBegin(p, oldest) ==
  LET window  == UnsealedMigrations(migrations)
      targets == {n \in window : migrations[n].created >= migrations[oldest].created}
  IN  /\ Free(p, "revert")
      /\ oldest \in window
      /\ Revertible(window)
      /\ fleet \notin targets
      /\ Become(p, [Idle EXCEPT !.at = "dropVersion", !.verb = "revert",
                      !.cur = Newest(ByCreation(targets)),
                      !.queue = ByCreation(targets),
                      !.applied = {n \in targets : migrations[n].done /\ ~migrations[n].deferred}])
      /\ UNCHANGED <<db, env>>

----------------------------------------------------------------------------
(* roll.Start.                                                             *)

StartBegin(p) ==
  /\ At(p, "start")
  /\ IF IsActiveMigrationPeriod(migrations) THEN Return(p) ELSE Goto(p, "insert")
  /\ UNCHANGED <<db, env>>

\* Mutant: the INSERT meets no unique index.
StartUnconstrained(p) ==
  /\ At(p, "insert")
  /\ \E ts \in Later(migrations) :
       migrations' = Inserted(migrations, proc[p].cur,
                              StartedRow(LatestMigration(migrations), ts))
  /\ Goto(p, "ops")
  /\ UNCHANGED <<snapshot, phys, marker, schemas, env>>

Start(p) ==
  /\ At(p, "insert")
  /\ \E ts \in Later(migrations) :
       LET n   == proc[p].cur
           new == Inserted(migrations, n, StartedRow(LatestMigration(migrations), ts))
       IN  /\ \A u \in Later(migrations) : ts <= u
           /\ IF n \notin DOMAIN migrations /\ Constraints(new)
              THEN migrations' = new /\ Goto(p, "ops")
              ELSE UNCHANGED migrations /\ Return(p)
  /\ UNCHANGED <<snapshot, phys, marker, schemas, env>>

\* The Start operations: a first statement, then the rest of them.
StartOperations(p) ==
  LET n == proc[p].cur
  IN  /\ At(p, "ops")
      /\ \/ /\ phys[n] = "absent"
            /\ phys' = [phys EXCEPT ![n] = "expanding"]
            /\ UNCHANGED proc
         \/ /\ phys[n] = "expanding"
            /\ phys' = [phys EXCEPT ![n] = IF n \in Backfilled THEN "expanded" ELSE "ready"]
            /\ IF versionSchemas /\ ~Intermediate(p) THEN Goto(p, "views")
               ELSE AfterViews(p)
      /\ UNCHANGED <<migrations, snapshot, marker, schemas, env>>

EnsureViews(p) ==
  /\ At(p, "views")
  /\ schemas' = schemas \cup {proc[p].cur}
  /\ AfterViews(p)
  /\ UNCHANGED <<migrations, snapshot, phys, marker, env>>

\* The marker column, then the triggers.  The process may die in between;
\* performBackfills drops the error of the one statement or the other.
CreateTriggers(p) ==
  LET n == proc[p].cur
  IN  /\ At(p, "triggers")
      /\ \/ /\ marker' = marker \cup {n}
            /\ phys' = [phys EXCEPT ![n] = IF @ = "expanded" THEN "filling" ELSE @]
            /\ Goto(p, "backfill")
         \/ /\ "triggers" \in CrashAt
            /\ marker' = marker \cup {n}
            /\ UNCHANGED phys
            /\ Return(p)
         \/ /\ TriggerErrors
            /\ marker' \in {marker, marker \cup {n}}
            /\ UNCHANGED phys
            /\ Goto(p, "backfill")
      /\ UNCHANGED <<migrations, snapshot, schemas, env>>

\* The batches touch every flagged row, for the triggers to fill it.  They
\* fail (StartFails) without the marker column.
Backfill(p) ==
  LET n == proc[p].cur
  IN  /\ At(p, "backfill")
      /\ n \in marker
      /\ IF phys[n] = "filling"
         THEN marker' = marker \ {n} /\ phys' = [phys EXCEPT ![n] = "ready"]
         ELSE UNCHANGED <<marker, phys>>
      /\ AfterStart(p)
      /\ UNCHANGED <<migrations, snapshot, schemas, env>>

\* A failed Start operation or backfill rolls back whatever is active.
StartFails(p) ==
  /\ At(p, "ops") \/ At(p, "backfill")
  /\ \/ \E n \in ActiveMigrations(migrations) :
          Become(p, [Idle EXCEPT !.at = "dropVersion", !.verb = "rollback", !.cur = n])
     \/ ~IsActiveMigrationPeriod(migrations) /\ Return(p)
  /\ UNCHANGED <<db, env>>

----------------------------------------------------------------------------
(* Complete and FinishContraction.                                         *)

\* Complete works on the row that is active by now.
GetActiveMigration(p) ==
  /\ At(p, "active")
  /\ \/ \E n \in ActiveMigrations(migrations) :
          Become(p, [proc[p] EXCEPT !.cur = n,
            !.at = IF Intermediate(p)
                   THEN IF First(proc[p].todo) \in Destructive THEN "defer" ELSE "own"
                   ELSE IF versionSchemas THEN "dropOld" ELSE "queue"])
     \/ ~IsActiveMigrationPeriod(migrations) /\ Return(p)
  /\ UNCHANGED <<db, env>>

\* Mutant: the row is queued and not done.
MarkCompleteDeferredActive(p) ==
  /\ At(p, "defer")
  /\ proc[p].cur \in ActiveMigrations(migrations)
  /\ migrations' = [migrations EXCEPT ![proc[p].cur].deferred = TRUE]
  /\ NextMigration(p)
  /\ UNCHANGED <<snapshot, phys, marker, schemas, env>>

\* Complete(WithDeferComplete) of an intermediate; it fails if the row is
\* no longer active.
MarkCompleteDeferred(p) ==
  LET n == proc[p].cur
  IN  /\ At(p, "defer")
      /\ IF n \in ActiveMigrations(migrations)
         THEN /\ migrations' = MarkedDeferred(migrations, n)
              /\ snapshot' = [snapshot EXCEPT ![n] = phys]
              /\ NextMigration(p)
         ELSE UNCHANGED <<migrations, snapshot>> /\ Return(p)
      /\ UNCHANGED <<phys, marker, schemas, env>>

\* DropVersionSchemasExcept; a schema in use is not dropped and ends it.
DropOldSchemas(p) ==
  /\ At(p, "dropOld")
  /\ \E held \in SUBSET (schemas \ {proc[p].cur}) :
       /\ schemas' = (schemas \cap {proc[p].cur}) \cup held
       /\ IF held # {} THEN Return(p)
          ELSE IF proc[p].verb # "finish" THEN Goto(p, "queue")
          ELSE Goto(p, IF proc[p].dropLive THEN "dropLive" ELSE "drain")
  /\ UNCHANGED <<migrations, snapshot, phys, marker, env>>

\* Mutant: only the active migration's own onComplete SQL counts.
ReadQueueOwnSQL(p) ==
  LET queue == ByCreation(DeferredCompletes(migrations))
  IN  /\ At(p, "queue")
      /\ Become(p, [proc[p] EXCEPT
                      !.at = IF DOMAIN queue = {} THEN "own" ELSE "seal",
                      !.queue = queue, !.dropLive = proc[p].cur \in OnCompleteSQL])
      /\ UNCHANGED <<db, env>>

ReadQueue(p) ==
  LET queue == ByCreation(DeferredCompletes(migrations))
  IN  /\ At(p, "queue")
      /\ Become(p, [proc[p] EXCEPT
                      !.at = IF DOMAIN queue = {} THEN "own" ELSE "seal",
                      !.queue = queue,
                      !.dropLive = ({proc[p].cur} \cup DOMAIN queue) \cap OnCompleteSQL # {}])
      /\ UNCHANGED <<db, env>>

\* Mutant: the seal is left to the end.
SealBeforeDrainLater(p) ==
  /\ At(p, "seal")
  /\ Goto(p, IF versionSchemas /\ proc[p].verb = "finish" THEN "dropOld" ELSE "drain")
  /\ UNCHANGED <<db, env>>

\* Seal at intent, before any contraction DDL.
SealBeforeDrain(p) ==
  /\ At(p, "seal")
  /\ migrations' = MarkedSealed(migrations)
  /\ Goto(p, IF ~versionSchemas THEN "drain"
             ELSE IF proc[p].verb = "finish" THEN "dropOld"
             ELSE IF proc[p].dropLive THEN "dropLive" ELSE "drain")
  /\ UNCHANGED <<snapshot, phys, marker, schemas, env>>

DropLiveSchema(p) ==
  /\ At(p, "dropLive")
  /\ schemas' = schemas \ {proc[p].cur}
  /\ Goto(p, "drain")
  /\ UNCHANGED <<migrations, snapshot, phys, marker, env>>

\* The Complete operations of n: a first statement, then the rest; what has
\* been done is skipped.  On a migration whose Start did not finish they
\* fail, or find nothing to do.
Contract(p, n, step) ==
  \/ /\ phys[n] = "ready"
     /\ phys' = [phys EXCEPT ![n] = "contracting"]
     /\ UNCHANGED <<marker, proc>>
  \/ /\ phys[n] \in {"contracting", "contracted"}
     /\ phys' = [phys EXCEPT ![n] = "contracted"]
     /\ marker' = marker \ {n}
     /\ Goto(p, step)
  \/ /\ phys[n] \in {"absent", "expanding", "expanded", "filling", "damaged"}
     /\ \/ UNCHANGED <<phys, marker>> /\ Return(p)
        \/ phys' = [phys EXCEPT ![n] = "damaged"] /\ UNCHANGED marker /\ Goto(p, step)

ApplyDeferredComplete(p) ==
  LET n    == Oldest(proc[p].queue)
      last == proc[p].verb = "finish" /\ DOMAIN proc[p].queue = {n}
  IN  /\ At(p, "drain")
      /\ Contract(p, n, IF last THEN "refresh" ELSE "clear")
      /\ UNCHANGED <<migrations, snapshot, schemas, env>>

\* Mutant: the flag outlives the drain.
ClearCompleteDeferredNot(p) ==
  LET rest == Restrict(proc[p].queue, DOMAIN proc[p].queue \ {Oldest(proc[p].queue)})
  IN  /\ At(p, "clear")
      /\ Become(p, [proc[p] EXCEPT
                      !.queue = rest,
                      !.at = IF DOMAIN rest # {} THEN "drain"
                             ELSE IF proc[p].verb = "finish" THEN "reseal" ELSE "own"])
      /\ UNCHANGED <<db, env>>

ClearCompleteDeferred(p) ==
  LET n    == Oldest(proc[p].queue)
      rest == Restrict(proc[p].queue, DOMAIN proc[p].queue \ {n})
  IN  /\ At(p, "clear")
      /\ migrations' = IF n \in DOMAIN migrations THEN DeferredCleared(migrations, n)
                       ELSE migrations
      /\ Become(p, [proc[p] EXCEPT
                      !.queue = rest,
                      !.at = IF DOMAIN rest # {} THEN "drain"
                             ELSE IF proc[p].verb = "finish" THEN "reseal" ELSE "own"])
      /\ UNCHANGED <<snapshot, phys, marker, schemas, env>>

\* Mutant: the snapshot is not taken again.
RefreshNothing(p) ==
  /\ At(p, "refresh")
  /\ Goto(p, IF versionSchemas /\ proc[p].dropLive THEN "reproject" ELSE "clear")
  /\ UNCHANGED <<db, env>>

RefreshResultingSchema(p) ==
  LET live == proc[p].cur
  IN  /\ At(p, "refresh")
      /\ IF live \in DOMAIN migrations
         THEN /\ snapshot' = [snapshot EXCEPT ![live] = phys]
              /\ Goto(p, IF versionSchemas /\ proc[p].dropLive THEN "reproject" ELSE "clear")
         ELSE UNCHANGED snapshot /\ Return(p)
      /\ UNCHANGED <<migrations, phys, marker, schemas, env>>

\* The active migration's own Complete operations.
CompleteOperations(p) ==
  LET n == proc[p].cur
      recreate == /\ versionSchemas /\ ~Intermediate(p)
                  /\ proc[p].dropLive \/ n \in RawSQL
  IN  /\ At(p, "own")
      /\ Contract(p, n, IF recreate THEN "reproject" ELSE "done")
      /\ UNCHANGED <<migrations, snapshot, schemas, env>>

Reproject(p) ==
  /\ At(p, "reproject")
  /\ schemas' = schemas \cup {proc[p].cur}
  /\ Goto(p, IF proc[p].verb = "finish" THEN "clear" ELSE "done")
  /\ UNCHANGED <<migrations, snapshot, phys, marker, env>>

Complete(p) ==
  LET n == proc[p].cur
  IN  /\ At(p, "done")
      /\ IF n \in ActiveMigrations(migrations)
         THEN /\ migrations' = Completed(migrations, n)
              /\ snapshot' = [snapshot EXCEPT ![n] = phys]
              /\ IF Intermediate(p) THEN NextMigration(p) ELSE Goto(p, "reseal")
         ELSE UNCHANGED <<migrations, snapshot>> /\ Return(p)
      /\ UNCHANGED <<phys, marker, schemas, env>>

SealAfterComplete(p) ==
  /\ At(p, "reseal")
  /\ migrations' = MarkedSealed(migrations)
  /\ Return(p)
  /\ UNCHANGED <<snapshot, phys, marker, schemas, env>>

\* FinishContraction with an empty queue: seal, then drop the old schemas
\* unless the leaf has no projection.
SealOpenWindow(p) ==
  /\ At(p, "stamp")
  /\ migrations' = MarkedSealed(migrations)
  /\ IF versionSchemas THEN Goto(p, "cleanup") ELSE Return(p)
  /\ UNCHANGED <<snapshot, phys, marker, schemas, env>>

CleanUpSchemas(p) ==
  LET live == LatestMigration(migrations)
  IN  /\ At(p, "cleanup")
      /\ IF live \in schemas
         THEN \E held \in SUBSET (schemas \ {live}) : schemas' = {live} \cup held
         ELSE UNCHANGED schemas
      /\ Return(p)
      /\ UNCHANGED <<migrations, snapshot, phys, marker, env>>

----------------------------------------------------------------------------
(* Rollback and Revert.                                                    *)

DropVersionSchema(p) ==
  /\ At(p, "dropVersion")
  /\ schemas' = schemas \ {proc[p].cur}
  /\ Goto(p, "undo")
  /\ UNCHANGED <<migrations, snapshot, phys, marker, env>>

\* The operations' Rollbacks.  Those of an applied migration start from its
\* completed schema, which only an additive one can leave again, the others
\* from its expand phase; on anything else they do not restore what was there.
RollbackOperations(p) ==
  LET n == proc[p].cur
      from == IF n \notin proc[p].applied THEN {"expanded", "filling", "ready"}
              ELSE IF n \in Destructive THEN {} ELSE {"contracted"}
  IN  /\ At(p, "undo")
      /\ \/ /\ phys[n] \in from
            /\ phys' = [phys EXCEPT ![n] = "expanding"]
            /\ UNCHANGED <<marker, proc>>
         \/ /\ phys[n] \notin from
            /\ phys' = [phys EXCEPT ![n] = IF @ \in {"absent", "expanding"} THEN "absent"
                                           ELSE "damaged"]
            /\ marker' = marker \ {n}
            /\ Goto(p, "delete")
      /\ UNCHANGED <<migrations, snapshot, schemas, env>>

\* State.Rollback deletes an active row, State.DeleteMigration any row; the
\* parent key refuses a row that has a child.
DeleteMigration(p) ==
  LET n    == proc[p].cur
      rest == Restrict(proc[p].queue, DOMAIN proc[p].queue \ {n})
  IN  /\ At(p, "delete")
      /\ IF /\ n \in DOMAIN migrations /\ ~HasChild(migrations, n)
            /\ proc[p].verb = "rollback" => ~migrations[n].done
         THEN /\ migrations' = Deleted(migrations, n)
              /\ snapshot' = [snapshot EXCEPT ![n] = [k \in Names |-> "absent"]]
              /\ IF proc[p].verb = "rollback" THEN Return(p)
                 ELSE IF DOMAIN rest = {} THEN Goto(p, "leaf")
                 ELSE Become(p, [proc[p] EXCEPT !.at = "dropVersion",
                                   !.cur = Newest(rest), !.queue = rest])
         ELSE UNCHANGED <<migrations, snapshot>> /\ Return(p)
      /\ UNCHANGED <<phys, marker, schemas, env>>

\* Mutant: an empty history has a leaf, too.
EnsureLeafAlways(p) ==
  /\ At(p, "leaf")
  /\ schemas' = schemas \cup {LatestMigration(migrations)}
  /\ Return(p)
  /\ UNCHANGED <<migrations, snapshot, phys, marker, env>>

EnsureLeafVersionSchema(p) ==
  /\ At(p, "leaf")
  /\ schemas' = IF versionSchemas /\ migrations # EmptyTable
                THEN schemas \cup {LatestMigration(migrations)} ELSE schemas
  /\ Return(p)
  /\ UNCHANGED <<migrations, snapshot, phys, marker, env>>

----------------------------------------------------------------------------
\* A process dies, or its next statement fails.
Crash(p) ==
  /\ proc[p].at \in CrashAt
  /\ Return(p)
  /\ UNCHANGED <<db, env>>

Command(p) ==
  \/ \E names \in SUBSET Names, converge \in BOOLEAN : MigrateBegin(p, names, converge)
  \/ \E n \in Names : \/ MigrateAwaiting(p, n)
                      \/ CompleteBegin(p, n)
                      \/ RollbackBegin(p, n)
                      \/ RevertBegin(p, n)
  \/ \E force \in BOOLEAN : FinishBegin(p, force)

Step(p) ==
  \/ StartBegin(p) \/ Start(p) \/ StartOperations(p) \/ EnsureViews(p)
  \/ CreateTriggers(p) \/ Backfill(p) \/ GetActiveMigration(p)
  \/ MarkCompleteDeferred(p) \/ DropOldSchemas(p) \/ ReadQueue(p)
  \/ SealBeforeDrain(p) \/ DropLiveSchema(p) \/ ApplyDeferredComplete(p)
  \/ ClearCompleteDeferred(p) \/ RefreshResultingSchema(p)
  \/ CompleteOperations(p) \/ Reproject(p) \/ Complete(p)
  \/ SealAfterComplete(p) \/ SealOpenWindow(p) \/ CleanUpSchemas(p)
  \/ DropVersionSchema(p) \/ RollbackOperations(p) \/ DeleteMigration(p)
  \/ EnsureLeafVersionSchema(p)

Next == \/ \E s \in Names \cup {NoName} : Repin(s)
        \/ \E p \in Procs : Command(p) \/ Step(p) \/ StartFails(p) \/ Crash(p)

Spec == Init /\ [][Next]_vars

\* A running process takes its next step; the operator repeats `complete`
\* until it succeeds, and repins the applications so that it can.
Fairness ==
  /\ \A p \in Procs : /\ WF_vars(Step(p))
                      /\ SF_vars(FinishBegin(p, FALSE) \/ \E n \in Names : CompleteBegin(p, n))
  /\ SF_vars((\E s \in Names \cup {NoName} : Repin(s)) /\ FleetAtNewest')

FairSpec == Spec /\ Fairness

----------------------------------------------------------------------------
Process == [at       : Steps \cup {"idle"},
            verb     : {"none", "migrate", "complete", "finish", "rollback", "revert"},
            cur      : Names \cup {NoName},
            todo     : SUBSET Names,
            converge : BOOLEAN,
            queue    : UNION {[S -> Timestamps] : S \in SUBSET Names},
            dropLive : BOOLEAN,
            applied  : SUBSET Names]

TypeOK == /\ IsTable(migrations)
          /\ phys \in [Names -> Phases]
          /\ snapshot \in [Names -> [Names -> Phases]]
          /\ marker \subseteq Names /\ schemas \subseteq Names
          /\ fleet \in Names \cup {NoName}
          /\ proc \in [Procs -> Process]
          /\ versionSchemas \in BOOLEAN

(***************************************************************************)
(* Sealed precedes contraction (FinishContraction): a row whose Complete   *)
(* operations are queued is stamped sealed before the first of them runs,  *)
(* so after any crash `pgroll revert` refuses what is partly contracted.   *)
(***************************************************************************)
Contracting(n) == phys[n] \in {"contracting", "contracted"}

SealedPrecedesContraction ==
  \A n \in DeferredCompletes(migrations) : Contracting(n) => migrations[n].sealed

(***************************************************************************)
(* Destructive DDL meets no view of an older version: when a queued        *)
(* migration starts to contract, only the live version schema is left, and *)
(* not even that when onComplete SQL is in the queue.                      *)
(***************************************************************************)
ContractionUnblocked ==
  [][\A p \in Procs :
       At(p, "drain") /\ phys' # phys =>
         /\ schemas \subseteq {proc[p].cur}
         /\ Oldest(proc[p].queue) \in OnCompleteSQL => schemas = {}]_vars

(***************************************************************************)
(* The unsealed rows are the newest ones: sealing never leaves a hole in   *)
(* the revertible window, so RevertTargets can walk it from the leaf.      *)
(***************************************************************************)
WindowIsSuffix ==
  \A n \in UnsealedMigrations(migrations), k \in DOMAIN migrations :
    migrations[k].sealed => migrations[k].created < migrations[n].created

(***************************************************************************)
(* Sealed rows are never reverted (init.sql): a step that removes a row    *)
(* removes an unsealed one.                                                *)
(***************************************************************************)
SealedNeverReverted ==
  [][\A n \in DOMAIN migrations \ DOMAIN migrations' : ~migrations[n].sealed]_vars

(***************************************************************************)
(* The history accounts for the database: whatever a migration that is not *)
(* recorded did has been undone, and a recorded one is in a phase that its *)
(* own Complete, Rollback or revert can take further.                      *)
(***************************************************************************)
HistoryCoversSchema ==
  /\ \A n \in Names \ DOMAIN migrations : phys[n] = "absent" /\ n \notin schemas
  /\ \A n \in DOMAIN migrations : phys[n] # "damaged"

(***************************************************************************)
(* Nothing is recorded as done that was not expanded and backfilled to the *)
(* end (migrate.go: treating a partial backfill as done "would let a       *)
(* deploy proceed on incomplete data and seal it at Complete").  It needs  *)
(* an operator who does not complete a migration whose migrate was killed, *)
(* and triggers whose creation does not fail: performBackfills drops that  *)
(* error (TriggerErrors).                                                  *)
(***************************************************************************)
DoneIsMaterialized ==
  [][\A n \in DOMAIN migrations' :
       /\ migrations'[n].done
       /\ n \in DOMAIN migrations => ~migrations[n].done
       => phys[n] \in Materialized]_vars

(***************************************************************************)
(* The applications keep their version schema: it is there whenever no     *)
(* command runs.  A contraction with onComplete SQL that was interrupted   *)
(* may have to be re-run first.                                            *)
(***************************************************************************)
Mending == \/ HasSealedDeferred(migrations)
           \/ IsActiveMigrationPeriod(migrations) /\ OnCompleteSQL # {}

FleetServed == AllIdle /\ fleet # NoName /\ ~Mending => fleet \in schemas

(***************************************************************************)
(* The boundary snapshot is clean: once nothing is active or queued, the   *)
(* leaf's resulting_schema is the physical schema, which the next rollback *)
(* and revert start from (RefreshResultingSchema).                         *)
(***************************************************************************)
Contracted == /\ AllIdle /\ Settled
              /\ ~IsActiveMigrationPeriod(migrations)
              /\ DeferredCompletes(migrations) = {}

BoundarySnapshotClean == Contracted => \A n \in Leaves(migrations) : snapshot[n] = phys

(***************************************************************************)
(* migrate calls an active migration EXPANDED, awaiting `pgroll complete`, *)
(* only when its expand phase, backfill included, has finished -- or when  *)
(* it was killed after ensureViews and before CreateTriggers added the     *)
(* marker column: HasPendingBackfill takes a missing column for nothing    *)
(* pending.  That is the one interruption it does not tell from success.   *)
(***************************************************************************)
KilledBeforeMarker(n) == n \in Backfilled /\ phys[n] = "expanded"

AwaitingIsMaterialized ==
  \A n \in ActiveMigrations(migrations) :
    AllIdle /\ ExpandComplete(n) => phys[n] \in Materialized \/ KilledBeforeMarker(n)

(***************************************************************************)
(* An interrupted contraction is resumed to its end: unless processes keep *)
(* dying and schemas keep being held, a sealed queue is eventually empty.  *)
(* (Dying before the last step, the second seal, leaves none to resume.)   *)
(***************************************************************************)
Failure ==
  \E p \in Procs : \/ Crash(p) /\ ~At(p, "reseal")
                   \/ At(p, "dropOld") /\ DropOldSchemas(p) /\ proc'[p] = Idle

ContractionFinishes ==
  \/ []<><<Failure>>_vars
  \/ HasSealedDeferred(migrations) ~> ~HasSealedDeferred(migrations)

(***************************************************************************)
(* The history, seen alone, behaves as MigrationHistory says.              *)
(***************************************************************************)
History == INSTANCE MigrationHistory WITH
             Admins <- {}, StampTypes <- {}, BaselineFiles <- {},
             copy <- [p \in Procs |-> EmptyTable],
             op <- [p \in Procs |->
                      [at     |-> IF At(p, "insert") THEN "start" ELSE "idle",
                       names  |-> IF At(p, "insert") THEN {proc[p].cur} ELSE {},
                       parent |-> NoName, type |-> "pgroll"]]

ImplementsHistory == History!Spec
=============================================================================
