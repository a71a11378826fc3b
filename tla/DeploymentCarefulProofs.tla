---------------------- MODULE DeploymentCarefulProofs ----------------------
(***************************************************************************)
(* What holds of deployments when one pgroll process runs at a time, the   *)
(* operator finishes what was interrupted before going on and completes    *)
(* only what migrate reported as applied (Careful), and the statements of  *)
(* CreateTriggers, whose error performBackfills drops, do not fail in a    *)
(* process that lives on.  The processes may die before any step, and      *)
(* within CreateTriggers.                                                  *)
(***************************************************************************)
EXTENDS DeploymentSerialProofs

CarefulDeployment == Careful /\ ~TriggerErrors

\* The steps of Complete that work on the active migration.
Completing(s) ==
  \/ s.at \in {"defer", "queue", "own", "done"}
  \/ /\ s.at \in {"dropOld", "seal", "dropLive", "drain", "clear", "reproject"}
     /\ ~Finishing(s)

\* The process has more migrations of its train to apply.
InTrain(s) == s.todo # {} /\ s.todo # {First(s.todo)}

\* The steps that hold a queue to drain.
Queued(s) == Draining(s) \/ s.at = "seal"

\* The steps of migrate and complete.
Forward(s) == s.at \notin {"idle", "dropVersion", "undo", "delete", "leaf"}

\* A train takes each migration through its phases in order, and Complete
\* works on a migration that is expanded and backfilled.
ExpandOK(s) ==
  /\ s.at = "views" => phys[s.cur] = IF s.cur \in Backfilled THEN "expanded" ELSE "ready"
  /\ s.at = "triggers" => phys[s.cur] = "expanded"
  /\ s.at = "backfill" => phys[s.cur] = "filling" /\ s.cur \in marker
  /\ s.at = "active" => \A n \in ActiveMigrations(migrations) : phys[n] \in Materialized
  /\ Completing(s) => phys[s.cur] \in Materialized

\* What a drain has read is still queued; FinishContraction drains while
\* nothing is active.
QueueOK(s) ==
  Queued(s) => /\ DOMAIN s.queue \subseteq DeferredCompletes(migrations)
               /\ s.cur \in DOMAIN migrations
               /\ Finishing(s) => ActiveMigrations(migrations) = {}

\* A rollback undoes the active migration, a revert takes it along, and both
\* drop the version schema before they undo the DDL.
TakeBackOK(s) ==
  /\ Undoing(s) /\ s.verb = "rollback" => s.cur \in ActiveMigrations(migrations)
  /\ Undoing(s) /\ s.verb = "revert" => ActiveMigrations(migrations) \subseteq DOMAIN s.queue
  /\ s.at = "leaf" => ~IsActiveMigrationPeriod(migrations)
  /\ s.at \in {"undo", "delete"} => s.cur \notin schemas

CarefulOK(s) == /\ Forward(s) => Settled
                /\ ExpandOK(s) /\ QueueOK(s) /\ TakeBackOK(s)

\* Only between the views and the marker column does an active migration
\* look expanded that is not.
Awaiting ==
  \A n \in ActiveMigrations(migrations) :
    n \in schemas /\ n \notin marker => phys[n] \in Materialized \/ KilledBeforeMarker(n)

(***************************************************************************)
(* The inductive invariant with a careful operator.                        *)
(***************************************************************************)
CarefulInv == /\ SerialInv
              /\ schemas \subseteq DOMAIN migrations
              /\ Awaiting
              /\ \A p \in Procs : CarefulOK(proc[p])

----------------------------------------------------------------------------
(* What the steps do.                                                      *)

(***************************************************************************)
(* A process that takes another state, and one that ends its command.      *)
(***************************************************************************)
LEMMA Becomes ==
  ASSUME ProcsOK, NEW p \in Procs
  PROVE  /\ \A s : Become(p, s) => proc'[p] = s
         /\ Return(p) => proc'[p] = Idle
         /\ Idle.at = "idle" /\ Idle.todo = {} /\ Idle \in Process
BY IdleOK DEF ProcsOK, Become, Return, ProcOK

(***************************************************************************)
(* All the fields of a process that moves to another step.                 *)
(***************************************************************************)
LEMMA GotoKeeps ==
  ASSUME ProcsOK, NEW p \in Procs, NEW step, Goto(p, step)
  PROVE  /\ proc'[p].at = step
         /\ proc'[p].verb = proc[p].verb
         /\ proc'[p].cur = proc[p].cur
         /\ proc'[p].todo = proc[p].todo
         /\ proc'[p].converge = proc[p].converge
         /\ proc'[p].queue = proc[p].queue
         /\ proc'[p].dropLive = proc[p].dropLive
         /\ proc'[p].applied = proc[p].applied
BY DEF ProcsOK, Goto, Become, Process

(***************************************************************************)
(* A process that goes on to the next migration of its train.              *)
(***************************************************************************)
LEMMA NextKeeps ==
  ASSUME ProcsOK, NEW p \in Procs, NextMigration(p)
  PROVE  \/ Return(p)
         \/ /\ proc'[p].at = "start" /\ proc'[p].verb = proc[p].verb
            /\ proc'[p].converge = proc[p].converge
<1> DEFINE rest == proc[p].todo \ {First(proc[p].todo)}
           s == [proc[p] EXCEPT !.at = "start", !.cur = First(rest), !.todo = rest]
<1>1. Return(p) \/ Become(p, s)
  BY DEF NextMigration
<1>2. s.at = "start" /\ s.verb = proc[p].verb /\ s.converge = proc[p].converge
  BY DEF ProcsOK, Process
<1> HIDE DEF s
<1> QED BY <1>1, <1>2, Becomes

(***************************************************************************)
(* The fields that the UPDATEs write.                                      *)
(***************************************************************************)
LEMMA UpdatedRows ==
  ASSUME NEW t, \A k \in DOMAIN t : t[k] \in Row, NEW n \in DOMAIN t
  PROVE  /\ DOMAIN Completed(t, n) = DOMAIN t
         /\ \A k \in DOMAIN t \ {n} : Completed(t, n)[k] = t[k]
         /\ Completed(t, n)[n].done
         /\ Completed(t, n)[n].deferred = t[n].deferred
         /\ Completed(t, n)[n].sealed = t[n].sealed
         /\ Completed(t, n)[n].parent = t[n].parent
         /\ Completed(t, n)[n].created = t[n].created
         /\ DOMAIN MarkedDeferred(t, n) = DOMAIN t
         /\ \A k \in DOMAIN t \ {n} : MarkedDeferred(t, n)[k] = t[k]
         /\ MarkedDeferred(t, n)[n].done
         /\ MarkedDeferred(t, n)[n].deferred
         /\ MarkedDeferred(t, n)[n].sealed = t[n].sealed
         /\ MarkedDeferred(t, n)[n].parent = t[n].parent
         /\ MarkedDeferred(t, n)[n].created = t[n].created
         /\ DOMAIN DeferredCleared(t, n) = DOMAIN t
         /\ \A k \in DOMAIN t \ {n} : DeferredCleared(t, n)[k] = t[k]
         /\ DeferredCleared(t, n)[n].done = t[n].done
         /\ ~DeferredCleared(t, n)[n].deferred
         /\ DeferredCleared(t, n)[n].sealed = t[n].sealed
         /\ DeferredCleared(t, n)[n].parent = t[n].parent
         /\ DeferredCleared(t, n)[n].created = t[n].created
BY DEF Completed, MarkedDeferred, DeferredCleared, Row

(***************************************************************************)
(* The fields that MarkSealed writes.                                      *)
(***************************************************************************)
LEMMA SealedRows ==
  ASSUME NEW t, \A k \in DOMAIN t : t[k] \in Row
  PROVE  /\ DOMAIN MarkedSealed(t) = DOMAIN t
         /\ \A k \in DOMAIN t : /\ MarkedSealed(t)[k].done = t[k].done
                                /\ MarkedSealed(t)[k].deferred = t[k].deferred
                                /\ MarkedSealed(t)[k].sealed = (t[k].sealed \/ t[k].done)
                                /\ MarkedSealed(t)[k].parent = t[k].parent
                                /\ MarkedSealed(t)[k].created = t[k].created
BY DEF MarkedSealed, Row

(***************************************************************************)
(* The INSERT of Start adds an active row after the newest one, where none *)
(* was active, or ends the command.                                        *)
(***************************************************************************)
LEMMA StartAdds ==
  ASSUME SerialInv, NEW p \in Procs, Start(p)
  PROVE  /\ UNCHANGED <<snapshot, phys, marker, schemas, fleet, versionSchemas>>
         /\ proc[p].at = "insert" /\ proc[p].cur \in Names
         /\ \/ UNCHANGED migrations /\ Return(p)
            \/ /\ proc[p].cur \notin DOMAIN migrations
               /\ DOMAIN migrations' = DOMAIN migrations \cup {proc[p].cur}
               /\ \A k \in DOMAIN migrations : migrations'[k] = migrations[k]
               /\ \A k \in DOMAIN migrations : migrations[k].done
               /\ ~migrations'[proc[p].cur].done
               /\ ~migrations'[proc[p].cur].deferred
               /\ ~migrations'[proc[p].cur].sealed
               /\ migrations'[proc[p].cur].parent = LatestMigration(migrations)
               /\ Goto(p, "ops")
<1> DEFINE n == proc[p].cur
           row(ts) == StartedRow(LatestMigration(migrations), ts)
           new(ts) == Inserted(migrations, n, row(ts))
<1>1. PICK ts \in Later(migrations) :
        IF n \notin DOMAIN migrations /\ Constraints(new(ts))
        THEN migrations' = new(ts) /\ Goto(p, "ops")
        ELSE UNCHANGED migrations /\ Return(p)
  BY DEF Start
<1>2. /\ UNCHANGED <<snapshot, phys, marker, schemas, fleet, versionSchemas>>
      /\ proc[p].at = "insert"
  BY DEF Start, At, env
<1>3. proc[p].cur \in Names
  BY <1>2, SerialFacts DEF Working, Steps
<1>4. ASSUME n \notin DOMAIN migrations, Constraints(new(ts)), migrations' = new(ts)
      PROVE  /\ DOMAIN migrations' = DOMAIN migrations \cup {n}
             /\ \A k \in DOMAIN migrations : migrations'[k] = migrations[k]
             /\ \A k \in DOMAIN migrations : migrations[k].done
             /\ ~migrations'[n].done /\ ~migrations'[n].deferred /\ ~migrations'[n].sealed
             /\ migrations'[n].parent = LatestMigration(migrations)
  <2>1. /\ DOMAIN migrations' = DOMAIN migrations \cup {n} /\ migrations'[n] = row(ts)
        /\ \A k \in DOMAIN migrations : migrations'[k] = migrations[k] /\ k # n
    BY <1>4 DEF Inserted
  <2>2. /\ ~row(ts).done /\ ~row(ts).deferred /\ ~row(ts).sealed
        /\ row(ts).parent = LatestMigration(migrations)
    BY DEF StartedRow
  <2>3. OnlyOneActive(migrations')
    BY <1>4 DEF Constraints
  <2> HIDE DEF row
  <2>4. \A k \in DOMAIN migrations : migrations[k].done
    BY <2>1, <2>2, <2>3 DEF OnlyOneActive
  <2> QED BY <2>1, <2>2, <2>4
<1> QED BY <1>1, <1>2, <1>3, <1>4

(***************************************************************************)
(* latest_migration() is the newest row, and the active row if there is    *)
(* one.                                                                    *)
(***************************************************************************)
LEMMA LatestIsNewest ==
  ASSUME DeployedTable(migrations), DOMAIN migrations # {}
  PROVE  /\ LatestMigration(migrations) \in DOMAIN migrations
         /\ \A k \in DOMAIN migrations :
              migrations[k].created <= migrations[LatestMigration(migrations)].created
         /\ \A n \in ActiveMigrations(migrations) : n = LatestMigration(migrations)
         /\ LatestMigration(migrations) \in Leaves(migrations)
         /\ \A n \in Leaves(migrations) : n = LatestMigration(migrations)
<1> DEFINE live == LatestMigration(migrations)
<1>0. /\ IsTable(migrations) /\ InChainOrder(migrations) /\ TableBounded(migrations)
      /\ \A k \in DOMAIN migrations : migrations[k].created \in Nat
  BY TimestampsAssumption DEF DeployedTable, TableOK, IsTable, Row
<1>1. live \in DOMAIN migrations /\ live \in Names
  BY <1>0, LatestExists
<1>2. live \in Leaves(migrations)
  BY <1>1, NamesAssumption DEF LatestMigration, NoName
<1>3. \A k \in DOMAIN migrations : migrations[k].created <= migrations[live].created
  BY <1>0, <1>2, LeafIsLast DEF Leaves
<1>4. ASSUME NEW n \in ActiveMigrations(migrations) PROVE n = live
  <2> HIDE DEF live
  <2>1. n \in DOMAIN migrations /\ migrations[live].created <= migrations[n].created
    BY <1>1, <1>4 DEF DeployedTable, ActiveLast, ActiveMigrations
  <2>2. migrations[live].created = migrations[n].created
    BY <1>0, <1>1, <1>3, <2>1
  <2> QED BY <1>0, <1>1, <2>1, <2>2 DEF InChainOrder, DistinctTimes
<1>5. \A n \in Leaves(migrations) : n = live
  BY <1>0, <1>2, OneLeaf
<1> QED BY <1>1, <1>2, <1>3, <1>4, <1>5

(***************************************************************************)
(* UPDATEs that leave the parents alone leave latest_migration().          *)
(***************************************************************************)
LEMMA LatestKept ==
  ASSUME NEW t, NEW u, DOMAIN u = DOMAIN t, \A k \in DOMAIN t : u[k].parent = t[k].parent
  PROVE  Leaves(u) = Leaves(t) /\ LatestMigration(u) = LatestMigration(t)
<1>1. Leaves(u) = Leaves(t)
  BY DEF Leaves, HasChild
<1> QED BY <1>1 DEF LatestMigration

----------------------------------------------------------------------------
(* Every step keeps the invariant.                                         *)

(***************************************************************************)
(* What the invariant says of the process that takes a step.               *)
(***************************************************************************)
LEMMA CarefulFacts ==
  ASSUME CarefulInv, NEW p \in Procs
  PROVE  /\ ProcsOK /\ StateOK /\ DeployedTable(migrations)
         /\ proc[p] \in Process /\ QueueBounded(proc[p].queue)
         /\ SerialOK(proc[p]) /\ CarefulOK(proc[p])
         /\ proc[p].at \in Working => proc[p].cur \in Names
         /\ RowsConsistent(migrations) /\ DOMAIN migrations \subseteq Names
         /\ IsTable(migrations) /\ InChainOrder(migrations)
         /\ \A n \in DOMAIN migrations : migrations[n] \in Row
         /\ schemas \subseteq DOMAIN migrations /\ Awaiting
         /\ \A n \in Names : phys[n] \in Phases
BY SerialFacts DEF CarefulInv, DeployedTable, TableOK, IsTable, StateOK

(***************************************************************************)
(* With one process, a step leaves the invariant when it leaves it for the *)
(* process that takes it.                                                  *)
(***************************************************************************)
LEMMA CarefulStep ==
  ASSUME OneAtATime, NEW p \in Procs, SerialInv', schemas' \subseteq DOMAIN migrations',
         Awaiting', CarefulOK(proc[p])'
  PROVE  CarefulInv'
<1>1. \A q \in Procs : q = p
  BY DEF OneAtATime
<1> QED BY <1>1 DEF CarefulInv

(***************************************************************************)
(* A process that runs no command, or a step of one that relies on nothing *)
(* but that what is done is materialized.                                  *)
(***************************************************************************)
LEMMA CarefulRests ==
  ASSUME NEW p \in Procs,
         \/ proc'[p].at = "idle"
         \/ /\ Settled'
            /\ proc'[p].at \in {"start", "insert", "ops", "stamp", "cleanup", "reseal"}
  PROVE  CarefulOK(proc[p])'
BY DEF CarefulOK, Forward, ExpandOK, QueueOK, TakeBackOK, Queued, Draining, Completing,
       Undoing, Finishing

(***************************************************************************)
(* Awaiting outlives a step after which whatever looks expanded is, or     *)
(* looked so before.                                                       *)
(***************************************************************************)
LEMMA AwaitingKept ==
  ASSUME Awaiting,
         \A n \in ActiveMigrations(migrations') :
           n \in schemas' /\ n \notin marker' =>
             \/ phys'[n] \in Materialized
             \/ /\ n \in ActiveMigrations(migrations) /\ n \in schemas /\ n \notin marker
                /\ phys'[n] = phys[n]
  PROVE  Awaiting'
BY DEF Awaiting, KilledBeforeMarker

(***************************************************************************)
(* A command begins, Start fails, or the process dies.                     *)
(***************************************************************************)
LEMMA CommandKeepsCareful ==
  ASSUME OneAtATime, CarefulDeployment, CarefulInv, SerialInv', NEW p \in Procs,
         Command(p) \/ StartFails(p) \/ Crash(p)
  PROVE  CarefulInv' /\ (Settled => Settled')
<1>0. /\ ProcsOK /\ DeployedTable(migrations) /\ CarefulOK(proc[p]) /\ SerialOK(proc[p])
      /\ DOMAIN migrations \subseteq Names /\ IsTable(migrations) /\ InChainOrder(migrations)
      /\ RowsConsistent(migrations) /\ schemas \subseteq DOMAIN migrations /\ Awaiting
  BY CarefulFacts
<1>1. UNCHANGED <<migrations, phys, schemas, marker>> /\ Careful
  BY DEF Command, StartFails, Crash, MigrateBegin, MigrateAwaiting, CompleteBegin,
         FinishBegin, RollbackBegin, RevertBegin, db, CarefulDeployment
<1>2. Settled' = Settled
  BY <1>1 DEF Settled
<1>4. Awaiting'
  BY <1>0, <1>1, AwaitingKept
<1>5. Idle \in Process
  BY IdleOK DEF ProcOK
<1>6. ASSUME NEW names \in SUBSET Names, NEW converge \in BOOLEAN,
             MigrateBegin(p, names, converge)
      PROVE  CarefulOK(proc[p])'
  <2>1. proc'[p].at = "start" /\ Settled
    BY <1>0, <1>1, <1>5, <1>6 DEF MigrateBegin, Become, ProcsOK, Process
  <2> QED BY <1>2, <2>1, CarefulRests
<1>7. ASSUME NEW n \in Names, MigrateAwaiting(p, n) \/ CompleteBegin(p, n)
      PROVE  CarefulOK(proc[p])'
  <2>1. proc'[p].at = "active" /\ Settled /\ n \in ActiveMigrations(migrations)
    <3>1. Become(p, [Idle EXCEPT !.at = "active", !.verb = "complete"])
      BY <1>7 DEF MigrateAwaiting, CompleteBegin
    <3> QED BY <1>0, <1>1, <1>5, <1>7, <3>1
               DEF Become, ProcsOK, Process, MigrateAwaiting, CompleteBegin
  <2>2. phys[n] \in Materialized
    BY <1>1, <1>7 DEF MigrateAwaiting, CompleteBegin
  <2>3. \A k \in ActiveMigrations(migrations) : k = n
    BY <1>0, <2>1 DEF RowsConsistent, OnlyOneActive, ActiveMigrations
  <2> QED BY <1>1, <1>2, <2>1, <2>2, <2>3
             DEF CarefulOK, Forward, ExpandOK, QueueOK, TakeBackOK, Queued, Draining,
                 Completing, Undoing, Finishing
<1>8. ASSUME NEW n \in ActiveMigrations(migrations),
             Become(p, [Idle EXCEPT !.at = "dropVersion", !.verb = "rollback", !.cur = n])
      PROVE  CarefulOK(proc[p])'
  <2>1. proc'[p].at = "dropVersion" /\ proc'[p].verb = "rollback" /\ proc'[p].cur = n
    BY <1>0, <1>5, <1>8 DEF Become, ProcsOK, Process
  <2> QED BY <1>1, <1>8, <2>1
             DEF CarefulOK, Forward, ExpandOK, QueueOK, TakeBackOK, Queued, Draining,
                 Completing, Undoing, Finishing
<1>9. ASSUME NEW n \in Names, RevertBegin(p, n)
      PROVE  CarefulOK(proc[p])'
  <2> DEFINE window  == UnsealedMigrations(migrations)
             targets == {k \in window : migrations[k].created >= migrations[n].created}
             applied == {k \in targets : migrations[k].done /\ ~migrations[k].deferred}
             queue   == ByCreation(targets)
  <2>1. n \in window /\ Become(p, [Idle EXCEPT !.at = "dropVersion", !.verb = "revert",
                                   !.cur = Newest(queue), !.queue = queue,
                                   !.applied = applied])
    BY <1>9 DEF RevertBegin
  <2>2. \A k \in ActiveMigrations(migrations) : k \in targets
    <3>1. n \in DOMAIN migrations /\ \A k \in DOMAIN migrations : migrations[k].created \in Nat
      BY <1>0, <2>1, TimestampsAssumption DEF UnsealedMigrations, IsTable, Row
    <3>2. \A k \in ActiveMigrations(migrations) :
            k \in window /\ migrations[n].created <= migrations[k].created
      BY <1>0, <3>1 DEF ActiveMigrations, UnsealedMigrations, RowsConsistent,
                        DeployedTable, ActiveLast
    <3> QED BY <3>1, <3>2 DEF ActiveMigrations
  <2>3. DOMAIN queue = targets
    BY DEF ByCreation
  <2> HIDE DEF targets, applied, queue
  <2>4. /\ proc'[p].at = "dropVersion" /\ proc'[p].verb = "revert"
        /\ proc'[p].queue = queue
    BY <1>0, <1>5, <2>1 DEF Become, ProcsOK, Process
  <2> QED BY <1>1, <2>2, <2>3, <2>4
             DEF CarefulOK, Forward, ExpandOK, QueueOK, TakeBackOK, Queued, Draining,
                 Completing, Undoing, Finishing
<1>10. ASSUME NEW force \in BOOLEAN, FinishBegin(p, force)
       PROVE  CarefulOK(proc[p])'
  <2> DEFINE queue == ByCreation(DeferredCompletes(migrations))
             drops == DOMAIN queue \cap OnCompleteSQL # {}
             live == LatestMigration(migrations)
  <2>0. Settled
    BY <1>1, <1>10 DEF FinishBegin
  <2>1. CASE Become(p, [Idle EXCEPT !.at = "stamp", !.verb = "finish"])
    <3>1. proc'[p].at = "stamp"
      BY <1>0, <1>5, <2>1 DEF Become, ProcsOK, Process
    <3> QED BY <1>2, <2>0, <3>1, CarefulRests
  <2>2. CASE /\ DOMAIN queue # {}
             /\ Become(p, [Idle EXCEPT !.at = "seal", !.verb = "finish", !.cur = live,
                              !.queue = queue, !.dropLive = drops])
    <3>1. DOMAIN queue = DeferredCompletes(migrations)
      BY DEF ByCreation
    <3>2. live \in DOMAIN migrations
      BY <1>0, <2>2, <3>1, LatestExists DEF DeferredCompletes, DeployedTable
    <3> HIDE DEF queue, drops, live
    <3>3. /\ proc'[p].at = "seal" /\ proc'[p].verb = "finish" /\ proc'[p].cur = live
          /\ proc'[p].queue = queue
      BY <1>0, <1>5, <2>2 DEF Become, ProcsOK, Process
    <3>4. ActiveMigrations(migrations') = {}
      BY <1>1, <1>10 DEF FinishBegin, IsActiveMigrationPeriod
    <3> QED BY <1>1, <1>2, <2>0, <3>1, <3>2, <3>3, <3>4
               DEF CarefulOK, Forward, ExpandOK, QueueOK, TakeBackOK, Queued, Draining,
                   Completing, Undoing, Finishing, DeferredCompletes
  <2> QED BY <1>10, <2>1, <2>2 DEF FinishBegin
<1>11. ASSUME StartFails(p) \/ Crash(p)
       PROVE  CarefulOK(proc[p])'
  <2>1. CASE Return(p)
    BY <1>0, <2>1, Becomes, CarefulRests
  <2> QED BY <1>8, <1>11, <2>1 DEF StartFails, Crash
<1>12. CarefulOK(proc[p])'
  BY <1>6, <1>7, <1>8, <1>9, <1>10, <1>11 DEF Command, RollbackBegin
<1> QED BY <1>0, <1>1, <1>2, <1>4, <1>12, CarefulStep

(***************************************************************************)
(* The steps of Start.                                                     *)
(***************************************************************************)
LEMMA StartKeepsCareful ==
  ASSUME OneAtATime, CarefulDeployment, CarefulInv, SerialInv', NEW p \in Procs,
         \/ StartBegin(p) \/ Start(p) \/ StartOperations(p) \/ EnsureViews(p)
         \/ CreateTriggers(p) \/ Backfill(p)
  PROVE  CarefulInv' /\ Settled'
<1> DEFINE n == proc[p].cur
<1>0. /\ ProcsOK /\ StateOK /\ SerialOK(proc[p]) /\ CarefulOK(proc[p])
      /\ RowsConsistent(migrations) /\ schemas \subseteq DOMAIN migrations /\ Awaiting
      /\ DOMAIN migrations \subseteq Names
  BY CarefulFacts
<1>1. Settled /\ n \in Names
  <2>1. proc[p].at \in {"start", "insert", "ops", "views", "triggers", "backfill"}
    BY DEF StartBegin, Start, StartOperations, EnsureViews, CreateTriggers, Backfill, At
  <2>2. proc[p].cur \in Names
    BY <2>1, CarefulFacts DEF Working, Steps
  <2> QED BY <1>0, <2>1, <2>2 DEF CarefulOK, Forward
<1>2. CASE StartBegin(p)
  <2>1. /\ UNCHANGED <<migrations, phys, schemas, marker>> /\ proc[p].at = "start"
        /\ Return(p) \/ Goto(p, "insert")
    BY <1>2 DEF StartBegin, At, db
  <2>2. Settled'
    BY <1>1, <2>1 DEF Settled
  <2>3. Awaiting'
    BY <1>0, <2>1, AwaitingKept
  <2>4. CarefulOK(proc[p])'
    BY <1>0, <2>1, <2>2, Becomes, GotoKeeps, CarefulRests
  <2> QED BY <1>0, <2>1, <2>2, <2>3, <2>4, CarefulStep
<1>3. CASE Start(p)
  <2>0. SerialInv
    BY DEF CarefulInv
  <2>1. /\ UNCHANGED <<phys, schemas, marker>> /\ proc[p].at = "insert"
        /\ \/ UNCHANGED migrations /\ Return(p)
           \/ /\ n \notin DOMAIN migrations
              /\ DOMAIN migrations' = DOMAIN migrations \cup {n}
              /\ \A k \in DOMAIN migrations : migrations'[k] = migrations[k]
              /\ \A k \in DOMAIN migrations : migrations[k].done
              /\ ~migrations'[n].done
              /\ Goto(p, "ops")
    BY <1>3, <2>0, StartAdds
  <2>2. Settled'
    BY <1>1, <2>1 DEF Settled
  <2>3. Awaiting'
    <3>1. \A k \in ActiveMigrations(migrations') :
            k \in schemas' => k \in ActiveMigrations(migrations)
      BY <1>0, <2>1 DEF ActiveMigrations
    <3> QED BY <1>0, <2>1, <3>1, AwaitingKept
  <2>4. CarefulOK(proc[p])'
    BY <1>0, <2>1, <2>2, Becomes, GotoKeeps, CarefulRests
  <2> QED BY <1>0, <2>1, <2>2, <2>3, <2>4, CarefulStep
<1>4. CASE StartOperations(p) \/ EnsureViews(p) \/ CreateTriggers(p) \/ Backfill(p)
  <2>1. /\ UNCHANGED migrations
        /\ n \in ActiveMigrations(migrations) /\ n \in DOMAIN migrations
        /\ ~migrations[n].done
        /\ \A k \in ActiveMigrations(migrations) : k = n
    BY <1>0, <1>4
       DEF StartOperations, CreateTriggers, Backfill, EnsureViews, At, SerialOK, ForwardOK,
           OnActive, RowsConsistent, OnlyOneActive, ActiveMigrations
  <2>2. \A k \in Names \ {n} : phys'[k] = phys[k]
    BY <1>0, <1>4 DEF StartOperations, CreateTriggers, Backfill, EnsureViews, StateOK
  <2>3. Settled'
    BY <1>0, <1>1, <2>1, <2>2 DEF Settled
  <2>4. schemas' \subseteq DOMAIN migrations'
    BY <1>0, <1>4, <2>1 DEF StartOperations, CreateTriggers, Backfill, EnsureViews
  \* Where the process goes, and the phase the migration has reached there.
  <2>5. \/ /\ UNCHANGED <<proc, schemas, marker>> /\ proc[p].at = "ops"
           /\ phys[n] \in {"absent", "expanding"}
        \/ /\ Goto(p, "views") /\ UNCHANGED <<schemas, marker>> /\ proc[p].at = "ops"
           /\ phys[n] \in {"absent", "expanding"}
           /\ phys'[n] = IF n \in Backfilled THEN "expanded" ELSE "ready"
        \/ Goto(p, "triggers") /\ phys'[n] = "expanded" /\ n \in Backfilled
        \/ Return(p) /\ n \in marker'
        \/ Goto(p, "backfill") /\ phys'[n] = "filling" /\ n \in marker'
        \/ (Goto(p, "active") \/ Return(p)) /\ phys'[n] = "ready"
    <3>1. CASE StartOperations(p)
      BY <1>0, <1>1, <3>1
         DEF StartOperations, AfterViews, AfterStart, At, StateOK, Materialized
    <3>2. CASE EnsureViews(p)
      BY <1>0, <1>1, <3>2 DEF EnsureViews, AfterViews, AfterStart, At, CarefulOK, ExpandOK
    <3>3. CASE CreateTriggers(p)
      BY <1>0, <1>1, <3>3 DEF CreateTriggers, At, CarefulOK, ExpandOK, CarefulDeployment, StateOK
    <3>4. CASE Backfill(p)
      BY <1>0, <1>1, <3>4 DEF Backfill, AfterStart, At, CarefulOK, ExpandOK, StateOK
    <3> QED BY <1>4, <3>1, <3>2, <3>3, <3>4
  <2>6. \/ /\ proc'[p].at = "ops" /\ UNCHANGED <<schemas, marker>> /\ proc[p].at = "ops"
           /\ phys[n] \in {"absent", "expanding"}
        \/ /\ proc'[p].at = "views" /\ UNCHANGED <<schemas, marker>> /\ proc[p].at = "ops"
           /\ phys[n] \in {"absent", "expanding"}
           /\ proc'[p].cur = n /\ phys'[n] = IF n \in Backfilled THEN "expanded" ELSE "ready"
        \/ /\ proc'[p].at = "triggers" /\ proc'[p].cur = n /\ phys'[n] = "expanded"
           /\ n \in Backfilled
        \/ proc'[p].at = "idle" /\ n \in marker'
        \/ proc'[p].at = "backfill" /\ proc'[p].cur = n /\ phys'[n] = "filling" /\ n \in marker'
        \/ proc'[p].at \in {"active", "idle"} /\ phys'[n] = "ready"
    BY <1>0, <2>5, GotoKeeps, Becomes
  <2>7. CarefulOK(proc[p])'
    BY <2>1, <2>3, <2>6
       DEF CarefulOK, Forward, ExpandOK, QueueOK, TakeBackOK, Queued, Draining,
           Completing, Undoing, Finishing, Materialized
  <2>8. Awaiting'
    <3>1. proc[p].at = "ops" => \/ n \notin schemas \/ n \in marker
                                \/ phys[n] \in Materialized \/ KilledBeforeMarker(n)
      BY <1>0, <2>1 DEF Awaiting
    <3> QED BY <2>1, <2>6, <3>1 DEF Awaiting, Materialized, KilledBeforeMarker
  <2> QED BY <2>3, <2>4, <2>7, <2>8, CarefulStep
<1> QED BY <1>2, <1>3, <1>4

(***************************************************************************)
(* A step that changes neither the table nor the phases, nor adds schemas. *)
(***************************************************************************)
LEMMA CarefulQuiet ==
  ASSUME OneAtATime, CarefulInv, SerialInv', NEW p \in Procs,
         UNCHANGED <<migrations, phys, marker>>, schemas' \subseteq schemas,
         CarefulOK(proc[p])'
  PROVE  CarefulInv' /\ (Settled => Settled')
<1>1. schemas \subseteq DOMAIN migrations /\ Awaiting
  BY DEF CarefulInv
<1>2. Awaiting'
  BY <1>1, AwaitingKept
<1>3. Settled' = Settled
  BY DEF Settled
<1> QED BY <1>1, <1>2, <1>3, CarefulStep

(***************************************************************************)
(* Complete takes up the migration that is active, and reads the queue.    *)
(***************************************************************************)
LEMMA ActiveKeepsCareful ==
  ASSUME OneAtATime, CarefulInv, SerialInv', NEW p \in Procs,
         GetActiveMigration(p) \/ MarkCompleteDeferred(p) \/ ReadQueue(p)
  PROVE  CarefulInv' /\ Settled'
<1> DEFINE n == proc[p].cur
<1>0. /\ ProcsOK /\ SerialOK(proc[p]) /\ CarefulOK(proc[p]) /\ proc[p] \in Process
      /\ RowsConsistent(migrations) /\ schemas \subseteq DOMAIN migrations /\ Awaiting
      /\ \A k \in DOMAIN migrations : migrations[k] \in Row
  BY CarefulFacts
<1>1. Settled
  BY <1>0 DEF GetActiveMigration, MarkCompleteDeferred, ReadQueue, At, CarefulOK, Forward
<1>2. CASE GetActiveMigration(p)
  <2>1. UNCHANGED <<migrations, phys, schemas, marker>> /\ proc[p].at = "active"
    BY <1>2 DEF GetActiveMigration, At, db
  <2>2. Settled'
    BY <1>1, <2>1 DEF Settled
  <2>3. ASSUME NEW k \in ActiveMigrations(migrations),
               NEW at \in {"defer", "own", "dropOld", "queue"},
               Become(p, [proc[p] EXCEPT !.cur = k, !.at = at])
        PROVE  CarefulOK(proc[p])'
    <3>1. proc'[p].at = at /\ proc'[p].cur = k /\ proc'[p].verb = proc[p].verb
      BY <1>0, <2>3 DEF Become, ProcsOK, Process
    <3>2. phys'[k] \in Materialized
      BY <1>0, <2>1, <2>3 DEF CarefulOK, ExpandOK
    <3>3. proc[p].verb # "finish"
      BY <1>0, <2>1 DEF SerialOK, ForwardOK, Finishing
    <3> QED BY <2>2, <3>1, <3>2, <3>3
               DEF CarefulOK, Forward, ExpandOK, QueueOK, TakeBackOK, Queued, Draining,
                   Completing, Undoing, Finishing
  <2>4. CASE Return(p)
    BY <1>0, <2>1, <2>2, <2>4, Becomes, CarefulRests, CarefulQuiet
  <2>5. CASE \E k \in ActiveMigrations(migrations) :
               Become(p, [proc[p] EXCEPT !.cur = k,
                 !.at = IF Intermediate(p)
                        THEN IF First(proc[p].todo) \in Destructive THEN "defer" ELSE "own"
                        ELSE IF versionSchemas THEN "dropOld" ELSE "queue"])
    <3> DEFINE at == IF Intermediate(p)
                     THEN IF First(proc[p].todo) \in Destructive THEN "defer" ELSE "own"
                     ELSE IF versionSchemas THEN "dropOld" ELSE "queue"
    <3>1. PICK k \in ActiveMigrations(migrations) :
            Become(p, [proc[p] EXCEPT !.cur = k, !.at = at])
      BY <2>5
    <3>2. at \in {"defer", "own", "dropOld", "queue"}
      OBVIOUS
    <3> HIDE DEF at
    <3>3. CarefulOK(proc[p])'
      BY <2>3, <3>1, <3>2
    <3> QED BY <2>1, <2>2, <3>3, CarefulQuiet
  <2> QED BY <1>2, <2>4, <2>5 DEF GetActiveMigration
<1>3. CASE MarkCompleteDeferred(p)
  <2>1. /\ n \in ActiveMigrations(migrations) /\ phys[n] \in Materialized
        /\ UNCHANGED <<phys, marker, schemas>> /\ proc[p].at = "defer"
    BY <1>0, <1>3 DEF MarkCompleteDeferred, At, SerialOK, ForwardOK, OnActive, CarefulOK,
                      ExpandOK, Completing
  <2>2. migrations' = MarkedDeferred(migrations, n) /\ NextMigration(p)
    BY <1>3, <2>1 DEF MarkCompleteDeferred
  <2>3. /\ DOMAIN migrations' = DOMAIN migrations
        /\ \A k \in DOMAIN migrations \ {n} : migrations'[k] = migrations[k]
        /\ migrations'[n].done /\ n \in DOMAIN migrations
    BY <1>0, <2>1, <2>2, UpdatedRows DEF ActiveMigrations
  <2>4. Settled'
    BY <1>1, <2>1, <2>3 DEF Settled
  <2>5. ActiveMigrations(migrations') = {}
    BY <1>0, <2>1, <2>3 DEF RowsConsistent, OnlyOneActive, ActiveMigrations
  <2>6. Awaiting'
    BY <2>5 DEF Awaiting
  <2>7. CarefulOK(proc[p])'
    BY <1>0, <2>2, <2>4, NextKeeps, Becomes, CarefulRests
  <2> QED BY <1>0, <2>1, <2>3, <2>4, <2>6, <2>7, CarefulStep
<1>4. CASE ReadQueue(p)
  <2> DEFINE queue == ByCreation(DeferredCompletes(migrations))
             drops == ({proc[p].cur} \cup DOMAIN queue) \cap OnCompleteSQL # {}
             at == IF DOMAIN queue = {} THEN "own" ELSE "seal"
  <2>1. UNCHANGED <<migrations, phys, marker, schemas>> /\ proc[p].at = "queue"
    BY <1>4 DEF ReadQueue, At, db
  <2>2. Become(p, [proc[p] EXCEPT !.at = at, !.queue = queue, !.dropLive = drops])
    BY <1>4 DEF ReadQueue
  <2>3. at \in {"own", "seal"} /\ DOMAIN queue = DeferredCompletes(migrations)
    BY DEF ByCreation
  <2> HIDE DEF queue, drops, at
  <2>4. /\ proc'[p].at = at /\ proc'[p].queue = queue
        /\ proc'[p].cur = proc[p].cur /\ proc'[p].verb = proc[p].verb
    BY <1>0, <2>2 DEF Become, ProcsOK, Process
  <2>5. /\ n \in ActiveMigrations(migrations) /\ n \in DOMAIN migrations
        /\ phys[n] \in Materialized /\ proc[p].verb # "finish"
    BY <1>0, <2>1 DEF SerialOK, ForwardOK, OnActive, CarefulOK, ExpandOK, Completing,
                      ActiveMigrations, Finishing
  <2>6. Settled'
    BY <1>1, <2>1 DEF Settled
  <2>7. CarefulOK(proc[p])'
    BY <2>1, <2>3, <2>4, <2>5, <2>6
       DEF CarefulOK, Forward, ExpandOK, QueueOK, TakeBackOK, Queued, Draining,
           Completing, Undoing, Finishing
  <2> QED BY <2>1, <2>6, <2>7, CarefulQuiet
<1> QED BY <1>2, <1>3, <1>4

(***************************************************************************)
(* The steps up to the drain.                                              *)
(***************************************************************************)
LEMMA SealKeepsCareful ==
  ASSUME OneAtATime, CarefulInv, SerialInv', NEW p \in Procs,
         DropOldSchemas(p) \/ SealBeforeDrain(p) \/ DropLiveSchema(p)
  PROVE  CarefulInv' /\ Settled'
<1>0. /\ ProcsOK /\ SerialOK(proc[p]) /\ CarefulOK(proc[p]) /\ proc[p] \in Process
      /\ schemas \subseteq DOMAIN migrations /\ Awaiting
      /\ \A k \in DOMAIN migrations : migrations[k] \in Row
  BY CarefulFacts
<1>1. Settled
  BY <1>0 DEF DropOldSchemas, SealBeforeDrain, DropLiveSchema, At, CarefulOK, Forward
<1>2. CASE DropOldSchemas(p) \/ DropLiveSchema(p)
  <2>1. /\ UNCHANGED <<migrations, phys, marker>> /\ schemas' \subseteq schemas
        /\ proc[p].at \in {"dropOld", "dropLive"}
    BY <1>2 DEF DropOldSchemas, DropLiveSchema, At
  <2>2. Settled'
    BY <1>1, <2>1 DEF Settled
  <2>3. \/ Return(p)
        \/ Goto(p, "queue") /\ proc[p].at = "dropOld" /\ proc[p].verb # "finish"
        \/ Goto(p, "dropLive") /\ proc[p].at = "dropOld" /\ proc[p].verb = "finish"
        \/ Goto(p, "drain") /\ (proc[p].at = "dropOld" => proc[p].verb = "finish")
    BY <1>2 DEF DropOldSchemas, DropLiveSchema, At
  <2>4. CASE Return(p)
    BY <1>0, <2>1, <2>2, <2>4, Becomes, CarefulRests, CarefulQuiet
  <2>5. ASSUME NEW step \in {"queue", "dropLive", "drain"}, Goto(p, step),
               step = "queue" => proc[p].at = "dropOld" /\ proc[p].verb # "finish",
               step # "queue" /\ proc[p].at = "dropOld" => proc[p].verb = "finish"
        PROVE  CarefulOK(proc[p])'
    <3>1. ActiveMigrations(migrations') = ActiveMigrations(migrations)
      BY <2>1
    <3> QED BY <1>0, <2>1, <2>2, <2>5, <3>1, GotoKeeps
       DEF CarefulOK, Forward, ExpandOK, QueueOK, TakeBackOK, Queued, Draining,
           Completing, Undoing, Finishing, DeferredCompletes
  <2>6. CASE ~Return(p)
    <3>1. CarefulOK(proc[p])'
      BY <2>3, <2>5, <2>6
    <3> QED BY <2>1, <2>2, <3>1, CarefulQuiet
  <2> QED BY <2>4, <2>6
<1>3. CASE SealBeforeDrain(p)
  <2>1. /\ migrations' = MarkedSealed(migrations) /\ proc[p].at = "seal"
        /\ UNCHANGED <<phys, marker, schemas>>
    BY <1>3 DEF SealBeforeDrain, At
  <2>2. PICK step \in {"drain", "dropOld", "dropLive"} :
          /\ Goto(p, step)
          /\ step = "dropOld" => proc[p].verb = "finish"
    BY <1>3 DEF SealBeforeDrain
  <2>3. /\ DOMAIN migrations' = DOMAIN migrations
        /\ \A k \in DOMAIN migrations : /\ migrations'[k].done = migrations[k].done
                                        /\ migrations'[k].deferred = migrations[k].deferred
    BY <1>0, <2>1, SealedRows
  <2>4. Settled'
    BY <1>1, <2>1, <2>3 DEF Settled
  <2>5. /\ ActiveMigrations(migrations') = ActiveMigrations(migrations)
        /\ DeferredCompletes(migrations') = DeferredCompletes(migrations)
    BY <2>3 DEF ActiveMigrations, DeferredCompletes
  <2>6. Awaiting'
    BY <1>0, <2>1, <2>5, AwaitingKept
  <2>7. CarefulOK(proc[p])'
    BY <1>0, <2>1, <2>2, <2>3, <2>4, <2>5, GotoKeeps
       DEF CarefulOK, Forward, ExpandOK, QueueOK, TakeBackOK, Queued, Draining,
           Completing, Undoing, Finishing
  <2> QED BY <1>0, <2>1, <2>3, <2>4, <2>6, <2>7, CarefulStep
<1> QED BY <1>2, <1>3

(***************************************************************************)
(* The Complete operations of a migration that is expanded and backfilled. *)
(***************************************************************************)
LEMMA Contracts ==
  ASSUME StateOK, NEW p \in Procs, NEW n \in Names, NEW step, Contract(p, n, step),
         phys[n] \in Materialized
  PROVE  /\ \A k \in Names \ {n} : phys'[k] = phys[k]
         /\ phys'[n] \in {"contracting", "contracted"}
         /\ \A k \in Names \ {n} : k \in marker' <=> k \in marker
         /\ \/ UNCHANGED proc /\ phys[n] = "ready"
            \/ Goto(p, step) /\ phys'[n] = "contracted"
BY DEF StateOK, Contract, Materialized

(***************************************************************************)
(* The Complete operations, queued or own.                                 *)
(***************************************************************************)
LEMMA ContractKeepsCareful ==
  ASSUME OneAtATime, CarefulInv, SerialInv', NEW p \in Procs,
         ApplyDeferredComplete(p) \/ CompleteOperations(p)
  PROVE  CarefulInv' /\ Settled'
<1>0. /\ ProcsOK /\ StateOK /\ SerialOK(proc[p]) /\ CarefulOK(proc[p])
      /\ proc[p] \in Process /\ QueueBounded(proc[p].queue) /\ RowsConsistent(migrations)
      /\ schemas \subseteq DOMAIN migrations /\ Awaiting /\ DOMAIN migrations \subseteq Names
  BY CarefulFacts
<1>1. /\ UNCHANGED <<migrations, schemas>> /\ Settled
      /\ proc[p].at # "triggers"
  BY <1>0 DEF ApplyDeferredComplete, CompleteOperations, At, CarefulOK, Forward
<1>2. ASSUME NEW n \in Names, NEW step, Contract(p, n, step), phys[n] \in Materialized
      PROVE  /\ Settled' /\ Awaiting'
             /\ \A k \in Names : phys[k] \in Materialized => phys'[k] \in Materialized
  <2>1. /\ \A k \in Names \ {n} : phys'[k] = phys[k]
        /\ phys'[n] \in Materialized
        /\ \A k \in Names \ {n} : k \in marker' <=> k \in marker
    BY <1>0, <1>2, Contracts DEF Materialized
  <2>2. Settled'
    BY <1>0, <1>1, <2>1 DEF Settled
  <2>3. Awaiting'
    BY <1>0, <1>1, <2>1, AwaitingKept DEF ActiveMigrations
  <2> QED BY <2>1, <2>2, <2>3
<1>3. CASE ApplyDeferredComplete(p)
  <2> DEFINE n == Oldest(proc[p].queue)
             last == proc[p].verb = "finish" /\ DOMAIN proc[p].queue = {n}
             step == IF last THEN "refresh" ELSE "clear"
  <2>1. proc[p].at = "drain" /\ Contract(p, n, step)
    BY <1>3 DEF ApplyDeferredComplete, At
  <2>2. /\ DOMAIN proc[p].queue # {}
        /\ DOMAIN proc[p].queue \subseteq DeferredCompletes(migrations)
        /\ proc[p].cur \in DOMAIN migrations
    BY <1>0, <2>1 DEF SerialOK, DrainOK, Draining, CarefulOK, QueueOK, Queued
  <2>3. n \in DOMAIN proc[p].queue /\ n \in Names
    BY <1>0, <2>2, NewestOK DEF Process
  <2>4. phys[n] \in Materialized
    BY <1>0, <1>1, <2>2, <2>3 DEF Settled, DeferredCompletes, RowsConsistent
  <2>5. /\ Settled' /\ Awaiting'
        /\ \A k \in Names : phys[k] \in Materialized => phys'[k] \in Materialized
    BY <1>2, <2>1, <2>3, <2>4
  <2>6. /\ step \in {"refresh", "clear"} /\ (step = "refresh" => proc[p].verb = "finish")
        /\ UNCHANGED proc \/ Goto(p, step)
    BY <1>0, <2>1, <2>3, <2>4, Contracts
  <2> HIDE DEF step, n
  <2>7. /\ \/ proc'[p].at = "drain"
           \/ /\ proc'[p].at \in {"refresh", "clear"}
              /\ proc'[p].at = "refresh" => proc[p].verb = "finish"
        /\ proc'[p].verb = proc[p].verb /\ proc'[p].cur = proc[p].cur
        /\ proc'[p].queue = proc[p].queue
    BY <1>0, <2>1, <2>6, GotoKeeps
  <2>8. CarefulOK(proc[p])'
    <3>1. proc[p].verb # "finish" => phys'[proc[p].cur] \in Materialized
      BY <1>0, <2>1, <2>2, <2>5 DEF CarefulOK, ExpandOK, Completing, Finishing
    <3>2. /\ DeferredCompletes(migrations') = DeferredCompletes(migrations)
          /\ ActiveMigrations(migrations') = ActiveMigrations(migrations)
      BY <1>1
    <3>3. proc[p].verb = "finish" => ActiveMigrations(migrations) = {}
      BY <1>0, <2>1 DEF CarefulOK, QueueOK, Queued, Draining, Finishing
    <3> QED BY <1>1, <2>2, <2>5, <2>7, <3>1, <3>2, <3>3
               DEF CarefulOK, Forward, ExpandOK, QueueOK, TakeBackOK, Queued, Draining,
                   Completing, Undoing, Finishing
  <2> QED BY <1>0, <1>1, <2>5, <2>8, CarefulStep
<1>4. CASE CompleteOperations(p)
  <2> DEFINE n == proc[p].cur
             recreate == /\ versionSchemas /\ ~Intermediate(p)
                         /\ proc[p].dropLive \/ n \in RawSQL
             step == IF recreate THEN "reproject" ELSE "done"
  <2>1. proc[p].at = "own" /\ Contract(p, n, step)
    BY <1>4 DEF CompleteOperations, At
  <2>2. /\ n \in ActiveMigrations(migrations) /\ proc[p].verb # "finish" /\ n \in Names
        /\ phys[n] \in Materialized
    BY <1>0, <2>1 DEF SerialOK, ForwardOK, OnActive, Finishing, CarefulOK, ExpandOK,
                      Completing, ActiveMigrations
  <2>3. Settled' /\ Awaiting' /\ phys'[n] \in Materialized
    BY <1>2, <2>1, <2>2
  <2>4. step \in {"reproject", "done"} /\ (UNCHANGED proc \/ Goto(p, step))
    BY <1>0, <2>1, <2>2, Contracts
  <2> HIDE DEF step
  <2>5. /\ proc'[p].at \in {"own", "reproject", "done"}
        /\ proc'[p].verb = proc[p].verb /\ proc'[p].cur = n
    BY <1>0, <2>1, <2>4, GotoKeeps
  <2>6. CarefulOK(proc[p])'
    BY <2>2, <2>3, <2>5
       DEF CarefulOK, Forward, ExpandOK, QueueOK, TakeBackOK, Queued, Draining,
           Completing, Undoing, Finishing
  <2> QED BY <1>0, <1>1, <2>3, <2>6, CarefulStep
<1> QED BY <1>3, <1>4

(***************************************************************************)
(* The rest of the drain: the flag of the oldest row is cleared, the       *)
(* snapshot taken again and the live schema projected again.               *)
(***************************************************************************)
LEMMA DrainKeepsCareful ==
  ASSUME OneAtATime, CarefulInv, SerialInv', NEW p \in Procs,
         ClearCompleteDeferred(p) \/ RefreshResultingSchema(p) \/ Reproject(p)
  PROVE  CarefulInv' /\ Settled'
<1>0. /\ ProcsOK /\ SerialOK(proc[p]) /\ CarefulOK(proc[p]) /\ proc[p] \in Process
      /\ schemas \subseteq DOMAIN migrations /\ Awaiting /\ QueueBounded(proc[p].queue)
      /\ \A k \in DOMAIN migrations : migrations[k] \in Row
  BY CarefulFacts
<1>1. /\ UNCHANGED <<phys, marker>> /\ Settled /\ proc[p].at # "triggers"
  BY <1>0 DEF ClearCompleteDeferred, RefreshResultingSchema, Reproject, At, CarefulOK, Forward
<1>2. CASE ClearCompleteDeferred(p)
  <2> DEFINE n == Oldest(proc[p].queue)
             rest == Restrict(proc[p].queue, DOMAIN proc[p].queue \ {n})
             at == IF DOMAIN rest # {} THEN "drain"
                   ELSE IF proc[p].verb = "finish" THEN "reseal" ELSE "own"
  <2>1. /\ proc[p].at = "clear" /\ UNCHANGED schemas
        /\ Become(p, [proc[p] EXCEPT !.queue = rest, !.at = at])
    BY <1>2 DEF ClearCompleteDeferred, At
  <2>2. /\ DOMAIN proc[p].queue # {}
        /\ DOMAIN proc[p].queue \subseteq DeferredCompletes(migrations)
        /\ proc[p].cur \in DOMAIN migrations
    BY <1>0, <2>1 DEF SerialOK, DrainOK, Draining, CarefulOK, QueueOK, Queued
  <2>3. n \in DOMAIN proc[p].queue /\ n \in DOMAIN migrations
    BY <1>0, <2>2, NewestOK DEF Process, DeferredCompletes
  <2>4. migrations' = DeferredCleared(migrations, n)
    BY <1>2, <2>3 DEF ClearCompleteDeferred
  <2>5. /\ DOMAIN migrations' = DOMAIN migrations
        /\ \A k \in DOMAIN migrations \ {n} : migrations'[k] = migrations[k]
        /\ migrations'[n].done = migrations[n].done
    BY <1>0, <2>3, <2>4, UpdatedRows
  <2>6. DOMAIN rest = DOMAIN proc[p].queue \ {n}
    BY DEF Restrict
  <2>7. at \in {"drain", "reseal", "own"} /\ (at = "own" => proc[p].verb # "finish")
    OBVIOUS
  <2> HIDE DEF rest, at, n
  <2>8. /\ proc'[p].at = at /\ proc'[p].queue = rest
        /\ proc'[p].verb = proc[p].verb /\ proc'[p].cur = proc[p].cur
    BY <1>0, <2>1 DEF Become, ProcsOK, Process
  <2>9. Settled'
    BY <1>1, <2>5 DEF Settled
  <2>10. /\ ActiveMigrations(migrations') = ActiveMigrations(migrations)
         /\ DOMAIN rest \subseteq DeferredCompletes(migrations')
    BY <2>2, <2>5, <2>6 DEF ActiveMigrations, DeferredCompletes
  <2>11. Awaiting'
    BY <1>0, <1>1, <2>1, <2>10, AwaitingKept
  <2>12. /\ proc[p].verb # "finish" => phys[proc[p].cur] \in Materialized
         /\ proc[p].verb = "finish" => ActiveMigrations(migrations) = {}
    BY <1>0, <2>1 DEF CarefulOK, ExpandOK, Completing, QueueOK, Queued, Draining, Finishing
  <2>13. CarefulOK(proc[p])'
    BY <1>1, <2>2, <2>5, <2>7, <2>8, <2>9, <2>10, <2>12
       DEF CarefulOK, Forward, ExpandOK, QueueOK, TakeBackOK, Queued, Draining,
           Completing, Undoing, Finishing
  <2> QED BY <1>0, <2>1, <2>5, <2>9, <2>11, <2>13, CarefulStep
<1>3. CASE RefreshResultingSchema(p)
  <2>1. UNCHANGED <<migrations, schemas>> /\ proc[p].at = "refresh"
    BY <1>3 DEF RefreshResultingSchema, At
  <2>2. Settled'
    BY <1>1, <2>1 DEF Settled
  <2>3. CASE Return(p)
    BY <1>0, <1>1, <2>1, <2>2, <2>3, Becomes, CarefulRests, CarefulQuiet
  <2>4. ASSUME NEW step \in {"reproject", "clear"}, Goto(p, step)
        PROVE  CarefulInv'
    <3>1. proc[p].verb = "finish"
      BY <1>0, <2>1 DEF SerialOK, ViewsOK, Finishing
    <3>2. CarefulOK(proc[p])'
      BY <1>0, <1>1, <2>1, <2>2, <2>4, <3>1, GotoKeeps
         DEF CarefulOK, Forward, ExpandOK, QueueOK, TakeBackOK, Queued, Draining,
             Completing, Undoing, Finishing, DeferredCompletes
    <3> QED BY <1>1, <2>1, <3>2, CarefulQuiet
  <2> QED BY <1>3, <2>2, <2>3, <2>4 DEF RefreshResultingSchema
<1>4. CASE Reproject(p)
  <2>1. /\ UNCHANGED migrations /\ schemas' = schemas \cup {proc[p].cur}
        /\ proc[p].at = "reproject"
    BY <1>4 DEF Reproject, At
  <2>2. PICK step \in {"clear", "done"} :
          Goto(p, step) /\ (step = "clear" <=> proc[p].verb = "finish")
    BY <1>4 DEF Reproject
  <2>3. Settled'
    BY <1>1, <2>1 DEF Settled
  <2>4. /\ proc[p].cur \in DOMAIN migrations
        /\ proc[p].cur \in ActiveMigrations(migrations) => phys[proc[p].cur] \in Materialized
    BY <1>0, <1>1, <2>1
       DEF SerialOK, ForwardOK, OnActive, CarefulOK, QueueOK, Queued, Draining, ExpandOK,
           Completing, ActiveMigrations, Settled, Finishing, DrainOK
  <2>5. Awaiting'
    BY <1>0, <1>1, <2>1, <2>4, AwaitingKept
  <2>6. CarefulOK(proc[p])'
    BY <1>0, <1>1, <2>1, <2>2, <2>3, GotoKeeps
       DEF CarefulOK, Forward, ExpandOK, QueueOK, TakeBackOK, Queued, Draining,
           Completing, Undoing, Finishing, DeferredCompletes
  <2> QED BY <1>0, <2>1, <2>3, <2>4, <2>5, <2>6, CarefulStep
<1> QED BY <1>2, <1>3, <1>4

(***************************************************************************)
(* The end of Complete, FinishContraction and revert.                      *)
(***************************************************************************)
LEMMA EndKeepsCareful ==
  ASSUME OneAtATime, CarefulInv, SerialInv', NEW p \in Procs,
         \/ Complete(p) \/ SealAfterComplete(p) \/ SealOpenWindow(p)
         \/ CleanUpSchemas(p) \/ EnsureLeafVersionSchema(p)
  PROVE  CarefulInv' /\ (Settled => Settled')
<1>0. /\ ProcsOK /\ SerialOK(proc[p]) /\ CarefulOK(proc[p]) /\ DeployedTable(migrations)
      /\ RowsConsistent(migrations) /\ schemas \subseteq DOMAIN migrations /\ Awaiting
      /\ IsTable(migrations) /\ InChainOrder(migrations)
      /\ \A k \in DOMAIN migrations : migrations[k] \in Row
  BY CarefulFacts
<1>1. UNCHANGED <<phys, marker>>
  BY DEF Complete, SealAfterComplete, SealOpenWindow, CleanUpSchemas, EnsureLeafVersionSchema
<1>2. CASE Complete(p)
  <2> DEFINE n == proc[p].cur
  <2>1. /\ n \in ActiveMigrations(migrations) /\ phys[n] \in Materialized
        /\ UNCHANGED schemas /\ proc[p].at = "done" /\ Settled
    BY <1>0, <1>2 DEF Complete, At, SerialOK, ForwardOK, OnActive, CarefulOK, ExpandOK,
                      Completing, Forward
  <2>2. /\ migrations' = Completed(migrations, n)
        /\ NextMigration(p) \/ Goto(p, "reseal")
    BY <1>2, <2>1 DEF Complete
  <2>3. /\ DOMAIN migrations' = DOMAIN migrations
        /\ \A k \in DOMAIN migrations \ {n} : migrations'[k] = migrations[k]
        /\ migrations'[n].done /\ n \in DOMAIN migrations
    BY <1>0, <2>1, <2>2, UpdatedRows DEF ActiveMigrations
  <2>4. Settled'
    BY <1>1, <2>1, <2>3 DEF Settled
  <2>5. ActiveMigrations(migrations') = {}
    BY <1>0, <2>1, <2>3 DEF RowsConsistent, OnlyOneActive, ActiveMigrations
  <2>6. Awaiting'
    BY <2>5 DEF Awaiting
  <2>7. CarefulOK(proc[p])'
    BY <1>0, <2>2, <2>4, NextKeeps, GotoKeeps, Becomes, CarefulRests
  <2> QED BY <1>0, <2>1, <2>3, <2>4, <2>6, <2>7, CarefulStep
<1>3. CASE SealAfterComplete(p) \/ SealOpenWindow(p)
  <2>1. /\ UNCHANGED schemas /\ migrations' = MarkedSealed(migrations)
        /\ Return(p) \/ Goto(p, "cleanup")
        /\ proc[p].at \in {"reseal", "stamp"} /\ Settled
    BY <1>0, <1>3 DEF SealAfterComplete, SealOpenWindow, At, CarefulOK, Forward
  <2>2. /\ DOMAIN migrations' = DOMAIN migrations
        /\ \A k \in DOMAIN migrations : migrations'[k].done = migrations[k].done
    BY <1>0, <2>1, SealedRows
  <2>3. Settled'
    BY <1>1, <2>1, <2>2 DEF Settled
  <2>4. ActiveMigrations(migrations') = ActiveMigrations(migrations)
    BY <2>2 DEF ActiveMigrations
  <2>5. Awaiting'
    BY <1>0, <1>1, <2>1, <2>4, AwaitingKept
  <2>6. CarefulOK(proc[p])'
    BY <1>0, <2>1, <2>3, GotoKeeps, Becomes, CarefulRests
  <2> QED BY <1>0, <2>1, <2>2, <2>3, <2>5, <2>6, CarefulStep
<1>4. CASE CleanUpSchemas(p)
  <2>1. /\ UNCHANGED migrations /\ schemas' \subseteq schemas /\ Return(p)
        /\ proc[p].at = "cleanup"
    BY <1>4 DEF CleanUpSchemas, At
  <2> QED BY <1>0, <1>1, <2>1, Becomes, CarefulRests, CarefulQuiet
<1>5. CASE EnsureLeafVersionSchema(p)
  <2>1. /\ UNCHANGED migrations /\ Return(p) /\ proc[p].at = "leaf"
        /\ \/ schemas' = schemas
           \/ migrations # EmptyTable /\ schemas' = schemas \cup {LatestMigration(migrations)}
    BY <1>5 DEF EnsureLeafVersionSchema, At
  <2>2. schemas' \subseteq DOMAIN migrations
    <3>1. DOMAIN migrations = {} => migrations = EmptyTable
      BY <1>0 DEF IsTable, EmptyTable
    <3> QED BY <1>0, <2>1, <3>1, LatestExists DEF DeployedTable
  <2>3. Awaiting'
    BY <1>0, <2>1 DEF Awaiting, CarefulOK, TakeBackOK, IsActiveMigrationPeriod
  <2>4. CarefulOK(proc[p])'
    BY <1>0, <2>1, Becomes, CarefulRests
  <2>5. Settled => Settled'
    BY <1>1, <2>1 DEF Settled
  <2> QED BY <2>1, <2>2, <2>3, <2>4, <2>5, CarefulStep
<1> QED BY <1>2, <1>3, <1>4, <1>5

(***************************************************************************)
(* The steps of rollback and revert.  Only those of a revert take a row    *)
(* that is done out of the phase it was completed in.                      *)
(***************************************************************************)
LEMMA UndoKeepsCareful ==
  ASSUME OneAtATime, CarefulInv, SerialInv', NEW p \in Procs,
         DropVersionSchema(p) \/ RollbackOperations(p) \/ DeleteMigration(p)
  PROVE  CarefulInv' /\ (Settled /\ proc[p].verb # "revert" => Settled')
<1> DEFINE n == proc[p].cur
<1>0. /\ ProcsOK /\ StateOK /\ SerialOK(proc[p]) /\ CarefulOK(proc[p])
      /\ proc[p] \in Process /\ QueueBounded(proc[p].queue)
      /\ schemas \subseteq DOMAIN migrations /\ Awaiting
      /\ RowsConsistent(migrations) /\ DOMAIN migrations \subseteq Names
  BY CarefulFacts
<1>1. /\ proc[p].verb \in {"rollback", "revert"} /\ n \in Names
      /\ proc[p].at \in {"dropVersion", "undo", "delete"}
  <2>1. proc[p].at \in {"dropVersion", "undo", "delete"}
    BY DEF DropVersionSchema, RollbackOperations, DeleteMigration, At
  <2>2. n \in Names
    BY <2>1, CarefulFacts DEF Working, Steps
  <2> QED BY <1>0, <2>1, <2>2 DEF SerialOK, UndoOK, Undoing
<1>2. CASE DropVersionSchema(p)
  <2>1. /\ UNCHANGED <<migrations, phys, marker>> /\ schemas' = schemas \ {n}
        /\ proc[p].at = "dropVersion" /\ Goto(p, "undo")
    BY <1>2 DEF DropVersionSchema, At
  <2>2. CarefulOK(proc[p])'
    BY <1>0, <2>1, GotoKeeps
       DEF CarefulOK, Forward, ExpandOK, QueueOK, TakeBackOK, Queued, Draining,
           Completing, Undoing, Finishing
  <2> QED BY <2>1, <2>2, CarefulQuiet
<1>3. CASE RollbackOperations(p)
  <2>1. /\ UNCHANGED <<migrations, schemas>> /\ proc[p].at = "undo"
        /\ UNCHANGED proc \/ Goto(p, "delete")
        /\ \A k \in Names \ {n} : phys'[k] = phys[k]
        /\ \A k \in Names \ {n} : k \in marker' <=> k \in marker
    BY <1>0, <1>3 DEF RollbackOperations, At, StateOK
  <2>2. n \notin schemas
    BY <1>0, <2>1 DEF CarefulOK, TakeBackOK
  <2>3. Awaiting'
    BY <1>0, <2>1, <2>2, AwaitingKept DEF ActiveMigrations
  <2>4. CarefulOK(proc[p])'
    BY <1>0, <2>1, GotoKeeps
       DEF CarefulOK, Forward, ExpandOK, QueueOK, TakeBackOK, Queued, Draining,
           Completing, Undoing, Finishing
  <2>5. Settled /\ proc[p].verb # "revert" => Settled'
    <3>1. proc[p].verb # "revert" => n \in ActiveMigrations(migrations)
      BY <1>0, <1>1 DEF CarefulOK, TakeBackOK, Undoing
    <3> QED BY <1>0, <2>1, <3>1 DEF Settled, ActiveMigrations
  <2> QED BY <1>0, <2>1, <2>3, <2>4, <2>5, CarefulStep
<1>4. CASE DeleteMigration(p)
  <2> DEFINE rest == Restrict(proc[p].queue, DOMAIN proc[p].queue \ {n})
  <2>1. UNCHANGED <<phys, marker, schemas>> /\ proc[p].at = "delete" /\ n \notin schemas
    BY <1>0, <1>4 DEF DeleteMigration, At, CarefulOK, TakeBackOK
  <2>2. CASE UNCHANGED migrations /\ Return(p)
    BY <1>0, <2>1, <2>2, Becomes, CarefulRests, CarefulQuiet
  <2>3. CASE /\ migrations' = Deleted(migrations, n)
             /\ \/ proc[p].verb = "rollback" /\ Return(p)
                \/ proc[p].verb # "rollback" /\ DOMAIN rest = {} /\ Goto(p, "leaf")
                \/ /\ proc[p].verb # "rollback"
                   /\ Become(p, [proc[p] EXCEPT !.at = "dropVersion",
                                   !.cur = Newest(rest), !.queue = rest])
    <3>1. /\ DOMAIN migrations' = DOMAIN migrations \ {n}
          /\ \A k \in DOMAIN migrations' : migrations'[k] = migrations[k]
      BY <2>3 DEF Deleted, Restrict
    <3>2. Settled => Settled'
      BY <2>1, <3>1 DEF Settled
    <3>3. /\ ActiveMigrations(migrations') = ActiveMigrations(migrations) \ {n}
          /\ schemas' \subseteq DOMAIN migrations'
      BY <1>0, <2>1, <3>1 DEF ActiveMigrations
    <3>4. Awaiting'
      BY <1>0, <2>1, <3>3, AwaitingKept
    <3>5. DOMAIN rest = DOMAIN proc[p].queue \ {n}
      BY DEF Restrict
    <3>6. proc[p].verb # "rollback" =>
            ActiveMigrations(migrations') \subseteq DOMAIN rest
      BY <1>0, <1>1, <3>3, <3>5 DEF CarefulOK, TakeBackOK, Undoing
    <3> HIDE DEF rest
    <3>7. \/ proc'[p].at = "idle"
          \/ proc'[p].at = "leaf" /\ ActiveMigrations(migrations') = {}
          \/ /\ proc'[p].at = "dropVersion" /\ proc'[p].verb = "revert"
             /\ ActiveMigrations(migrations') \subseteq DOMAIN proc'[p].queue
      <4>1. CASE Return(p)
        BY <1>0, <4>1, Becomes
      <4>2. CASE proc[p].verb # "rollback" /\ DOMAIN rest = {} /\ Goto(p, "leaf")
        BY <1>0, <3>6, <4>2, GotoKeeps
      <4>3. CASE /\ proc[p].verb # "rollback"
                 /\ Become(p, [proc[p] EXCEPT !.at = "dropVersion",
                                 !.cur = Newest(rest), !.queue = rest])
        <5>1. /\ proc'[p].at = "dropVersion" /\ proc'[p].verb = proc[p].verb
              /\ proc'[p].queue = rest
          BY <1>0, <4>3 DEF Become, ProcsOK, Process
        <5> QED BY <1>1, <3>6, <4>3, <5>1
      <4> QED BY <2>3, <4>1, <4>2, <4>3
    <3>8. CarefulOK(proc[p])'
      BY <3>7
         DEF CarefulOK, Forward, ExpandOK, QueueOK, TakeBackOK, Queued, Draining,
             Completing, Undoing, Finishing, IsActiveMigrationPeriod
    <3> QED BY <3>2, <3>3, <3>4, <3>8, CarefulStep
  <2> QED BY <1>4, <2>2, <2>3 DEF DeleteMigration
<1> QED BY <1>2, <1>3, <1>4

(***************************************************************************)
(* A step of the next-state relation keeps the invariant, and what is done *)
(* stays materialized unless a revert undoes it.                           *)
(***************************************************************************)
LEMMA NextKeepsCareful ==
  ASSUME OneAtATime, CarefulDeployment, CarefulInv, SerialInv', [Next]_vars
  PROVE  /\ CarefulInv'
         /\ Settled /\ (\A p \in Procs : proc[p].verb # "revert") => Settled'
<1>1. ASSUME NEW s \in Names \cup {NoName}, Repin(s) PROVE CarefulInv' /\ (Settled => Settled')
  BY <1>1 DEF Repin, db, CarefulInv, Awaiting, KilledBeforeMarker, CarefulOK, ExpandOK,
              QueueOK, TakeBackOK, Settled
<1>2. ASSUME NEW p \in Procs, Command(p) \/ StartFails(p) \/ Crash(p)
      PROVE  CarefulInv' /\ (Settled => Settled')
  BY <1>2, CommandKeepsCareful
<1>3. ASSUME NEW p \in Procs, Step(p)
      PROVE  CarefulInv' /\ (Settled /\ proc[p].verb # "revert" => Settled')
  BY <1>3, StartKeepsCareful, ActiveKeepsCareful, SealKeepsCareful, ContractKeepsCareful,
     DrainKeepsCareful, EndKeepsCareful, UndoKeepsCareful DEF Step
<1>4. CASE UNCHANGED vars
  BY <1>4 DEF vars, CarefulInv, Awaiting, KilledBeforeMarker, CarefulOK, ExpandOK, QueueOK,
              TakeBackOK, Settled
<1> QED BY <1>1, <1>2, <1>3, <1>4 DEF Next

----------------------------------------------------------------------------
(* What holds with a careful operator.                                     *)

(***************************************************************************)
(* The inductive invariant holds in every reachable state.                 *)
(***************************************************************************)
THEOREM CarefulInvariant ==
  ASSUME OneAtATime, CarefulDeployment
  PROVE  Spec => []CarefulInv
<1>1. ASSUME Init, SerialInv PROVE CarefulInv
  <2>1. DOMAIN migrations = {} /\ schemas = {} /\ \A p \in Procs : proc[p].at = "idle"
    BY <1>1, IdleOK DEF Init, EmptyTable
  <2> QED BY <1>1, <2>1
             DEF CarefulInv, Awaiting, CarefulOK, Forward, ExpandOK, QueueOK, TakeBackOK,
                 Queued, Draining, Completing, Undoing
<1>2. ASSUME CarefulInv, SerialInv', [Next]_vars PROVE CarefulInv'
  BY <1>2, NextKeepsCareful
<1> QED BY <1>1, <1>2, SerialInvariant, PTL DEF Spec

(***************************************************************************)
(* What migrate reports as EXPANDED, awaiting `pgroll complete`, has been  *)
(* expanded and backfilled to the end, or was killed after ensureViews and *)
(* before the marker column: wherever else a command died, HasPendingBack- *)
(* fill and the projection tell.                                           *)
(***************************************************************************)
THEOREM AwaitingMeansMaterialized ==
  ASSUME OneAtATime, CarefulDeployment
  PROVE  Spec => []AwaitingIsMaterialized
<1>1. CarefulInv => AwaitingIsMaterialized
  BY DEF CarefulInv, Awaiting, AwaitingIsMaterialized, ExpandComplete, AllIdle, At
<1> QED BY <1>1, CarefulInvariant, PTL

(***************************************************************************)
(* No step but the beginning of a command gives a process another verb.    *)
(***************************************************************************)
LEMMA StepKeepsVerb ==
  ASSUME proc \in [Procs -> Process], NEW p \in Procs, Step(p)
  PROVE  \A q \in Procs : proc'[q].verb \in {proc[q].verb, "none"}
<1> DEFINE Kept == \A q \in Procs : proc'[q].verb \in {proc[q].verb, "none"}
<1> SUFFICES Kept
  OBVIOUS
<1>0. ASSUME NEW s, Become(p, s), s.verb \in {proc[p].verb, "none"} PROVE Kept
  BY <1>0 DEF Become
<1>1. UNCHANGED proc \/ Return(p) \/ (\E step : Goto(p, step)) => Kept
  <2>1. UNCHANGED proc => Kept
    OBVIOUS
  <2> HIDE DEF Kept
  <2>2. Return(p) => Kept
    BY <1>0 DEF Return, Idle
  <2>3. ASSUME NEW step, Goto(p, step) PROVE Kept
    BY <1>0, <2>3 DEF Goto, Process
  <2> QED BY <2>1, <2>2, <2>3
<1> HIDE DEF Kept
<1>2. NextMigration(p) => Kept
  BY <1>0, <1>1 DEF NextMigration, Process
<1>3. AfterStart(p) \/ AfterViews(p) => Kept
  BY <1>1 DEF AfterStart, AfterViews
<1>4. \A n, step : Contract(p, n, step) => Kept
  BY <1>1 DEF Contract
<1>5. CASE StartBegin(p) \/ Start(p) \/ StartOperations(p) \/ EnsureViews(p)
           \/ CreateTriggers(p) \/ Backfill(p)
  BY <1>1, <1>3, <1>5
     DEF StartBegin, Start, StartOperations, EnsureViews, CreateTriggers, Backfill
<1>6. CASE GetActiveMigration(p) \/ ReadQueue(p) \/ ClearCompleteDeferred(p)
  <2>2. CASE GetActiveMigration(p)
    BY <1>1, <1>0, <2>2 DEF GetActiveMigration, Process
  <2>3. CASE ReadQueue(p)
    BY <1>1, <1>0, <2>3 DEF ReadQueue, Process
  <2>4. CASE ClearCompleteDeferred(p)
    BY <1>1, <1>0, <2>4 DEF ClearCompleteDeferred, Process
  <2> QED BY <1>6, <2>2, <2>3, <2>4
<1>7. CASE \/ MarkCompleteDeferred(p) \/ DropOldSchemas(p) \/ SealBeforeDrain(p)
           \/ DropLiveSchema(p) \/ RefreshResultingSchema(p) \/ Reproject(p) \/ Complete(p)
  BY <1>1, <1>2, <1>7
     DEF MarkCompleteDeferred, DropOldSchemas, SealBeforeDrain, DropLiveSchema,
         RefreshResultingSchema, Reproject, Complete
<1>8. CASE ApplyDeferredComplete(p) \/ CompleteOperations(p)
  BY <1>4, <1>8 DEF ApplyDeferredComplete, CompleteOperations
<1>9. CASE \/ SealAfterComplete(p) \/ SealOpenWindow(p) \/ CleanUpSchemas(p)
           \/ DropVersionSchema(p) \/ RollbackOperations(p) \/ EnsureLeafVersionSchema(p)
  BY <1>1, <1>9
     DEF SealAfterComplete, SealOpenWindow, CleanUpSchemas, DropVersionSchema,
         RollbackOperations, EnsureLeafVersionSchema
<1>10. CASE DeleteMigration(p)
  BY <1>0, <1>1, <1>10 DEF DeleteMigration, Process
<1> QED BY <1>5, <1>6, <1>7, <1>8, <1>9, <1>10 DEF Step

(***************************************************************************)
(* Where the operator does not use `pgroll revert`, no process runs it.    *)
(***************************************************************************)
NoRevert == \A p \in Procs : proc[p].verb # "revert"

LEMMA NextKeepsNoRevert ==
  ASSUME "revert" \notin Verbs, proc \in [Procs -> Process], NoRevert, [Next]_vars
  PROVE  NoRevert'
<1>0. \A p \in Procs : proc[p].verb # "revert"
  BY DEF NoRevert
<1>1. ASSUME NEW s \in Names \cup {NoName}, Repin(s) PROVE proc' = proc
  BY <1>1 DEF Repin
<1>2. CASE UNCHANGED vars
  BY <1>0, <1>2 DEF vars, NoRevert
<1>3. ASSUME NEW p \in Procs, NEW s, Become(p, s), s.verb # "revert" PROVE NoRevert'
  BY <1>0, <1>3 DEF Become, NoRevert
<1>4. ASSUME NEW p \in Procs, Command(p) PROVE NoRevert'
  <2>1. \A n : ~RevertBegin(p, n)
    BY DEF RevertBegin, Free
  <2>2. ASSUME NEW n, MigrateAwaiting(p, n) \/ CompleteBegin(p, n) \/ RollbackBegin(p, n)
        PROVE  NoRevert'
    BY <1>3, <2>2 DEF MigrateAwaiting, CompleteBegin, RollbackBegin, Idle
  <2>3. ASSUME NEW names, NEW converge, MigrateBegin(p, names, converge) PROVE NoRevert'
    BY <1>3, <2>3 DEF MigrateBegin, Idle
  <2>4. ASSUME NEW force, FinishBegin(p, force) PROVE NoRevert'
    BY <1>3, <2>4 DEF FinishBegin, Idle
  <2> QED BY <1>4, <2>1, <2>2, <2>3, <2>4 DEF Command
<1>5. ASSUME NEW p \in Procs, StartFails(p) \/ Crash(p) PROVE NoRevert'
  <2>1. Idle.verb # "revert"
    BY DEF Idle
  <2>2. ASSUME NEW n, Become(p, [Idle EXCEPT !.at = "dropVersion", !.verb = "rollback",
                                             !.cur = n])
        PROVE  NoRevert'
    BY <1>3, <2>2 DEF Idle
  <2> QED BY <1>3, <1>5, <2>1, <2>2 DEF StartFails, Crash, Return
<1>6. ASSUME NEW p \in Procs, Step(p) PROVE NoRevert'
  BY <1>0, <1>6, StepKeepsVerb DEF NoRevert
<1> QED BY <1>0, <1>1, <1>2, <1>4, <1>5, <1>6 DEF Next, NoRevert

(***************************************************************************)
(* A step that records a migration as done finds it expanded and           *)
(* backfilled to the end: MarkCompleteDeferred and Complete do, and no     *)
(* other statement sets the flag.                                          *)
(***************************************************************************)
LEMMA RecordsMaterialized ==
  ASSUME OneAtATime, CarefulInv, [Next]_vars,
         NEW n \in DOMAIN migrations', migrations'[n].done,
         n \in DOMAIN migrations => ~migrations[n].done
  PROVE  phys[n] \in Materialized
<1>1. migrations' # migrations
  OBVIOUS
<1>2. PICK p \in Procs : Step(p)
  BY <1>1 DEF Next, Repin, Command, MigrateBegin, MigrateAwaiting, CompleteBegin,
              FinishBegin, RollbackBegin, RevertBegin, StartFails, Crash, db, vars
<1>3. /\ SerialOK(proc[p]) /\ CarefulOK(proc[p])
      /\ \A k \in DOMAIN migrations : migrations[k] \in Row
  BY CarefulFacts
<1>4. CASE Start(p)
  <2>1. SerialInv
    BY DEF CarefulInv
  <2> QED BY <1>1, <1>4, <2>1, StartAdds
<1>5. CASE MarkCompleteDeferred(p) \/ Complete(p)
  <2>1. /\ proc[p].cur \in DOMAIN migrations
        /\ \/ migrations' = MarkedDeferred(migrations, proc[p].cur)
           \/ migrations' = Completed(migrations, proc[p].cur)
    BY <1>1, <1>5 DEF MarkCompleteDeferred, Complete, ActiveMigrations
  <2>2. n = proc[p].cur
    BY <1>3, <2>1, UpdatedRows
  <2> QED BY <1>3, <1>5, <2>2
             DEF MarkCompleteDeferred, Complete, At, CarefulOK, ExpandOK, Completing
<1>6. CASE SealBeforeDrain(p) \/ SealAfterComplete(p) \/ SealOpenWindow(p)
  <2>1. migrations' = MarkedSealed(migrations)
    BY <1>6 DEF SealBeforeDrain, SealAfterComplete, SealOpenWindow
  <2> QED BY <1>3, <2>1, SealedRows
<1>7. CASE ClearCompleteDeferred(p)
  <2>1. PICK k \in DOMAIN migrations : migrations' = DeferredCleared(migrations, k)
    BY <1>1, <1>7 DEF ClearCompleteDeferred
  <2> QED BY <1>3, <2>1, UpdatedRows
<1>8. CASE DeleteMigration(p)
  <2>1. migrations' = Deleted(migrations, proc[p].cur)
    BY <1>1, <1>8 DEF DeleteMigration
  <2> QED BY <2>1 DEF Deleted, Restrict
<1> QED BY <1>1, <1>2, <1>4, <1>5, <1>6, <1>7, <1>8
           DEF Step, StartBegin, StartOperations, EnsureViews, CreateTriggers, Backfill,
               GetActiveMigration, DropOldSchemas, ReadQueue, DropLiveSchema,
               ApplyDeferredComplete, RefreshResultingSchema, CompleteOperations, Reproject,
               CleanUpSchemas, DropVersionSchema, RollbackOperations,
               EnsureLeafVersionSchema, db

(***************************************************************************)
(* Nothing is recorded as done that was not expanded and backfilled to the *)
(* end, wherever migrate, complete, rollback or revert died before.        *)
(***************************************************************************)
THEOREM DoneMeansMaterialized ==
  ASSUME OneAtATime, CarefulDeployment
  PROVE  Spec => DoneIsMaterialized
<1>1. ASSUME CarefulInv, [Next]_vars
      PROVE  [\A n \in DOMAIN migrations' :
                /\ migrations'[n].done
                /\ n \in DOMAIN migrations => ~migrations[n].done
                => phys[n] \in Materialized]_vars
  BY <1>1, RecordsMaterialized
<1> QED BY <1>1, CarefulInvariant, PTL DEF Spec, DoneIsMaterialized
=============================================================================
