----------------------- MODULE DeploymentFleetProofs -----------------------
(***************************************************************************)
(* The applications keep their version schema.  One pgroll process runs at *)
(* a time, the operator is careful, and no migration has onComplete SQL: a *)
(* contraction drops the live version schema for that, and one that is     *)
(* interrupted there and resumed does not project it again.                *)
(***************************************************************************)
EXTENDS DeploymentCarefulProofs

\* Once the queue is sealed everything that is done is, and the old version
\* schemas are gone or the newest one, which the applications use, is there.
QueueSealed ==
  HasSealedDeferred(migrations) =>
    /\ \A n \in DOMAIN migrations : migrations[n].done => migrations[n].sealed
    /\ \A n \in ActiveMigrations(migrations) : schemas \subseteq {n}
    /\ LatestMigration(migrations) \in schemas \/ schemas \subseteq {LatestMigration(migrations)}

\* The applications use no version schema that the process may drop.
PinOK(s) ==
  /\ s.at \in {"ops", "views", "triggers", "backfill", "dropVersion"} => fleet # s.cur
  /\ Undoing(s) /\ s.verb = "revert" => fleet \notin DOMAIN s.queue
  /\ s.at # "idle" /\ s.converge => fleet = NoName
  /\ s.at = "active" =>
       InTrain(s) \/ \A n \in ActiveMigrations(migrations) : fleet \in {n, NoName}
  /\ s.at = "dropOld" \/ (s.at = "seal" /\ Finishing(s)) => fleet \in {s.cur, NoName}
  /\ s.at \in {"stamp", "cleanup"} /\ LatestMigration(migrations) \in schemas =>
       fleet \in {LatestMigration(migrations), NoName}

\* What is queued when the process reads, seals and drains the queue.
DrainedOK(s) ==
  /\ s.at \in {"seal", "dropOld"} /\ Finishing(s) =>
       /\ s.cur = LatestMigration(migrations)
       /\ s.cur \in schemas \/ schemas \subseteq {s.cur}
  /\ Queued(s) => DeferredCompletes(migrations) \subseteq DOMAIN s.queue
  /\ s.at \in {"stamp", "cleanup", "reseal"} \/ (s.at \in {"own", "reproject", "done"} /\ ~InTrain(s)) =>
       DeferredCompletes(migrations) = {}

\* A train begins when no sealed queue is left, and its last migration alone
\* drains the queue.
ApplyingOK(s) ==
  /\ s.at \in {"start", "insert", "ops", "views", "triggers", "backfill", "defer"}
       \/ InTrain(s) => ~HasSealedDeferred(migrations)
  /\ InTrain(s) => s.at \in {"start", "insert", "ops", "views", "triggers", "backfill",
                             "active", "defer", "own", "done"}
  /\ ~s.dropLive /\ s.at # "dropLive" /\ (s.at = "reproject" => ~Finishing(s))

FleetOK(s) == PinOK(s) /\ DrainedOK(s) /\ ApplyingOK(s)

(***************************************************************************)
(* The inductive invariant.                                                *)
(***************************************************************************)
FleetInv == /\ CarefulInv
            /\ fleet # NoName => fleet \in schemas
            /\ QueueSealed
            /\ \A p \in Procs : FleetOK(proc[p])

----------------------------------------------------------------------------
(* What the parts of the invariant are made of.                            *)

(***************************************************************************)
(* What the invariant says of the process that takes a step.               *)
(***************************************************************************)
LEMMA FleetFacts ==
  ASSUME FleetInv, NEW p \in Procs
  PROVE  /\ CarefulInv /\ ProcsOK /\ StateOK /\ DeployedTable(migrations)
         /\ proc[p] \in Process /\ QueueBounded(proc[p].queue)
         /\ SerialOK(proc[p]) /\ CarefulOK(proc[p]) /\ FleetOK(proc[p])
         /\ proc[p].at \in Working => proc[p].cur \in Names
         /\ RowsConsistent(migrations) /\ DOMAIN migrations \subseteq Names
         /\ IsTable(migrations) /\ InChainOrder(migrations) /\ QueueSealed
         /\ \A n \in DOMAIN migrations : migrations[n] \in Row
         /\ schemas \subseteq DOMAIN migrations
         /\ fleet # NoName => fleet \in schemas
         /\ ~versionSchemas => schemas = {}
<1>1. CarefulInv
  BY DEF FleetInv
<1>2. ~versionSchemas => schemas = {}
  BY <1>1 DEF CarefulInv, SerialInv
<1> QED BY <1>1, <1>2, CarefulFacts DEF FleetInv

(***************************************************************************)
(* With one process, a step leaves the invariant when it leaves it for the *)
(* process that takes it.                                                  *)
(***************************************************************************)
LEMMA FleetStep ==
  ASSUME OneAtATime, NEW p \in Procs, CarefulInv', QueueSealed', FleetOK(proc[p])',
         fleet' # NoName => fleet' \in schemas'
  PROVE  FleetInv'
<1>1. \A q \in Procs : q = p
  BY DEF OneAtATime
<1> QED BY <1>1 DEF FleetInv

(***************************************************************************)
(* A process that ends its command.                                        *)
(***************************************************************************)
LEMMA ReturnKeepsFleet ==
  ASSUME ProcsOK, NEW p \in Procs, Return(p)
  PROVE  FleetOK(proc[p])'
<1>1. proc'[p] = Idle
  BY Becomes
<1>2. Idle.at = "idle" /\ Idle.todo = {} /\ Idle.dropLive = FALSE
  BY DEF Idle
<1> QED BY <1>1, <1>2 DEF FleetOK, PinOK, DrainedOK, ApplyingOK, InTrain, Undoing, Queued,
                          Draining

(***************************************************************************)
(* A step that leaves the table and the version schemas alone.             *)
(***************************************************************************)
LEMMA FleetQuiet ==
  ASSUME OneAtATime, FleetInv, CarefulInv', NEW p \in Procs,
         UNCHANGED <<migrations, schemas, fleet>>, FleetOK(proc[p])'
  PROVE  FleetInv'
<1>1. QueueSealed /\ (fleet # NoName => fleet \in schemas)
  BY DEF FleetInv
<1>2. QueueSealed' /\ (fleet' # NoName => fleet' \in schemas')
  BY <1>1 DEF QueueSealed
<1> QED BY <1>2, FleetStep

(***************************************************************************)
(* Before `pgroll complete` the applications use the newest row's version  *)
(* schema, if that is there, or none.                                      *)
(***************************************************************************)
LEMMA PinnedAtNewest ==
  ASSUME DeployedTable(migrations), schemas \subseteq DOMAIN migrations,
         fleet # NoName => fleet \in schemas, FleetAtNewest, NEW n \in schemas,
         \A k \in DOMAIN migrations : migrations[k].created <= migrations[n].created
  PROVE  fleet \in {n, NoName}
<1>0. /\ InChainOrder(migrations)
      /\ \A k \in DOMAIN migrations : migrations[k].created \in Nat
  BY TimestampsAssumption DEF DeployedTable, TableOK, IsTable, Row
<1>1. CASE fleet # NoName
  <2>1. fleet \in DOMAIN migrations /\ n \in DOMAIN migrations
    BY <1>1
  <2>2. migrations[n].created = migrations[fleet].created
    BY <1>0, <1>1, <2>1 DEF FleetAtNewest
  <2> QED BY <1>0, <2>1, <2>2 DEF InChainOrder, DistinctTimes
<1> QED BY <1>1

----------------------------------------------------------------------------
(* Every step keeps the invariant.                                         *)

(***************************************************************************)
(* A command begins, Start fails, or the process dies.                     *)
(***************************************************************************)
LEMMA CommandKeepsFleet ==
  ASSUME OneAtATime, CarefulDeployment, OnCompleteSQL = {}, FleetInv, CarefulInv',
         NEW p \in Procs, Command(p) \/ StartFails(p) \/ Crash(p)
  PROVE  FleetInv'
<1> DEFINE live == LatestMigration(migrations)
<1>0. /\ ProcsOK /\ DeployedTable(migrations) /\ SerialOK(proc[p]) /\ FleetOK(proc[p])
      /\ QueueSealed /\ RowsConsistent(migrations) /\ schemas \subseteq DOMAIN migrations
      /\ fleet # NoName => fleet \in schemas
      /\ ~versionSchemas => schemas = {}
  BY FleetFacts
<1>1. UNCHANGED <<migrations, schemas, fleet>> /\ Careful
  BY DEF Command, StartFails, Crash, MigrateBegin, MigrateAwaiting, CompleteBegin,
         FinishBegin, RollbackBegin, RevertBegin, db, env, CarefulDeployment
<1>2. SUFFICES FleetOK(proc[p])'
  BY <1>1, FleetQuiet
<1>3. \A s : Become(p, s) => proc'[p] = s
  BY <1>0, Becomes
<1>4. ASSUME NEW names \in SUBSET Names, NEW converge \in BOOLEAN,
             MigrateBegin(p, names, converge)
      PROVE  FleetOK(proc[p])'
  <2>1. /\ ~HasSealedDeferred(migrations) /\ (converge => fleet = NoName)
        /\ proc'[p] = [Idle EXCEPT !.at = "start", !.verb = "migrate", !.cur = First(names),
                                   !.todo = names, !.converge = converge]
    BY <1>1, <1>3, <1>4 DEF MigrateBegin
  <2>2. /\ proc'[p].at = "start" /\ proc'[p].converge = converge
        /\ proc'[p].dropLive = FALSE
    BY <2>1 DEF Idle
  <2> QED BY <1>1, <2>1, <2>2 DEF FleetOK, PinOK, DrainedOK, ApplyingOK, Undoing, Queued,
                                  Draining
<1>5. ASSUME NEW n \in Names, MigrateAwaiting(p, n) \/ CompleteBegin(p, n)
      PROVE  FleetOK(proc[p])'
  <2>1. /\ n \in ActiveMigrations(migrations)
        /\ proc'[p] = [Idle EXCEPT !.at = "active", !.verb = "complete"]
    BY <1>3, <1>5 DEF MigrateAwaiting, CompleteBegin
  <2>2. /\ proc'[p].at = "active" /\ proc'[p].converge = FALSE /\ proc'[p].todo = {}
        /\ proc'[p].dropLive = FALSE
    BY <2>1 DEF Idle
  <2>3. fleet \in {n, NoName}
    <3>1. CASE MigrateAwaiting(p, n)
      BY <3>1 DEF MigrateAwaiting
    <3>2. CASE CompleteBegin(p, n) /\ versionSchemas /\ ~HasSealedDeferred(migrations)
      <4>1. n \in schemas /\ FleetAtNewest
        BY <1>1, <3>2 DEF CompleteBegin, ExpandComplete
      <4>2. \A k \in DOMAIN migrations : migrations[k].created <= migrations[n].created
        BY <1>0, <2>1 DEF DeployedTable, ActiveLast
      <4> QED BY <1>0, <4>1, <4>2, PinnedAtNewest
    <3>3. CASE HasSealedDeferred(migrations)
      BY <1>0, <2>1, <3>3 DEF QueueSealed
    <3>4. CASE ~versionSchemas
      BY <1>0, <3>4
    <3> QED BY <1>5, <3>1, <3>2, <3>3, <3>4
  <2>4. \A k \in ActiveMigrations(migrations) : k = n
    BY <1>0, <2>1 DEF RowsConsistent, OnlyOneActive, ActiveMigrations
  <2> QED BY <1>1, <2>2, <2>3, <2>4 DEF FleetOK, PinOK, DrainedOK, ApplyingOK, InTrain,
                                        Undoing, Queued, Draining
<1>6. ASSUME NEW n \in ActiveMigrations(migrations) \ {fleet},
             Become(p, [Idle EXCEPT !.at = "dropVersion", !.verb = "rollback", !.cur = n])
      PROVE  FleetOK(proc[p])'
  <2>1. proc'[p] = [Idle EXCEPT !.at = "dropVersion", !.verb = "rollback", !.cur = n]
    BY <1>3, <1>6
  <2>2. /\ proc'[p].at = "dropVersion" /\ proc'[p].verb = "rollback" /\ proc'[p].cur = n
        /\ proc'[p].converge = FALSE /\ proc'[p].todo = {} /\ proc'[p].dropLive = FALSE
    BY <2>1 DEF Idle
  <2> QED BY <1>1, <1>6, <2>2 DEF FleetOK, PinOK, DrainedOK, ApplyingOK, InTrain, Undoing,
                                  Queued, Draining
<1>7. ASSUME NEW n \in Names, RevertBegin(p, n)
      PROVE  FleetOK(proc[p])'
  <2> DEFINE window  == UnsealedMigrations(migrations)
             targets == {k \in window : migrations[k].created >= migrations[n].created}
             applied == {k \in targets : migrations[k].done /\ ~migrations[k].deferred}
             queue   == ByCreation(targets)
             cur     == Newest(queue)
  <2>1. /\ fleet \notin targets
        /\ proc'[p] = [Idle EXCEPT !.at = "dropVersion", !.verb = "revert", !.cur = cur,
                                   !.queue = queue, !.applied = applied]
    BY <1>3, <1>7 DEF RevertBegin
  <2>2. DOMAIN queue = targets
    BY DEF ByCreation
  <2> HIDE DEF targets, applied, queue, cur
  <2>3. /\ proc'[p].at = "dropVersion" /\ proc'[p].verb = "revert" /\ proc'[p].cur = cur
        /\ proc'[p].queue = queue /\ proc'[p].converge = FALSE /\ proc'[p].todo = {}
        /\ proc'[p].dropLive = FALSE
    BY <2>1 DEF Idle
  <2>4. cur \in DOMAIN queue
    <3>1. SerialOK(proc[p])'
      BY DEF CarefulInv, SerialInv
    <3> QED BY <2>3, <3>1 DEF SerialOK, UndoOK, Undoing
  <2> QED BY <1>1, <2>1, <2>2, <2>3, <2>4
             DEF FleetOK, PinOK, DrainedOK, ApplyingOK, InTrain, Undoing, Queued, Draining
<1>8. ASSUME NEW force \in BOOLEAN, FinishBegin(p, force)
      PROVE  FleetOK(proc[p])'
  <2> DEFINE queue == ByCreation(DeferredCompletes(migrations))
             drops == DOMAIN queue \cap OnCompleteSQL # {}
  <2>0. DOMAIN queue = DeferredCompletes(migrations) /\ ~drops
    BY DEF ByCreation
  <2>1. FleetAtNewest
    BY <1>8 DEF FinishBegin
  <2>2. ASSUME live \in schemas PROVE fleet \in {live, NoName}
    <3>1. \A k \in DOMAIN migrations : migrations[k].created <= migrations[live].created
      BY <1>0, <2>2, LatestIsNewest
    <3> QED BY <1>0, <2>1, <2>2, <3>1, PinnedAtNewest
  <2>3. CASE /\ DOMAIN queue = {}
             /\ Become(p, [Idle EXCEPT !.at = "stamp", !.verb = "finish"])
    <3>1. /\ proc'[p].at = "stamp" /\ proc'[p].converge = FALSE /\ proc'[p].todo = {}
          /\ proc'[p].dropLive = FALSE
      BY <1>3, <2>3 DEF Idle
    <3> QED BY <1>1, <2>0, <2>2, <2>3, <3>1
               DEF FleetOK, PinOK, DrainedOK, ApplyingOK, InTrain, Undoing, Queued, Draining
  <2>4. CASE /\ HasSealedDeferred(migrations) \/ force \/ live \in schemas
             /\ Become(p, [Idle EXCEPT !.at = "seal", !.verb = "finish", !.cur = live,
                              !.queue = queue, !.dropLive = drops])
    <3>1. live \in schemas \/ schemas \subseteq {live}
      <4>1. CASE force
        BY <1>0, <1>1, <1>8, <4>1 DEF FinishBegin
      <4>2. CASE HasSealedDeferred(migrations)
        BY <1>0, <4>2 DEF QueueSealed
      <4> QED BY <2>4, <4>1, <4>2
    <3>2. fleet \in {live, NoName}
      BY <1>0, <2>2, <3>1
    <3> HIDE DEF queue, drops, live
    <3>3. /\ proc'[p].at = "seal" /\ proc'[p].verb = "finish" /\ proc'[p].cur = live
          /\ proc'[p].queue = queue /\ proc'[p].dropLive = drops
          /\ proc'[p].converge = FALSE /\ proc'[p].todo = {}
      BY <1>3, <2>4 DEF Idle
    <3> QED BY <1>1, <2>0, <3>1, <3>2, <3>3
               DEF FleetOK, PinOK, DrainedOK, ApplyingOK, InTrain, Undoing, Queued,
                   Draining, live
  <2> QED BY <1>8, <2>3, <2>4 DEF FinishBegin
<1>9. CASE StartFails(p)
  <2>1. CASE Return(p)
    BY <1>0, <2>1, ReturnKeepsFleet
  <2>2. ASSUME NEW n \in ActiveMigrations(migrations),
               Become(p, [Idle EXCEPT !.at = "dropVersion", !.verb = "rollback", !.cur = n])
        PROVE  FleetOK(proc[p])'
    <3>1. proc[p].at \in {"ops", "backfill"}
      BY <1>9 DEF StartFails, At
    <3>2. proc[p].cur \in ActiveMigrations(migrations) /\ fleet # proc[p].cur
      BY <1>0, <3>1 DEF SerialOK, ForwardOK, OnActive, FleetOK, PinOK
    <3>3. n = proc[p].cur
      BY <1>0, <3>2 DEF RowsConsistent, OnlyOneActive, ActiveMigrations
    <3> QED BY <1>6, <2>2, <3>2, <3>3
  <2> QED BY <1>9, <2>1, <2>2 DEF StartFails
<1>10. CASE Crash(p)
  BY <1>0, <1>10, ReturnKeepsFleet DEF Crash
<1> QED BY <1>4, <1>5, <1>6, <1>7, <1>8, <1>9, <1>10 DEF Command, RollbackBegin

(***************************************************************************)
(* A process that goes on to the next migration of its train.              *)
(***************************************************************************)
LEMMA NextKeepsFleet ==
  ASSUME ProcsOK, NEW p \in Procs, NextMigration(p), ~HasSealedDeferred(migrations'),
         ~proc[p].dropLive, proc[p].converge => fleet' = NoName
  PROVE  FleetOK(proc[p])'
<1> DEFINE rest == proc[p].todo \ {First(proc[p].todo)}
           s == [proc[p] EXCEPT !.at = "start", !.cur = First(rest), !.todo = rest]
<1>1. CASE Return(p)
  BY <1>1, ReturnKeepsFleet
<1>2. CASE Become(p, s)
  <2>1. s.at = "start" /\ s.converge = proc[p].converge /\ s.dropLive = proc[p].dropLive
    BY DEF ProcsOK, Process
  <2> HIDE DEF s
  <2>2. proc'[p] = s
    BY <1>2, Becomes
  <2> QED BY <2>1, <2>2 DEF FleetOK, PinOK, DrainedOK, ApplyingOK, Undoing, Queued, Draining
<1> QED BY <1>1, <1>2 DEF NextMigration

(***************************************************************************)
(* The steps of Start: the new version schema is nobody's yet.             *)
(***************************************************************************)
LEMMA StartKeepsFleet ==
  ASSUME OneAtATime, FleetInv, CarefulInv', NEW p \in Procs,
         \/ StartBegin(p) \/ Start(p) \/ StartOperations(p) \/ EnsureViews(p)
         \/ CreateTriggers(p) \/ Backfill(p)
  PROVE  FleetInv'
<1> DEFINE n == proc[p].cur
<1>0. /\ ProcsOK /\ StateOK /\ SerialOK(proc[p]) /\ FleetOK(proc[p]) /\ CarefulInv
      /\ QueueSealed /\ schemas \subseteq DOMAIN migrations
      /\ fleet # NoName => fleet \in schemas
  BY FleetFacts
<1>1. proc[p].at \in {"start", "insert", "ops", "views", "triggers", "backfill"}
  BY DEF StartBegin, Start, StartOperations, EnsureViews, CreateTriggers, Backfill, At
<1>2. /\ ~HasSealedDeferred(migrations) /\ proc[p].dropLive = FALSE
      /\ proc[p].converge => fleet = NoName
  <2>1. proc[p].dropLive \in BOOLEAN
    BY <1>0 DEF ProcsOK, Process
  <2> QED BY <1>0, <1>1, <2>1 DEF FleetOK, ApplyingOK, PinOK
<1>3. ASSUME NEW step \in {"start", "insert", "ops", "views", "triggers", "backfill",
                           "active"},
             Goto(p, step), ~HasSealedDeferred(migrations'), UNCHANGED fleet,
             step \in {"ops", "views", "triggers", "backfill"} => fleet # n,
             step = "active" => Intermediate(p) \/ proc[p].converge
      PROVE  FleetOK(proc[p])'
  <2>1. /\ proc'[p].at = step /\ proc'[p].cur = n /\ proc'[p].converge = proc[p].converge
        /\ proc'[p].todo = proc[p].todo /\ proc'[p].dropLive = proc[p].dropLive
    BY <1>0, <1>3, GotoKeeps
  <2> QED BY <1>2, <1>3, <2>1 DEF FleetOK, PinOK, DrainedOK, ApplyingOK, InTrain,
                                  Intermediate, Undoing, Queued, Draining
<1>4. CASE StartBegin(p)
  <2>1. UNCHANGED <<migrations, schemas, fleet>> /\ (Return(p) \/ Goto(p, "insert"))
    BY <1>4 DEF StartBegin, db, env
  <2>2. FleetOK(proc[p])'
    BY <1>0, <1>2, <1>3, <2>1, ReturnKeepsFleet
  <2> QED BY <2>1, <2>2, FleetQuiet
<1>5. CASE Start(p)
  <2>0. SerialInv
    BY <1>0 DEF CarefulInv
  <2>1. /\ UNCHANGED <<schemas, fleet>> /\ n \in Names
        /\ \/ UNCHANGED migrations /\ Return(p)
           \/ /\ n \notin DOMAIN migrations
              /\ DOMAIN migrations' = DOMAIN migrations \cup {n}
              /\ \A k \in DOMAIN migrations : migrations'[k] = migrations[k]
              /\ ~migrations'[n].deferred
              /\ Goto(p, "ops")
    BY <1>5, <2>0, StartAdds
  <2>2. CASE UNCHANGED migrations /\ Return(p)
    BY <1>0, <2>1, <2>2, ReturnKeepsFleet, FleetQuiet
  <2>3. CASE Goto(p, "ops") /\ n \notin DOMAIN migrations
    <3>1. ~HasSealedDeferred(migrations')
      BY <1>2, <2>1, <2>3 DEF HasSealedDeferred
    <3>2. fleet # n
      BY <1>0, <2>1, <2>3, NamesAssumption DEF NoName
    <3>3. FleetOK(proc[p])'
      BY <1>3, <2>1, <2>3, <3>1, <3>2
    <3> QED BY <1>0, <2>1, <3>1, <3>3, FleetStep DEF QueueSealed
  <2> QED BY <2>1, <2>2, <2>3
<1>6. CASE \/ StartOperations(p) \/ EnsureViews(p) \/ CreateTriggers(p) \/ Backfill(p)
  <2>1. /\ UNCHANGED <<migrations, fleet>> /\ schemas \subseteq schemas'
        /\ proc[p].at \in {"ops", "views", "triggers", "backfill"}
    BY <1>6 DEF StartOperations, EnsureViews, CreateTriggers, Backfill, At, env
  <2>2. \/ UNCHANGED proc /\ UNCHANGED schemas
        \/ Return(p)
        \/ \E step \in {"views", "triggers", "backfill"} : Goto(p, step)
        \/ Goto(p, "active") /\ (Intermediate(p) \/ proc[p].converge)
    BY <1>6 DEF StartOperations, EnsureViews, CreateTriggers, Backfill, AfterViews, AfterStart
  <2>3. CASE UNCHANGED proc /\ UNCHANGED schemas
    <3>1. FleetOK(proc[p])'
      BY <1>0, <2>1, <2>3 DEF FleetOK, PinOK, DrainedOK, ApplyingOK, InTrain, Undoing, Queued,
                              Draining, First
    <3> QED BY <2>1, <2>3, <3>1, FleetQuiet
  <2>4. CASE ~(UNCHANGED proc /\ UNCHANGED schemas)
    <3>1. fleet # n
      BY <1>0, <2>1 DEF FleetOK, PinOK
    <3>2. FleetOK(proc[p])'
      BY <1>0, <1>2, <1>3, <2>1, <2>2, <2>4, <3>1, ReturnKeepsFleet
    <3>3. QueueSealed'
      BY <1>2, <2>1 DEF QueueSealed
    <3> QED BY <1>0, <2>1, <3>2, <3>3, FleetStep
  <2> QED BY <2>3, <2>4
<1> QED BY <1>4, <1>5, <1>6

(***************************************************************************)
(* Complete takes up the migration that is active, and reads the queue.    *)
(***************************************************************************)
LEMMA ActiveKeepsFleet ==
  ASSUME OneAtATime, OnCompleteSQL = {}, FleetInv, CarefulInv', NEW p \in Procs,
         GetActiveMigration(p) \/ MarkCompleteDeferred(p) \/ ReadQueue(p)
  PROVE  FleetInv'
<1> DEFINE n == proc[p].cur
<1>0. /\ ProcsOK /\ SerialOK(proc[p]) /\ FleetOK(proc[p]) /\ proc[p] \in Process
      /\ RowsConsistent(migrations)
      /\ fleet # NoName => fleet \in schemas
      /\ \A k \in DOMAIN migrations : migrations[k] \in Row
  BY FleetFacts
<1>1. CASE GetActiveMigration(p)
  <2> DEFINE at == IF Intermediate(p)
                   THEN IF First(proc[p].todo) \in Destructive THEN "defer" ELSE "own"
                   ELSE IF versionSchemas THEN "dropOld" ELSE "queue"
  <2>1. UNCHANGED <<migrations, schemas, fleet>> /\ proc[p].at = "active"
    BY <1>1 DEF GetActiveMigration, At, db, env
  <2>2. CASE Return(p)
    BY <1>0, <2>1, <2>2, ReturnKeepsFleet, FleetQuiet
  <2>3. ASSUME NEW k \in ActiveMigrations(migrations),
               Become(p, [proc[p] EXCEPT !.cur = k, !.at = at])
        PROVE  FleetOK(proc[p])'
    <3>1. at \in {"defer", "own", "dropOld", "queue"} /\ (at \in {"defer", "own"} <=> Intermediate(p))
      OBVIOUS
    <3> HIDE DEF at
    <3>2. /\ proc'[p].at = at /\ proc'[p].cur = k /\ proc'[p].verb = proc[p].verb
          /\ proc'[p].todo = proc[p].todo /\ proc'[p].converge = proc[p].converge
          /\ proc'[p].dropLive = proc[p].dropLive
      BY <1>0, <2>3 DEF Become, ProcsOK, Process
    <3>3. /\ proc[p].verb # "finish" /\ ~proc[p].dropLive
          /\ proc[p].converge => fleet = NoName
          /\ Intermediate(p) => ~HasSealedDeferred(migrations)
          /\ ~Intermediate(p) => fleet \in {k, NoName}
      BY <1>0, <2>1 DEF SerialOK, ForwardOK, Finishing, FleetOK, PinOK, ApplyingOK, InTrain,
                        Intermediate
    <3> QED BY <2>1, <3>1, <3>2, <3>3
               DEF FleetOK, PinOK, DrainedOK, ApplyingOK, InTrain, Intermediate, Undoing,
                   Queued, Draining, Finishing
  <2>4. CASE ~Return(p)
    <3>1. FleetOK(proc[p])'
      BY <1>1, <2>3, <2>4 DEF GetActiveMigration
    <3> QED BY <2>1, <3>1, FleetQuiet
  <2> QED BY <2>2, <2>4
<1>2. CASE MarkCompleteDeferred(p)
  <2>1. /\ n \in ActiveMigrations(migrations) /\ UNCHANGED <<schemas, fleet>>
        /\ proc[p].at = "defer" /\ ~HasSealedDeferred(migrations) /\ ~proc[p].dropLive
        /\ proc[p].converge => fleet = NoName
    BY <1>0, <1>2 DEF MarkCompleteDeferred, At, env, SerialOK, ForwardOK, OnActive, FleetOK,
                      ApplyingOK, PinOK
  <2>2. migrations' = MarkedDeferred(migrations, n) /\ NextMigration(p)
    BY <1>2, <2>1 DEF MarkCompleteDeferred
  <2>3. ~HasSealedDeferred(migrations')
    <3>1. n \in DOMAIN migrations /\ ~migrations[n].sealed
      BY <1>0, <2>1 DEF ActiveMigrations, RowsConsistent
    <3> QED BY <1>0, <2>1, <2>2, <3>1, UpdatedRows DEF HasSealedDeferred
  <2>4. FleetOK(proc[p])'
    BY <1>0, <2>1, <2>2, <2>3, NextKeepsFleet
  <2> QED BY <1>0, <2>1, <2>3, <2>4, FleetStep DEF QueueSealed
<1>3. CASE ReadQueue(p)
  <2> DEFINE queue == ByCreation(DeferredCompletes(migrations))
             drops == ({proc[p].cur} \cup DOMAIN queue) \cap OnCompleteSQL # {}
             at == IF DOMAIN queue = {} THEN "own" ELSE "seal"
  <2>1. UNCHANGED <<migrations, schemas, fleet>> /\ proc[p].at = "queue"
    BY <1>3 DEF ReadQueue, At, db, env
  <2>2. Become(p, [proc[p] EXCEPT !.at = at, !.queue = queue, !.dropLive = drops])
    BY <1>3 DEF ReadQueue
  <2>3. /\ DOMAIN queue = DeferredCompletes(migrations) /\ ~drops
        /\ (at = "own" /\ DOMAIN queue = {}) \/ at = "seal"
    BY DEF ByCreation
  <2> HIDE DEF queue, drops, at
  <2>4. /\ proc'[p].at = at /\ proc'[p].queue = queue /\ proc'[p].todo = proc[p].todo
        /\ proc'[p].cur = proc[p].cur /\ proc'[p].verb = proc[p].verb
        /\ proc'[p].converge = proc[p].converge /\ proc'[p].dropLive = drops
    BY <1>0, <2>2 DEF Become, ProcsOK, Process
  <2>5. /\ proc[p].verb # "finish" /\ ~InTrain(proc[p])
        /\ proc[p].converge => fleet = NoName
    BY <1>0, <2>1 DEF SerialOK, ForwardOK, Finishing, FleetOK, PinOK, ApplyingOK
  <2>6. FleetOK(proc[p])'
    BY <2>1, <2>3, <2>4, <2>5
       DEF FleetOK, PinOK, DrainedOK, ApplyingOK, InTrain, Undoing, Queued, Draining,
           Finishing
  <2> QED BY <2>1, <2>6, FleetQuiet
<1> QED BY <1>1, <1>2, <1>3

(***************************************************************************)
(* The old version schemas are dropped, and what is done is sealed.        *)
(***************************************************************************)
LEMMA SealKeepsFleet ==
  ASSUME OneAtATime, FleetInv, CarefulInv', NEW p \in Procs,
         DropOldSchemas(p) \/ SealBeforeDrain(p) \/ DropLiveSchema(p)
  PROVE  FleetInv'
<1> DEFINE n == proc[p].cur
           live == LatestMigration(migrations)
<1>0. /\ ProcsOK /\ SerialOK(proc[p]) /\ CarefulOK(proc[p]) /\ FleetOK(proc[p])
      /\ DeployedTable(migrations) /\ QueueSealed /\ RowsConsistent(migrations)
      /\ \A k \in DOMAIN migrations : migrations[k] \in Row
      /\ fleet # NoName => fleet \in schemas
  BY FleetFacts
<1>1. \A k \in ActiveMigrations(migrations) : k = live
  BY <1>0, LatestIsNewest DEF ActiveMigrations
<1>2. ~proc[p].dropLive /\ proc[p].at # "dropLive"
  BY <1>0 DEF FleetOK, ApplyingOK
<1>3. CASE DropOldSchemas(p)
  <2>1. UNCHANGED <<migrations, fleet>> /\ proc[p].at = "dropOld"
    BY <1>3 DEF DropOldSchemas, At, env
  <2>2. PICK held \in SUBSET (schemas \ {n}) :
          /\ schemas' = (schemas \cap {n}) \cup held
          /\ \/ Return(p)
             \/ Goto(p, "queue") /\ proc[p].verb # "finish"
             \/ Goto(p, "drain") /\ proc[p].verb = "finish"
    BY <1>2, <1>3 DEF DropOldSchemas
  <2>3. /\ fleet \in {n, NoName} /\ ~InTrain(proc[p])
        /\ proc[p].converge => fleet = NoName
        /\ proc[p].verb = "finish" =>
             n = live /\ DeferredCompletes(migrations) \subseteq DOMAIN proc[p].queue
        /\ proc[p].verb # "finish" => n \in ActiveMigrations(migrations)
    BY <1>0, <2>1 DEF FleetOK, PinOK, ApplyingOK, DrainedOK, Queued, Draining, Finishing,
                      SerialOK, ForwardOK, OnActive
  <2>4. fleet' # NoName => fleet' \in schemas'
    BY <1>0, <2>1, <2>2, <2>3
  <2>5. QueueSealed'
    <3>1. schemas' \subseteq schemas /\ (n \in schemas => n \in schemas')
      BY <2>2
    <3>2. n = live
      BY <1>1, <2>3
    <3>3. LatestMigration(migrations') = live
      BY <2>1
    <3> HIDE DEF n, live
    <3> QED BY <1>0, <2>1, <3>1, <3>2, <3>3 DEF QueueSealed, live
  <2>6. ASSUME NEW step \in {"queue", "drain"}, Goto(p, step),
               step = "drain" => proc[p].verb = "finish"
        PROVE  FleetOK(proc[p])'
    <3>1. /\ proc'[p].at = step /\ proc'[p].verb = proc[p].verb /\ proc'[p].cur = n
          /\ proc'[p].todo = proc[p].todo /\ proc'[p].converge = proc[p].converge
          /\ proc'[p].queue = proc[p].queue /\ proc'[p].dropLive = proc[p].dropLive
      BY <1>0, <2>6, GotoKeeps
    <3> QED BY <1>2, <2>1, <2>3, <2>6, <3>1
               DEF FleetOK, PinOK, DrainedOK, ApplyingOK, InTrain, Undoing, Queued, Draining,
                   Finishing
  <2>7. FleetOK(proc[p])'
    BY <1>0, <2>2, <2>6, ReturnKeepsFleet
  <2> QED BY <2>4, <2>5, <2>7, FleetStep
<1>4. CASE SealBeforeDrain(p)
  <2>1. /\ UNCHANGED <<schemas, fleet>> /\ proc[p].at = "seal"
        /\ migrations' = MarkedSealed(migrations)
        /\ \/ Goto(p, "drain")
           \/ Goto(p, "dropOld") /\ proc[p].verb = "finish"
    BY <1>2, <1>4 DEF SealBeforeDrain, At, env
  <2>2. /\ DOMAIN migrations' = DOMAIN migrations
        /\ \A k \in DOMAIN migrations :
             /\ migrations'[k].done = migrations[k].done
             /\ migrations'[k].deferred = migrations[k].deferred
             /\ migrations[k].done => migrations'[k].sealed
             /\ migrations'[k].parent = migrations[k].parent
    BY <1>0, <2>1, SealedRows
  <2>3. /\ ActiveMigrations(migrations') = ActiveMigrations(migrations)
        /\ DeferredCompletes(migrations') = DeferredCompletes(migrations)
        /\ LatestMigration(migrations') = live
    BY <2>2, LatestKept DEF ActiveMigrations, DeferredCompletes
  <2>4. /\ ~InTrain(proc[p]) /\ (proc[p].converge => fleet = NoName)
        /\ DeferredCompletes(migrations) \subseteq DOMAIN proc[p].queue
        /\ proc[p].verb = "finish" =>
             /\ n = live /\ fleet \in {n, NoName} /\ (n \in schemas \/ schemas \subseteq {n})
             /\ ActiveMigrations(migrations) = {}
        /\ proc[p].verb # "finish" =>
             n \in ActiveMigrations(migrations) /\ schemas \subseteq {n}
    BY <1>0, <2>1 DEF FleetOK, PinOK, ApplyingOK, DrainedOK, Queued, Finishing, CarefulOK,
                      QueueOK, SerialOK, ForwardOK, OnActive, ViewsOK, Narrowed
  <2>5. QueueSealed'
    <3>1. \A k \in DOMAIN migrations' : migrations'[k].done => migrations'[k].sealed
      BY <2>2
    <3>2. n = live /\ \A k \in ActiveMigrations(migrations) : schemas \subseteq {k}
      BY <1>1, <2>4
    <3> HIDE DEF n, live
    <3> QED BY <2>1, <2>3, <2>4, <3>1, <3>2 DEF QueueSealed
  <2>6. ASSUME NEW step \in {"drain", "dropOld"}, Goto(p, step),
               step = "dropOld" => proc[p].verb = "finish"
        PROVE  FleetOK(proc[p])'
    <3>1. /\ proc'[p].at = step /\ proc'[p].verb = proc[p].verb /\ proc'[p].cur = n
          /\ proc'[p].todo = proc[p].todo /\ proc'[p].converge = proc[p].converge
          /\ proc'[p].queue = proc[p].queue /\ proc'[p].dropLive = proc[p].dropLive
      BY <1>0, <2>6, GotoKeeps
    <3> HIDE DEF n, live
    <3> QED BY <1>2, <2>1, <2>3, <2>4, <2>6, <3>1
               DEF FleetOK, PinOK, DrainedOK, ApplyingOK, InTrain, Undoing, Queued, Draining,
                   Finishing
  <2>7. FleetOK(proc[p])'
    BY <2>1, <2>6
  <2> QED BY <1>0, <2>1, <2>5, <2>7, FleetStep
<1>5. CASE DropLiveSchema(p)
  BY <1>2, <1>5 DEF DropLiveSchema, At
<1> QED BY <1>3, <1>4, <1>5

(***************************************************************************)
(* The drain, and the active migration's own Complete operations.          *)
(***************************************************************************)
LEMMA DrainKeepsFleet ==
  ASSUME OneAtATime, OnCompleteSQL = {}, FleetInv, CarefulInv', NEW p \in Procs,
         \/ ApplyDeferredComplete(p) \/ ClearCompleteDeferred(p) \/ CompleteOperations(p)
         \/ RefreshResultingSchema(p) \/ Reproject(p)
  PROVE  FleetInv'
<1>0. /\ ProcsOK /\ SerialOK(proc[p]) /\ CarefulOK(proc[p]) /\ FleetOK(proc[p])
      /\ QueueSealed /\ proc[p] \in Process /\ QueueBounded(proc[p].queue)
      /\ \A k \in DOMAIN migrations : migrations[k] \in Row
      /\ fleet # NoName => fleet \in schemas
  BY FleetFacts
<1>1. ~proc[p].dropLive
  BY <1>0 DEF FleetOK, ApplyingOK
<1>2. CASE \/ ApplyDeferredComplete(p) \/ CompleteOperations(p)
           \/ RefreshResultingSchema(p)
  <2>1. /\ UNCHANGED <<migrations, schemas, fleet>>
        /\ \/ Return(p)
           \/ UNCHANGED proc
           \/ /\ proc[p].at \in {"drain", "refresh"}
              /\ \E step \in {"refresh", "clear"} : Goto(p, step)
           \/ proc[p].at = "own" /\ Goto(p, "done")
           \/ proc[p].at = "own" /\ ~InTrain(proc[p]) /\ Goto(p, "reproject")
    BY <1>1, <1>2 DEF ApplyDeferredComplete, CompleteOperations, RefreshResultingSchema,
                      Contract, At, env, InTrain, Intermediate
  <2>2. ASSUME NEW step \in {"refresh", "clear", "done", "reproject"}, Goto(p, step),
               proc[p].at \in {"drain", "refresh", "own"},
               step \in {"done", "reproject"} <=> proc[p].at = "own",
               step = "reproject" => ~InTrain(proc[p])
        PROVE  FleetOK(proc[p])'
    <3>1. /\ proc'[p].at = step /\ proc'[p].verb = proc[p].verb
          /\ proc'[p].cur = proc[p].cur
          /\ proc'[p].todo = proc[p].todo /\ proc'[p].converge = proc[p].converge
          /\ proc'[p].queue = proc[p].queue /\ proc'[p].dropLive = proc[p].dropLive
      BY <1>0, <2>2, GotoKeeps
    <3>2. proc[p].at = "own" => ~Finishing(proc[p])
      BY <1>0 DEF SerialOK, ForwardOK, Finishing
    <3> QED BY <1>0, <2>1, <2>2, <3>1, <3>2
               DEF FleetOK, PinOK, DrainedOK, ApplyingOK, InTrain, Undoing, Queued, Draining,
                   Finishing
  <2>3. CASE UNCHANGED proc
    <3>1. FleetOK(proc[p])'
      BY <1>0, <2>1, <2>3 DEF FleetOK, PinOK, DrainedOK, ApplyingOK, InTrain, Undoing, Queued,
                              Draining, First
    <3> QED BY <2>1, <3>1, FleetQuiet
  <2>4. CASE ~UNCHANGED proc
    <3>1. FleetOK(proc[p])'
      BY <1>0, <2>1, <2>2, <2>4, ReturnKeepsFleet
    <3> QED BY <2>1, <3>1, FleetQuiet
  <2> QED BY <2>3, <2>4
<1>3. CASE ClearCompleteDeferred(p)
  <2> DEFINE n == Oldest(proc[p].queue)
             rest == Restrict(proc[p].queue, DOMAIN proc[p].queue \ {n})
             at == IF DOMAIN rest # {} THEN "drain"
                   ELSE IF proc[p].verb = "finish" THEN "reseal" ELSE "own"
  <2>1. /\ proc[p].at = "clear" /\ UNCHANGED <<schemas, fleet>>
        /\ Become(p, [proc[p] EXCEPT !.queue = rest, !.at = at])
    BY <1>3 DEF ClearCompleteDeferred, At, env
  <2>2. /\ DOMAIN proc[p].queue # {}
        /\ DOMAIN proc[p].queue \subseteq DeferredCompletes(migrations)
        /\ DeferredCompletes(migrations) \subseteq DOMAIN proc[p].queue
        /\ ~InTrain(proc[p]) /\ (proc[p].converge => fleet = NoName)
    BY <1>0, <2>1 DEF SerialOK, DrainOK, Draining, CarefulOK, QueueOK, Queued, FleetOK,
                      DrainedOK, ApplyingOK, PinOK
  <2>3. n \in DOMAIN migrations
    BY <1>0, <2>2, NewestOK DEF Process, DeferredCompletes
  <2>4. migrations' = DeferredCleared(migrations, n)
    BY <1>3, <2>3 DEF ClearCompleteDeferred
  <2>5. /\ DOMAIN migrations' = DOMAIN migrations
        /\ \A k \in DOMAIN migrations :
             /\ migrations'[k].done = migrations[k].done
             /\ migrations'[k].sealed = migrations[k].sealed
             /\ migrations'[k].parent = migrations[k].parent
             /\ migrations'[k].deferred => migrations[k].deferred /\ k # n
    BY <1>0, <2>3, <2>4, UpdatedRows
  <2>6. DOMAIN rest = DOMAIN proc[p].queue \ {n}
    BY DEF Restrict
  <2>7. at \in {"drain", "reseal", "own"} /\ (at # "drain" => DOMAIN rest = {})
    OBVIOUS
  <2> HIDE DEF rest, at, n
  <2>8. /\ proc'[p].at = at /\ proc'[p].queue = rest
        /\ proc'[p].verb = proc[p].verb /\ proc'[p].cur = proc[p].cur
        /\ proc'[p].todo = proc[p].todo /\ proc'[p].converge = proc[p].converge
        /\ proc'[p].dropLive = proc[p].dropLive
    BY <1>0, <2>1 DEF Become, ProcsOK, Process
  <2>9. DeferredCompletes(migrations') \subseteq DOMAIN rest
    BY <2>2, <2>5, <2>6 DEF DeferredCompletes
  <2>10. FleetOK(proc[p])'
    BY <1>1, <2>1, <2>2, <2>7, <2>8, <2>9
       DEF FleetOK, PinOK, DrainedOK, ApplyingOK, InTrain, Undoing, Queued, Draining,
           Finishing
  <2>11. /\ ActiveMigrations(migrations') = ActiveMigrations(migrations)
         /\ HasSealedDeferred(migrations') => HasSealedDeferred(migrations)
         /\ LatestMigration(migrations') = LatestMigration(migrations)
    BY <2>5, LatestKept DEF ActiveMigrations, HasSealedDeferred
  <2>12. QueueSealed'
    BY <1>0, <2>1, <2>5, <2>11 DEF QueueSealed
  <2> QED BY <1>0, <2>1, <2>10, <2>12, FleetStep
<1>4. CASE Reproject(p)
  <2>1. /\ UNCHANGED <<migrations, fleet>> /\ schemas \subseteq schemas'
        /\ proc[p].at = "reproject" /\ Goto(p, "done")
    BY <1>0, <1>4 DEF Reproject, At, env, FleetOK, ApplyingOK, Finishing
  <2>2. /\ proc'[p].at = "done" /\ proc'[p].verb = proc[p].verb
        /\ proc'[p].cur = proc[p].cur
        /\ proc'[p].todo = proc[p].todo /\ proc'[p].converge = proc[p].converge
        /\ proc'[p].queue = proc[p].queue /\ proc'[p].dropLive = proc[p].dropLive
    BY <1>0, <2>1, GotoKeeps
  <2>3. FleetOK(proc[p])'
    BY <1>0, <2>1, <2>2
       DEF FleetOK, PinOK, DrainedOK, ApplyingOK, InTrain, Undoing, Queued, Draining,
           Finishing
  <2>4. DeferredCompletes(migrations) = {}
    BY <1>0, <2>1 DEF FleetOK, DrainedOK, ApplyingOK, InTrain
  <2>5. QueueSealed'
    BY <2>1, <2>4 DEF QueueSealed, HasSealedDeferred, DeferredCompletes
  <2> QED BY <1>0, <2>1, <2>3, <2>5, FleetStep
<1> QED BY <1>2, <1>3, <1>4

(***************************************************************************)
(* The end of Complete, FinishContraction and revert.                      *)
(***************************************************************************)
LEMMA EndKeepsFleet ==
  ASSUME OneAtATime, FleetInv, CarefulInv', NEW p \in Procs,
         \/ Complete(p) \/ SealAfterComplete(p) \/ SealOpenWindow(p)
         \/ CleanUpSchemas(p) \/ EnsureLeafVersionSchema(p)
  PROVE  FleetInv'
<1> DEFINE live == LatestMigration(migrations)
<1>0. /\ ProcsOK /\ SerialOK(proc[p]) /\ CarefulOK(proc[p]) /\ FleetOK(proc[p])
      /\ QueueSealed /\ \A k \in DOMAIN migrations : migrations[k] \in Row
  BY FleetFacts
<1>1. fleet # NoName => fleet \in schemas
  BY FleetFacts
<1>2. CASE Complete(p)
  <2> DEFINE n == proc[p].cur
  <2>1. /\ n \in ActiveMigrations(migrations) /\ UNCHANGED <<schemas, fleet>>
        /\ proc[p].at = "done" /\ ~proc[p].dropLive
        /\ proc[p].converge => fleet = NoName
    BY <1>0, <1>2 DEF Complete, At, env, SerialOK, ForwardOK, OnActive, FleetOK, PinOK,
                      ApplyingOK
  <2>2. /\ migrations' = Completed(migrations, n)
        /\ IF Intermediate(p) THEN NextMigration(p) ELSE Goto(p, "reseal")
    BY <1>2, <2>1 DEF Complete
  <2>3. /\ DOMAIN migrations' = DOMAIN migrations
        /\ \A k \in DOMAIN migrations : /\ migrations'[k].deferred = migrations[k].deferred
                                        /\ migrations'[k].sealed = migrations[k].sealed
    BY <1>0, <2>1, <2>2, UpdatedRows DEF ActiveMigrations
  <2>4. /\ Intermediate(p) => ~HasSealedDeferred(migrations)
        /\ ~Intermediate(p) => DeferredCompletes(migrations) = {}
    BY <1>0, <2>1 DEF FleetOK, DrainedOK, ApplyingOK, InTrain, Intermediate
  <2>5. /\ ~HasSealedDeferred(migrations')
        /\ ~Intermediate(p) => DeferredCompletes(migrations') = {}
    BY <2>3, <2>4 DEF HasSealedDeferred, DeferredCompletes
  <2>6. CASE Intermediate(p)
    BY <1>0, <1>1, <2>1, <2>2, <2>5, <2>6, NextKeepsFleet, FleetStep DEF QueueSealed
  <2>7. CASE ~Intermediate(p)
    <3>1. /\ proc'[p].at = "reseal" /\ proc'[p].todo = proc[p].todo
          /\ proc'[p].converge = proc[p].converge /\ proc'[p].dropLive = proc[p].dropLive
      BY <1>0, <2>2, <2>7, GotoKeeps
    <3>2. FleetOK(proc[p])'
      BY <2>1, <2>5, <2>7, <3>1
         DEF FleetOK, PinOK, DrainedOK, ApplyingOK, InTrain, Intermediate, Undoing, Queued,
             Draining
    <3> QED BY <1>1, <2>1, <2>5, <3>2, FleetStep DEF QueueSealed
  <2> QED BY <2>6, <2>7
<1>3. CASE SealAfterComplete(p) \/ SealOpenWindow(p)
  <2>1. /\ UNCHANGED <<schemas, fleet>> /\ migrations' = MarkedSealed(migrations)
        /\ Return(p) \/ (Goto(p, "cleanup") /\ proc[p].at = "stamp")
        /\ DeferredCompletes(migrations) = {} /\ ~InTrain(proc[p]) /\ ~proc[p].dropLive
        /\ proc[p].converge => fleet = NoName
    BY <1>0, <1>3 DEF SealAfterComplete, SealOpenWindow, At, env, FleetOK, PinOK, DrainedOK,
                      ApplyingOK
  <2>2. /\ DOMAIN migrations' = DOMAIN migrations
        /\ \A k \in DOMAIN migrations : /\ migrations'[k].deferred = migrations[k].deferred
                                        /\ migrations'[k].parent = migrations[k].parent
    BY <1>0, <2>1, SealedRows
  <2>3. /\ DeferredCompletes(migrations') = {} /\ ~HasSealedDeferred(migrations')
        /\ LatestMigration(migrations') = live
    BY <2>1, <2>2, LatestKept DEF DeferredCompletes, HasSealedDeferred
  <2>4. ASSUME Goto(p, "cleanup"), proc[p].at = "stamp" PROVE FleetOK(proc[p])'
    <3>1. /\ proc'[p].at = "cleanup" /\ proc'[p].todo = proc[p].todo
          /\ proc'[p].converge = proc[p].converge /\ proc'[p].dropLive = proc[p].dropLive
      BY <1>0, <2>4, GotoKeeps
    <3>2. live \in schemas => fleet \in {live, NoName}
      BY <1>0, <2>4 DEF FleetOK, PinOK
    <3> HIDE DEF live
    <3> QED BY <2>1, <2>3, <3>1, <3>2
               DEF FleetOK, PinOK, DrainedOK, ApplyingOK, InTrain, Undoing, Queued, Draining
  <2>5. FleetOK(proc[p])'
    BY <1>0, <2>1, <2>4, ReturnKeepsFleet
  <2> QED BY <1>1, <2>1, <2>3, <2>5, FleetStep DEF QueueSealed
<1>4. CASE CleanUpSchemas(p)
  <2>1. /\ UNCHANGED <<migrations, fleet>> /\ Return(p)
        /\ live \in schemas \cap schemas' \/ (live \notin schemas /\ UNCHANGED schemas)
        /\ DeferredCompletes(migrations) = {}
        /\ live \in schemas => fleet \in {live, NoName}
    BY <1>0, <1>4 DEF CleanUpSchemas, At, env, FleetOK, PinOK, DrainedOK
  <2>2. ~HasSealedDeferred(migrations')
    BY <2>1 DEF DeferredCompletes, HasSealedDeferred
  <2>3. fleet' # NoName => fleet' \in schemas'
    BY <1>1, <2>1
  <2> QED BY <1>0, <2>1, <2>2, <2>3, ReturnKeepsFleet, FleetStep DEF QueueSealed
<1>5. CASE EnsureLeafVersionSchema(p)
  <2>1. /\ UNCHANGED <<migrations, fleet>> /\ Return(p) /\ proc[p].at = "leaf"
        /\ UNCHANGED schemas \/ schemas' = schemas \cup {live}
    BY <1>5 DEF EnsureLeafVersionSchema, At, env
  <2>2. ActiveMigrations(migrations) = {}
    BY <1>0, <2>1 DEF CarefulOK, TakeBackOK, IsActiveMigrationPeriod
  <2>3. QueueSealed'
    BY <1>0, <2>1, <2>2 DEF QueueSealed
  <2> QED BY <1>0, <1>1, <2>1, <2>3, ReturnKeepsFleet, FleetStep
<1> QED BY <1>2, <1>3, <1>4, <1>5

(***************************************************************************)
(* The steps of rollback and revert.  While a sealed queue is left, only   *)
(* the active migration can be undone, and its version schema is the only  *)
(* one there is.                                                           *)
(***************************************************************************)
LEMMA UndoKeepsFleet ==
  ASSUME OneAtATime, FleetInv, CarefulInv', NEW p \in Procs,
         DropVersionSchema(p) \/ RollbackOperations(p) \/ DeleteMigration(p)
  PROVE  FleetInv'
<1> DEFINE n == proc[p].cur
<1>0. /\ ProcsOK /\ SerialOK(proc[p]) /\ CarefulOK(proc[p]) /\ FleetOK(proc[p])
      /\ QueueSealed /\ schemas \subseteq DOMAIN migrations /\ proc[p] \in Process
      /\ QueueBounded(proc[p].queue) /\ RowsConsistent(migrations)
  BY FleetFacts
<1>1. fleet # NoName => fleet \in schemas
  BY FleetFacts
<1>2. /\ proc[p].verb \in {"rollback", "revert"}
      /\ proc[p].verb = "revert" => fleet \notin DOMAIN proc[p].queue
      /\ ~InTrain(proc[p]) /\ ~proc[p].dropLive /\ (proc[p].converge => fleet = NoName)
      /\ n \in DOMAIN migrations => ~migrations[n].done \/ ~migrations[n].sealed
  BY <1>0 DEF DropVersionSchema, RollbackOperations, DeleteMigration, At, SerialOK, UndoOK,
              Undoing, FleetOK, PinOK, ApplyingOK, CarefulOK, TakeBackOK, ActiveMigrations
<1>3. HasSealedDeferred(migrations) /\ n \in DOMAIN migrations => schemas \subseteq {n}
  BY <1>0, <1>2 DEF QueueSealed, ActiveMigrations
<1>4. ASSUME NEW step \in {"undo", "delete", "leaf"}, Goto(p, step), UNCHANGED fleet
      PROVE  FleetOK(proc[p])'
  <2>1. /\ proc'[p].at = step /\ proc'[p].verb = proc[p].verb
        /\ proc'[p].todo = proc[p].todo /\ proc'[p].converge = proc[p].converge
        /\ proc'[p].queue = proc[p].queue /\ proc'[p].dropLive = proc[p].dropLive
    BY <1>0, <1>4, GotoKeeps
  <2> QED BY <1>2, <1>4, <2>1
             DEF FleetOK, PinOK, DrainedOK, ApplyingOK, InTrain, Undoing, Queued, Draining
<1>5. CASE DropVersionSchema(p)
  <2>1. /\ UNCHANGED <<migrations, fleet>> /\ schemas' = schemas \ {n}
        /\ Goto(p, "undo") /\ fleet # n
    BY <1>0, <1>5 DEF DropVersionSchema, At, env, FleetOK, PinOK
  <2>2. HasSealedDeferred(migrations) => schemas' = schemas \/ schemas' = {}
    BY <1>0, <1>3, <2>1
  <2>3. QueueSealed'
    BY <1>0, <2>1, <2>2 DEF QueueSealed
  <2> QED BY <1>1, <1>4, <2>1, <2>3, FleetStep
<1>6. CASE RollbackOperations(p)
  <2>1. /\ UNCHANGED <<migrations, schemas, fleet>>
        /\ UNCHANGED proc \/ Goto(p, "delete")
    BY <1>6 DEF RollbackOperations, env
  <2>2. CASE UNCHANGED proc
    <3>1. FleetOK(proc[p])'
      BY <1>0, <2>1, <2>2 DEF FleetOK, PinOK, DrainedOK, ApplyingOK, InTrain, Undoing, Queued,
                              Draining, First
    <3> QED BY <2>1, <3>1, FleetQuiet
  <2> QED BY <1>4, <2>1, <2>2, FleetQuiet
<1>7. CASE DeleteMigration(p)
  <2> DEFINE rest == Restrict(proc[p].queue, DOMAIN proc[p].queue \ {n})
  <2>1. UNCHANGED <<schemas, fleet>> /\ n \notin schemas
    BY <1>0, <1>7 DEF DeleteMigration, At, env, CarefulOK, TakeBackOK
  <2>2. CASE UNCHANGED migrations /\ Return(p)
    BY <1>0, <2>1, <2>2, ReturnKeepsFleet, FleetQuiet
  <2>3. CASE /\ n \in DOMAIN migrations /\ migrations' = Deleted(migrations, n)
             /\ \/ Return(p)
                \/ Goto(p, "leaf")
                \/ /\ proc[p].verb # "rollback" /\ DOMAIN rest # {}
                   /\ Become(p, [proc[p] EXCEPT !.at = "dropVersion",
                                   !.cur = Newest(rest), !.queue = rest])
    <3>1. /\ DOMAIN migrations' = DOMAIN migrations \ {n}
          /\ \A k \in DOMAIN migrations' : migrations'[k] = migrations[k]
      BY <2>3 DEF Deleted, Restrict
    <3>2. QueueSealed'
      <4>1. ASSUME HasSealedDeferred(migrations') PROVE HasSealedDeferred(migrations)
        BY <3>1, <4>1 DEF HasSealedDeferred
      <4>2. HasSealedDeferred(migrations') => schemas' = {}
        BY <1>3, <2>1, <2>3, <4>1
      <4>3. HasSealedDeferred(migrations') =>
              \A k \in DOMAIN migrations' : migrations'[k].done => migrations'[k].sealed
        BY <1>0, <3>1, <4>1 DEF QueueSealed
      <4> QED BY <4>2, <4>3 DEF QueueSealed
    <3>3. ASSUME proc[p].verb # "rollback", DOMAIN rest # {},
                 Become(p, [proc[p] EXCEPT !.at = "dropVersion", !.cur = Newest(rest),
                                           !.queue = rest])
          PROVE  FleetOK(proc[p])'
      <4>1. /\ rest \in UNION {[T -> Timestamps] : T \in SUBSET Names}
            /\ QueueBounded(rest)
        BY <1>0, RestOK DEF Process
      <4>2. Newest(rest) \in DOMAIN rest /\ DOMAIN rest \subseteq DOMAIN proc[p].queue
        BY <3>3, <4>1, NewestOK DEF Restrict
      <4> DEFINE cur == Newest(rest)
      <4> HIDE DEF rest, cur
      <4>3. /\ proc'[p].at = "dropVersion" /\ proc'[p].verb = proc[p].verb
            /\ proc'[p].cur = cur /\ proc'[p].queue = rest
            /\ proc'[p].todo = proc[p].todo /\ proc'[p].converge = proc[p].converge
            /\ proc'[p].dropLive = proc[p].dropLive
        BY <1>0, <3>3 DEF Become, ProcsOK, Process, cur
      <4> QED BY <1>2, <2>1, <3>3, <4>2, <4>3
                 DEF FleetOK, PinOK, DrainedOK, ApplyingOK, InTrain, Undoing, Queued,
                     Draining, cur
    <3>4. FleetOK(proc[p])'
      BY <1>0, <1>4, <2>1, <2>3, <3>3, ReturnKeepsFleet
    <3> QED BY <1>1, <2>1, <3>2, <3>4, FleetStep
  <2> QED BY <1>7, <2>2, <2>3 DEF DeleteMigration
<1> QED BY <1>5, <1>6, <1>7

----------------------------------------------------------------------------
(* What holds of the applications' version schema.                         *)

(***************************************************************************)
(* The inductive invariant holds in every reachable state.                 *)
(***************************************************************************)
THEOREM FleetInvariant ==
  ASSUME OneAtATime, CarefulDeployment, OnCompleteSQL = {}
  PROVE  Spec => []FleetInv
<1>1. ASSUME Init, CarefulInv PROVE FleetInv
  <2>1. /\ DOMAIN migrations = {} /\ fleet = NoName
        /\ \A p \in Procs : proc[p] = Idle
    BY <1>1 DEF Init, EmptyTable
  <2>2. Idle.at = "idle" /\ Idle.todo = {} /\ Idle.dropLive = FALSE
    BY DEF Idle
  <2>3. QueueSealed
    BY <2>1 DEF QueueSealed, HasSealedDeferred
  <2>4. \A p \in Procs : FleetOK(proc[p])
    BY <2>1, <2>2 DEF FleetOK, PinOK, DrainedOK, ApplyingOK, InTrain, Undoing, Queued,
                      Draining
  <2> QED BY <1>1, <2>1, <2>3, <2>4 DEF FleetInv
<1>2. ASSUME FleetInv, CarefulInv', [Next]_vars PROVE FleetInv'
  <2>1. ASSUME NEW s \in Names \cup {NoName}, Repin(s) PROVE FleetInv'
    <3>1. /\ UNCHANGED <<migrations, schemas, proc>> /\ fleet' = s
          /\ s # NoName => s \in schemas
          /\ \A p \in Procs : proc[p].at = "idle"
      BY <2>1 DEF Repin, db, AllIdle, At
    <3>2. ASSUME NEW p \in Procs PROVE FleetOK(proc[p])'
      BY <1>2, <3>1 DEF FleetInv, FleetOK, PinOK, DrainedOK, ApplyingOK, InTrain, Undoing,
                        Queued, Draining, First
    <3>3. QueueSealed'
      BY <1>2, <3>1 DEF FleetInv, QueueSealed
    <3> QED BY <1>2, <3>1, <3>2, <3>3 DEF FleetInv
  <2>2. ASSUME NEW p \in Procs, Command(p) \/ StartFails(p) \/ Crash(p) PROVE FleetInv'
    BY <1>2, <2>2, CommandKeepsFleet
  <2>3. ASSUME NEW p \in Procs, Step(p) PROVE FleetInv'
    BY <1>2, <2>3, StartKeepsFleet, ActiveKeepsFleet, SealKeepsFleet, DrainKeepsFleet,
       EndKeepsFleet, UndoKeepsFleet DEF Step
  <2>4. CASE UNCHANGED vars
    <3>1. \A p \in Procs : FleetOK(proc[p])'
      BY <1>2, <2>4 DEF vars, FleetInv, FleetOK, PinOK, DrainedOK, ApplyingOK, InTrain, First
    <3>2. QueueSealed' /\ (fleet' # NoName => fleet' \in schemas')
      BY <1>2, <2>4 DEF vars, FleetInv, QueueSealed
    <3> QED BY <1>2, <3>1, <3>2 DEF FleetInv
  <2> QED BY <1>2, <2>1, <2>2, <2>3, <2>4 DEF Next
<1> QED BY <1>1, <1>2, CarefulInvariant, PTL DEF Spec

(***************************************************************************)
(* The applications keep their version schema, whatever is deployed,       *)
(* completed, rolled back and reverted, and wherever a command dies: the   *)
(* version schema they use is never dropped under them.                    *)
(***************************************************************************)
THEOREM ApplicationsStayServed ==
  ASSUME OneAtATime, CarefulDeployment, OnCompleteSQL = {}
  PROVE  Spec => []FleetServed
<1>1. FleetInv => FleetServed
  BY DEF FleetInv, FleetServed
<1> QED BY <1>1, FleetInvariant, PTL
=============================================================================
