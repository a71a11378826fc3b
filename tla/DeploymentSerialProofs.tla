----------------------- MODULE DeploymentSerialProofs -----------------------
(***************************************************************************)
(* What holds of deployments when one pgroll process runs at a time, for   *)
(* any commands in any order and wherever the process dies.  Nothing in    *)
(* pgroll makes a second process wait between two statements, so these     *)
(* theorems state the hypothesis OneAtATime.                               *)
(***************************************************************************)
EXTENDS DeploymentProofs

OneAtATime == \A p, q \in Procs : p = q

Finishing(s) == s.verb = "finish"

\* The steps of migrate and complete up to the completed row: they work on
\* the active migration.
OnActive(s) ==
  \/ s.at \in {"ops", "views", "triggers", "backfill", "defer", "queue", "own", "done"}
  \/ s.at = "active" /\ s.todo # {}
  \/ /\ s.at \in {"dropOld", "seal", "dropLive", "drain", "clear", "reproject"}
     /\ ~Finishing(s)

\* The steps of a train after a migration's Start operations.
Expanded(s) == \/ s.at \in {"views", "triggers", "backfill", "defer"}
               \/ s.at = "active" /\ s.todo # {}

\* The steps between the seal and the end of the drain.
Draining(s) == \/ s.at \in {"dropLive", "drain", "clear", "refresh"}
               \/ s.at \in {"dropOld", "reproject"} /\ Finishing(s)

Undoing(s) == s.at \in {"dropVersion", "undo", "delete"}

\* The steps after the old version schemas have been dropped.
Narrowed(s) == \/ s.at \in {"queue", "dropLive", "drain", "clear", "refresh"}
               \/ s.at = "seal" /\ ~Finishing(s)
               \/ s.at = "reproject" /\ Finishing(s)

Last(queue) == DOMAIN queue = {Oldest(queue)}

\* Migrate and complete work on the active migration, and a train goes on to
\* Complete only what is not contracted yet.
ForwardOK(s) ==
  /\ OnActive(s) => s.cur \in ActiveMigrations(migrations)
  /\ Expanded(s) => ~Contracting(s.cur)
  /\ s.at \in {"start", "insert", "ops", "views", "triggers", "backfill", "active",
                "defer", "queue", "own", "done"} => ~Finishing(s)

\* A drain begins when everything that is queued has been sealed.
DrainOK(s) ==
  /\ Draining(s) => \A n \in DeferredCompletes(migrations) : migrations[n].sealed
  /\ Draining(s) \/ s.at = "seal" =>
       DOMAIN s.queue # {} /\ (DOMAIN s.queue \cap OnCompleteSQL # {} => s.dropLive)

\* A revert walks rows that are not sealed.
UndoOK(s) ==
  Undoing(s) =>
    /\ s.verb \in {"rollback", "revert"}
    /\ s.verb = "revert" =>
         /\ s.cur \in DOMAIN s.queue
         /\ \A n \in DOMAIN s.queue \cap DOMAIN migrations : ~migrations[n].sealed

\* A drain meets at most the live version schema; with onComplete SQL in the
\* queue not even that, until the last of the queue is done.
ViewsOK(s) ==
  /\ s.at \in {"views", "dropOld", "dropLive", "reproject"} => versionSchemas
  /\ Narrowed(s) => schemas \subseteq {s.cur}
  /\ s.at = "drain" /\ s.dropLive => schemas = {}
  /\ s.at = "clear" /\ s.dropLive => schemas = {} \/ Last(s.queue)
  /\ s.at = "refresh" => Last(s.queue) /\ Finishing(s)
  /\ s.at = "reproject" /\ Finishing(s) => Last(s.queue)

SerialOK(s) == ForwardOK(s) /\ DrainOK(s) /\ UndoOK(s) /\ ViewsOK(s)

(***************************************************************************)
(* The inductive invariant with one process at a time.                     *)
(***************************************************************************)
SerialInv == /\ IInv
             /\ SealedPrecedesContraction
             /\ ~versionSchemas => schemas = {}
             /\ \A p \in Procs : SerialOK(proc[p])

(***************************************************************************)
(* The fields of a process that moves to another step.                     *)
(***************************************************************************)
LEMMA GotoFields ==
  ASSUME ProcsOK, NEW p \in Procs, NEW step, Goto(p, step)
  PROVE  /\ proc'[p].at = step
         /\ proc'[p].verb = proc[p].verb
         /\ proc'[p].cur = proc[p].cur
         /\ proc'[p].todo = proc[p].todo
         /\ proc'[p].queue = proc[p].queue
         /\ proc'[p].dropLive = proc[p].dropLive
BY DEF ProcsOK, Goto, Become, Process

(***************************************************************************)
(* A process that has ended its command, or is at a step that neither      *)
(* contracts nor undoes anything, is sound.                                *)
(***************************************************************************)
LEMMA RestingOK ==
  ASSUME NEW p \in Procs,
         \/ proc'[p].at \in {"idle", "stamp", "cleanup", "reseal", "leaf"}
         \/ proc'[p].at \in {"start", "insert"} /\ proc'[p].verb # "finish"
  PROVE  SerialOK(proc[p])'
BY DEF SerialOK, ForwardOK, DrainOK, UndoOK, ViewsOK, OnActive, Expanded, Draining,
       Undoing, Narrowed, Finishing

(***************************************************************************)
(* A process that ends its command.                                        *)
(***************************************************************************)
LEMMA ReturnRests ==
  ASSUME ProcsOK, NEW p \in Procs, Return(p)
  PROVE  SerialOK(proc[p])'
<1>1. proc'[p].at = "idle"
  BY IdleOK DEF ProcsOK, Return, Become
<1> QED BY <1>1, RestingOK

(***************************************************************************)
(* A process that goes on to the next migration of its train.              *)
(***************************************************************************)
LEMMA NextRests ==
  ASSUME ProcsOK, NEW p \in Procs, NextMigration(p), proc[p].verb # "finish"
  PROVE  SerialOK(proc[p])'
<1> DEFINE rest == proc[p].todo \ {First(proc[p].todo)}
           s == [proc[p] EXCEPT !.at = "start", !.cur = First(rest), !.todo = rest]
<1>1. CASE Return(p)
  BY <1>1, ReturnRests
<1>2. CASE Become(p, s)
  <2>1. s.at = "start" /\ s.verb = proc[p].verb
    BY DEF ProcsOK, Process
  <2> HIDE DEF s
  <2>2. proc'[p] = s
    BY <1>2 DEF Become, ProcsOK
  <2> QED BY <2>1, <2>2, RestingOK
<1> QED BY <1>1, <1>2 DEF NextMigration

(***************************************************************************)
(* With one process, a step leaves the invariant when it leaves it for the *)
(* process that takes it.                                                  *)
(***************************************************************************)
LEMMA SerialStep ==
  ASSUME OneAtATime, NEW p \in Procs, IInv', SealedPrecedesContraction',
         (~versionSchemas => schemas = {})', SerialOK(proc[p])'
  PROVE  SerialInv'
<1>1. \A q \in Procs : q = p
  BY DEF OneAtATime
<1> QED BY <1>1 DEF SerialInv

(***************************************************************************)
(* A step that changes neither the table nor the phases, nor adds schemas. *)
(***************************************************************************)
LEMMA SerialQuiet ==
  ASSUME OneAtATime, SerialInv, NEW p \in Procs, IInv', SerialOK(proc[p])',
         UNCHANGED <<migrations, phys, versionSchemas>>, schemas' \subseteq schemas
  PROVE  SerialInv'
<1>1. SealedPrecedesContraction' /\ (~versionSchemas => schemas = {})'
  BY DEF SerialInv, SealedPrecedesContraction, Contracting, DeferredCompletes
<1> QED BY <1>1, SerialStep

----------------------------------------------------------------------------
(* Every step keeps the invariant.                                         *)

(***************************************************************************)
(* A command begins, Start fails, or the process dies.                     *)
(***************************************************************************)
LEMMA CommandKeepsSerial ==
  ASSUME OneAtATime, SerialInv, IInv', NEW p \in Procs,
         Command(p) \/ StartFails(p) \/ Crash(p)
  PROVE  SerialInv'
<1>0. /\ ProcsOK /\ DeployedTable(migrations) /\ Idle \in Process
      /\ Idle.verb = "none" /\ Idle.todo = {}
  BY IdleOK DEF SerialInv, IInv, ProcOK, Idle
<1>1. UNCHANGED <<migrations, phys, versionSchemas>> /\ schemas' \subseteq schemas
  BY DEF Command, StartFails, Crash, MigrateBegin, MigrateAwaiting, CompleteBegin,
         FinishBegin, RollbackBegin, RevertBegin, db, env
<1>2. ASSUME NEW names \in SUBSET Names, NEW converge \in BOOLEAN,
             MigrateBegin(p, names, converge)
      PROVE  SerialOK(proc[p])'
  <2>1. proc'[p].at = "start" /\ proc'[p].verb = "migrate"
    BY <1>0, <1>2 DEF MigrateBegin, Become, ProcsOK, Process
  <2> QED BY <2>1, RestingOK
<1>3. ASSUME NEW n \in Names, MigrateAwaiting(p, n) \/ CompleteBegin(p, n)
      PROVE  SerialOK(proc[p])'
  <2>1. proc'[p].at = "active" /\ proc'[p].verb = "complete" /\ proc'[p].todo = {}
    <3>1. Become(p, [Idle EXCEPT !.at = "active", !.verb = "complete"])
      BY <1>3 DEF MigrateAwaiting, CompleteBegin
    <3> QED BY <1>0, <3>1 DEF Become, ProcsOK, Process
  <2> QED BY <2>1 DEF SerialOK, ForwardOK, DrainOK, UndoOK, ViewsOK, OnActive, Expanded,
                      Draining, Undoing, Narrowed, Finishing
<1>4. ASSUME NEW n, Become(p, [Idle EXCEPT !.at = "dropVersion", !.verb = "rollback",
                                           !.cur = n])
      PROVE  SerialOK(proc[p])'
  <2>1. proc'[p].at = "dropVersion" /\ proc'[p].verb = "rollback"
    BY <1>0, <1>4 DEF Become, ProcsOK, Process
  <2> QED BY <2>1 DEF SerialOK, ForwardOK, DrainOK, UndoOK, ViewsOK, OnActive, Expanded,
                      Draining, Undoing, Narrowed, Finishing
<1>5. ASSUME NEW n \in Names, RevertBegin(p, n)
      PROVE  SerialOK(proc[p])'
  <2> DEFINE window  == UnsealedMigrations(migrations)
             targets == {k \in window : migrations[k].created >= migrations[n].created}
             applied == {k \in targets : migrations[k].done /\ ~migrations[k].deferred}
             queue   == ByCreation(targets)
  <2>1. n \in window /\ Become(p, [Idle EXCEPT !.at = "dropVersion", !.verb = "revert",
                                   !.cur = Newest(queue), !.queue = queue,
                                   !.applied = applied])
    BY <1>5 DEF RevertBegin
  <2>2. targets \in SUBSET DOMAIN migrations /\ targets # {}
    <3>1. migrations[n].created \in Nat
      BY <1>0, <2>1, TimestampsAssumption
         DEF UnsealedMigrations, DeployedTable, TableOK, IsTable, Row
    <3> QED BY <2>1, <3>1 DEF UnsealedMigrations
  <2>3. \A k \in targets : ~migrations[k].sealed
    BY DEF UnsealedMigrations
  <2> HIDE DEF targets, applied
  <2>4. /\ queue \in UNION {[T -> Timestamps] : T \in SUBSET Names}
        /\ DOMAIN queue = targets /\ QueueBounded(queue)
    BY <1>0, <2>2, ByCreationOK
  <2>5. Newest(queue) \in DOMAIN queue
    BY <2>2, <2>4, NewestOK
  <2> HIDE DEF queue
  <2>6. /\ proc'[p].at = "dropVersion" /\ proc'[p].verb = "revert"
        /\ proc'[p].cur = Newest(queue) /\ proc'[p].queue = queue
    BY <1>0, <2>1 DEF Become, ProcsOK, Process
  <2>7. \A k \in DOMAIN queue \cap DOMAIN migrations' : ~migrations'[k].sealed
    BY <1>1, <2>3, <2>4
  <2> QED BY <2>5, <2>6, <2>7
             DEF SerialOK, ForwardOK, DrainOK, UndoOK, ViewsOK, OnActive, Expanded,
                 Draining, Undoing, Narrowed, Finishing
<1>6. ASSUME NEW force \in BOOLEAN, FinishBegin(p, force)
      PROVE  SerialOK(proc[p])'
  <2> DEFINE queue == ByCreation(DeferredCompletes(migrations))
             drops == DOMAIN queue \cap OnCompleteSQL # {}
  <2>1. CASE Become(p, [Idle EXCEPT !.at = "stamp", !.verb = "finish"])
    <3>1. proc'[p].at = "stamp"
      BY <1>0, <2>1 DEF Become, ProcsOK, Process
    <3> QED BY <3>1, RestingOK
  <2>2. CASE /\ DOMAIN queue # {}
             /\ Become(p, [Idle EXCEPT !.at = "seal", !.verb = "finish",
                              !.cur = LatestMigration(migrations), !.queue = queue,
                              !.dropLive = drops])
    <3>1. drops \in BOOLEAN
      OBVIOUS
    <3> HIDE DEF queue, drops
    <3>2. /\ proc'[p].at = "seal" /\ proc'[p].verb = "finish"
          /\ proc'[p].queue = queue /\ proc'[p].dropLive = drops
      BY <1>0, <2>2, <3>1 DEF Become, ProcsOK, Process
    <3> QED BY <2>2, <3>2
               DEF SerialOK, ForwardOK, DrainOK, UndoOK, ViewsOK, OnActive, Expanded,
                   Draining, Undoing, Narrowed, Finishing, drops
  <2> QED BY <1>6, <2>1, <2>2 DEF FinishBegin
<1>7. ASSUME StartFails(p) \/ Crash(p)
      PROVE  SerialOK(proc[p])'
  <2>1. CASE Return(p)
    BY <1>0, <2>1, ReturnRests
  <2> QED BY <1>4, <1>7, <2>1 DEF StartFails, Crash
<1>8. SerialOK(proc[p])'
  BY <1>2, <1>3, <1>4, <1>5, <1>6, <1>7 DEF Command, RollbackBegin
<1> QED BY <1>1, <1>8, SerialQuiet

(***************************************************************************)
(* What the invariant says of the process that takes a step.               *)
(***************************************************************************)
LEMMA SerialFacts ==
  ASSUME SerialInv, NEW p \in Procs
  PROVE  /\ ProcsOK /\ StateOK /\ DeployedTable(migrations)
         /\ proc[p] \in Process /\ QueueBounded(proc[p].queue)
         /\ proc[p].at \in Working => proc[p].cur \in Names
         /\ SerialOK(proc[p])
         /\ RowsConsistent(migrations) /\ IsTable(migrations)
         /\ \A n \in DOMAIN migrations : migrations[n] \in Row
BY DEF SerialInv, IInv, ProcsOK, ProcOK, DeployedTable, TableOK, IsTable

(***************************************************************************)
(* After a step of Start the train goes on with the migration it began.    *)
(***************************************************************************)
LEMMA TrainGoesOn ==
  ASSUME ProcsOK, NEW p \in Procs, proc[p].verb # "finish",
         proc[p].cur \in ActiveMigrations(migrations'),
         phys'[proc[p].cur] \notin {"contracting", "contracted"},
         \/ Goto(p, "triggers") \/ Goto(p, "backfill") \/ Goto(p, "active")
         \/ Goto(p, "views") /\ versionSchemas'
         \/ Return(p)
  PROVE  SerialOK(proc[p])'
<1>1. CASE Return(p)
  BY <1>1, ReturnRests
<1>2. ASSUME NEW step \in {"triggers", "backfill", "active", "views"}, Goto(p, step),
             step = "views" => versionSchemas'
      PROVE  SerialOK(proc[p])'
  BY <1>2, GotoFields
     DEF SerialOK, ForwardOK, DrainOK, UndoOK, ViewsOK, OnActive, Expanded, Draining,
         Undoing, Narrowed, Finishing, Contracting
<1> QED BY <1>1, <1>2

(***************************************************************************)
(* The steps of Start.                                                     *)
(***************************************************************************)
LEMMA StartKeepsSerial ==
  ASSUME OneAtATime, SerialInv, IInv', NEW p \in Procs,
         \/ StartBegin(p) \/ Start(p) \/ StartOperations(p) \/ EnsureViews(p)
         \/ CreateTriggers(p) \/ Backfill(p)
  PROVE  SerialInv'
<1>0. /\ ProcsOK /\ StateOK /\ DeployedTable(migrations)
      /\ proc[p] \in Process /\ RowsConsistent(migrations) /\ SerialOK(proc[p])
      /\ IsTable(migrations) /\ SealedPrecedesContraction
      /\ ~versionSchemas => schemas = {}
      /\ \A k \in DOMAIN migrations : migrations[k] \in Row
  BY SerialFacts DEF SerialInv
<1>1. proc[p].cur \in Names /\ proc[p].verb # "finish"
  <2>1. proc[p].at \in {"start", "insert", "ops", "views", "triggers", "backfill"}
    BY DEF StartBegin, Start, StartOperations, EnsureViews, CreateTriggers, Backfill, At
  <2>2. proc[p].cur \in Names
    BY <2>1, SerialFacts DEF Working, Steps
  <2> QED BY <1>0, <2>1, <2>2 DEF SerialOK, ForwardOK, Finishing
<1>2. CASE StartBegin(p)
  <2>1. SerialOK(proc[p])'
    <3>1. CASE Return(p)
      BY <1>0, <3>1, ReturnRests
    <3>2. CASE Goto(p, "insert")
      BY <1>0, <1>1, <3>2, GotoFields, RestingOK
    <3> QED BY <1>2, <3>1, <3>2 DEF StartBegin
  <2> QED BY <1>2, <2>1, SerialQuiet DEF StartBegin, db, env
<1>3. CASE Start(p)
  <2> DEFINE n == proc[p].cur
             row(ts) == StartedRow(LatestMigration(migrations), ts)
             new(ts) == Inserted(migrations, n, row(ts))
  <2>1. PICK ts \in Later(migrations) :
          IF n \notin DOMAIN migrations /\ Constraints(new(ts))
          THEN migrations' = new(ts) /\ Goto(p, "ops")
          ELSE UNCHANGED migrations /\ Return(p)
    BY <1>3 DEF Start
  <2>2. CASE UNCHANGED migrations /\ Return(p)
    BY <1>0, <1>3, <2>2, ReturnRests, SerialQuiet DEF Start, env
  <2>3. CASE n \notin DOMAIN migrations /\ migrations' = new(ts) /\ Goto(p, "ops")
    <3>1. ~row(ts).done /\ ~row(ts).deferred
      BY DEF StartedRow
    <3>2. /\ DOMAIN migrations' = DOMAIN migrations \cup {n}
          /\ migrations'[n] = row(ts)
          /\ \A k \in DOMAIN migrations : migrations'[k] = migrations[k]
      BY <2>3 DEF Inserted
    <3> HIDE DEF row
    <3>3. n \in ActiveMigrations(migrations')
      BY <3>1, <3>2 DEF ActiveMigrations
    <3>4. SerialOK(proc[p])'
      BY <1>0, <1>1, <2>3, <3>3, GotoFields
         DEF SerialOK, ForwardOK, DrainOK, UndoOK, ViewsOK, OnActive, Expanded, Draining,
             Undoing, Narrowed, Finishing
    <3>5. SealedPrecedesContraction'
      BY <1>0, <1>3, <3>1, <3>2
         DEF Start, SealedPrecedesContraction, Contracting, DeferredCompletes
    <3> QED BY <1>0, <1>3, <3>4, <3>5, SerialStep DEF Start, env
  <2> QED BY <2>1, <2>2, <2>3
<1>4. CASE StartOperations(p) \/ CreateTriggers(p) \/ Backfill(p) \/ EnsureViews(p)
  <2> DEFINE n == proc[p].cur
  <2>1. /\ UNCHANGED <<migrations, versionSchemas>>
        /\ n \in ActiveMigrations(migrations)
    BY <1>0, <1>4 DEF StartOperations, CreateTriggers, Backfill, EnsureViews, At, env,
                      SerialOK, ForwardOK, OnActive
  <2>2. /\ \A k \in Names \ {n} : phys'[k] = phys[k]
        /\ phys'[n] \notin {"contracting", "contracted"}
    <3>1. CASE StartOperations(p)
      BY <1>0, <1>1, <3>1 DEF StartOperations, StateOK
    <3>2. CASE CreateTriggers(p) \/ Backfill(p) \/ EnsureViews(p)
      BY <1>0, <1>1, <3>2
         DEF CreateTriggers, Backfill, EnsureViews, StateOK, At, SerialOK, ForwardOK,
             Expanded, Contracting
    <3> QED BY <1>4, <3>1, <3>2
  <2>3. SealedPrecedesContraction'
    <3>1. n \notin DeferredCompletes(migrations) /\ DeferredCompletes(migrations) \subseteq Names
      BY <1>0, <2>1 DEF RowsConsistent, ActiveMigrations, DeferredCompletes, IsTable
    <3> QED BY <1>0, <2>1, <2>2, <3>1
               DEF SealedPrecedesContraction, Contracting, DeferredCompletes
  <2>4. (~versionSchemas => schemas = {})'
    BY <1>0, <1>4 DEF StartOperations, CreateTriggers, Backfill, EnsureViews, At, env,
                      SerialOK, ViewsOK
  <2>5. \/ UNCHANGED proc /\ proc[p].at = "ops"
        \/ Goto(p, "triggers") \/ Goto(p, "backfill") \/ Goto(p, "active")
        \/ Goto(p, "views") /\ versionSchemas'
        \/ Return(p)
    BY <1>4, <2>1 DEF StartOperations, CreateTriggers, Backfill, EnsureViews,
                      AfterViews, AfterStart, At, env
  <2>6. ASSUME UNCHANGED proc, proc[p].at = "ops" PROVE SerialOK(proc[p])'
    BY <1>1, <2>1, <2>6
       DEF SerialOK, ForwardOK, DrainOK, UndoOK, ViewsOK, OnActive, Expanded, Draining,
           Undoing, Narrowed, Finishing
  <2>7. SerialOK(proc[p])'
    BY <1>0, <1>1, <2>1, <2>2, <2>5, <2>6, TrainGoesOn
  <2> QED BY <2>3, <2>4, <2>7, SerialStep
<1> QED BY <1>2, <1>3, <1>4

(***************************************************************************)
(* Complete up to the queue: it takes up the migration that is active.     *)
(***************************************************************************)
LEMMA ActiveKeepsSerial ==
  ASSUME OneAtATime, SerialInv, IInv', NEW p \in Procs,
         GetActiveMigration(p) \/ MarkCompleteDeferred(p) \/ ReadQueue(p)
  PROVE  SerialInv'
<1>0. /\ ProcsOK /\ DeployedTable(migrations) /\ proc[p] \in Process
      /\ RowsConsistent(migrations) /\ SerialOK(proc[p]) /\ SealedPrecedesContraction
      /\ ~versionSchemas => schemas = {}
      /\ \A k \in DOMAIN migrations : migrations[k] \in Row
  BY SerialFacts DEF SerialInv
<1>1. CASE GetActiveMigration(p)
  <2>1. UNCHANGED <<migrations, phys, versionSchemas, schemas>> /\ proc[p].at = "active"
    BY <1>1 DEF GetActiveMigration, At, db, env
  <2>2. ASSUME NEW n \in ActiveMigrations(migrations),
               Become(p, [proc[p] EXCEPT !.cur = n,
                 !.at = IF Intermediate(p)
                        THEN IF First(proc[p].todo) \in Destructive THEN "defer" ELSE "own"
                        ELSE IF versionSchemas THEN "dropOld" ELSE "queue"])
        PROVE  SerialOK(proc[p])'
    <3> DEFINE at == IF Intermediate(p)
                     THEN IF First(proc[p].todo) \in Destructive THEN "defer" ELSE "own"
                     ELSE IF versionSchemas THEN "dropOld" ELSE "queue"
    <3>1. /\ at \in {"defer", "own", "dropOld", "queue"}
          /\ at = "defer" => proc[p].todo # {}
          /\ at = "dropOld" => versionSchemas
          /\ at = "queue" => ~versionSchemas
      BY DEF Intermediate
    <3>2. Become(p, [proc[p] EXCEPT !.cur = n, !.at = at])
      BY <2>2
    <3> HIDE DEF at
    <3>3. proc'[p].at = at /\ proc'[p].cur = n /\ proc'[p].verb = proc[p].verb
      BY <1>0, <3>2 DEF Become, ProcsOK, Process
    <3>4. proc[p].verb # "finish"
      BY <1>0, <2>1 DEF SerialOK, ForwardOK, Finishing
    <3>5. at = "defer" => ~Contracting(n)
      <4>1. ASSUME at = "defer"
            PROVE  proc[p].cur \in ActiveMigrations(migrations) /\ ~Contracting(proc[p].cur)
        BY <1>0, <2>1, <3>1, <4>1 DEF SerialOK, ForwardOK, OnActive, Expanded
      <4> QED BY <1>0, <4>1 DEF RowsConsistent, OnlyOneActive, ActiveMigrations
    <3> QED BY <1>0, <2>1, <3>1, <3>3, <3>4, <3>5
               DEF SerialOK, ForwardOK, DrainOK, UndoOK, ViewsOK, OnActive, Expanded,
                   Draining, Undoing, Narrowed, Finishing, Contracting
  <2>3. CASE Return(p)
    BY <1>0, <2>1, <2>3, ReturnRests, SerialQuiet
  <2> QED BY <1>1, <2>1, <2>2, <2>3, SerialQuiet DEF GetActiveMigration
<1>2. CASE MarkCompleteDeferred(p)
  <2> DEFINE n == proc[p].cur
  <2>1. /\ n \in ActiveMigrations(migrations) /\ ~Contracting(n)
        /\ UNCHANGED <<phys, versionSchemas, schemas>>
    BY <1>0, <1>2 DEF MarkCompleteDeferred, At, env, SerialOK, ForwardOK, OnActive, Expanded
  <2>2. migrations' = MarkedDeferred(migrations, n) /\ NextMigration(p)
    BY <1>2, <2>1 DEF MarkCompleteDeferred
  <2>3. SealedPrecedesContraction'
    BY <1>0, <2>1, <2>2
       DEF SealedPrecedesContraction, Contracting, DeferredCompletes, MarkedDeferred, Row,
           ActiveMigrations
  <2>4. SerialOK(proc[p])'
    <3>1. proc[p].verb # "finish"
      BY <1>0, <1>2 DEF MarkCompleteDeferred, At, SerialOK, ForwardOK, Finishing
    <3> QED BY <1>0, <2>2, <3>1, NextRests
  <2> QED BY <1>0, <2>1, <2>3, <2>4, SerialStep
<1>3. CASE ReadQueue(p)
  <2> DEFINE queue == ByCreation(DeferredCompletes(migrations))
             drops == ({proc[p].cur} \cup DOMAIN queue) \cap OnCompleteSQL # {}
             at == IF DOMAIN queue = {} THEN "own" ELSE "seal"
  <2>1. UNCHANGED <<migrations, phys, versionSchemas, schemas>> /\ proc[p].at = "queue"
    BY <1>3 DEF ReadQueue, At, db, env
  <2>2. Become(p, [proc[p] EXCEPT !.at = at, !.queue = queue, !.dropLive = drops])
    BY <1>3 DEF ReadQueue
  <2>3. /\ at \in {"own", "seal"} /\ (at = "seal" => DOMAIN queue # {})
        /\ DOMAIN queue \cap OnCompleteSQL # {} => drops
        /\ drops \in BOOLEAN
    OBVIOUS
  <2> HIDE DEF queue, drops, at
  <2>4. /\ proc'[p].at = at /\ proc'[p].queue = queue /\ proc'[p].dropLive = drops
        /\ proc'[p].cur = proc[p].cur /\ proc'[p].verb = proc[p].verb
    BY <1>0, <2>2 DEF Become, ProcsOK, Process
  <2>5. /\ proc[p].cur \in ActiveMigrations(migrations) /\ schemas \subseteq {proc[p].cur}
        /\ proc[p].verb # "finish"
    BY <1>0, <2>1 DEF SerialOK, ForwardOK, ViewsOK, OnActive, Narrowed, Finishing
  <2>6. SerialOK(proc[p])'
    BY <2>1, <2>3, <2>4, <2>5
       DEF SerialOK, ForwardOK, DrainOK, UndoOK, ViewsOK, OnActive, Expanded,
           Draining, Undoing, Narrowed, Finishing
  <2> QED BY <2>1, <2>6, SerialQuiet
<1> QED BY <1>1, <1>2, <1>3

(***************************************************************************)
(* MarkSealed seals every queued row, and keeps the active one active.     *)
(***************************************************************************)
LEMMA SealingFacts ==
  ASSUME SerialInv, migrations' = MarkedSealed(migrations), UNCHANGED phys
  PROVE  /\ ActiveMigrations(migrations') = ActiveMigrations(migrations)
         /\ \A n \in DeferredCompletes(migrations') : migrations'[n].sealed
         /\ SealedPrecedesContraction'
<1>0. RowsConsistent(migrations) /\ \A n \in DOMAIN migrations : migrations[n] \in Row
  BY DEF SerialInv, IInv, DeployedTable, TableOK, IsTable
<1>1. /\ DOMAIN migrations' = DOMAIN migrations
      /\ \A n \in DOMAIN migrations :
           /\ migrations'[n].done = migrations[n].done
           /\ migrations'[n].deferred = migrations[n].deferred
           /\ migrations[n].done => migrations'[n].sealed
  BY <1>0 DEF MarkedSealed, Row
<1>2. ActiveMigrations(migrations') = ActiveMigrations(migrations)
  BY <1>1 DEF ActiveMigrations
<1>3. \A n \in DeferredCompletes(migrations') : migrations'[n].sealed
  BY <1>0, <1>1 DEF DeferredCompletes, RowsConsistent
<1> QED BY <1>2, <1>3 DEF SealedPrecedesContraction

(***************************************************************************)
(* The steps up to the drain: drop the old schemas, seal, drop the live    *)
(* one if onComplete SQL is queued.                                        *)
(***************************************************************************)
LEMMA SealKeepsSerial ==
  ASSUME OneAtATime, SerialInv, IInv', NEW p \in Procs,
         DropOldSchemas(p) \/ SealBeforeDrain(p) \/ DropLiveSchema(p)
  PROVE  SerialInv'
<1>0. /\ ProcsOK /\ proc[p] \in Process /\ SerialOK(proc[p])
      /\ ~versionSchemas => schemas = {}
  BY SerialFacts DEF SerialInv
<1>1. CASE DropOldSchemas(p)
  <2>1. /\ UNCHANGED <<migrations, phys, versionSchemas>> /\ schemas' \subseteq schemas
        /\ proc[p].at = "dropOld"
    BY <1>1 DEF DropOldSchemas, At, env
  <2>2. CASE Return(p)
    BY <1>0, <2>1, <2>2, ReturnRests, SerialQuiet
  <2>3. CASE /\ schemas' \subseteq {proc[p].cur}
             /\ proc[p].verb # "finish" /\ Goto(p, "queue")
    <3>1. SerialOK(proc[p])'
      BY <1>0, <2>1, <2>3, GotoFields
         DEF SerialOK, ForwardOK, DrainOK, UndoOK, ViewsOK, OnActive, Expanded,
             Draining, Undoing, Narrowed, Finishing
    <3> QED BY <2>1, <3>1, SerialQuiet
  <2>4. ASSUME schemas' \subseteq {proc[p].cur}, proc[p].verb = "finish",
               NEW step \in {"dropLive", "drain"}, Goto(p, step),
               step = "drain" => ~proc[p].dropLive
        PROVE  SerialInv'
    <3>1. SerialOK(proc[p])'
      BY <1>0, <2>1, <2>4, GotoFields
         DEF SerialOK, ForwardOK, DrainOK, UndoOK, ViewsOK, OnActive, Expanded,
             Draining, Undoing, Narrowed, Finishing
    <3> QED BY <2>1, <3>1, SerialQuiet
  <2> QED BY <1>1, <2>2, <2>3, <2>4 DEF DropOldSchemas
<1>2. CASE SealBeforeDrain(p)
  <2>1. /\ UNCHANGED <<phys, versionSchemas, schemas>>
        /\ migrations' = MarkedSealed(migrations) /\ proc[p].at = "seal"
    BY <1>2 DEF SealBeforeDrain, At, env
  <2>2. PICK step \in {"drain", "dropOld", "dropLive"} :
          /\ Goto(p, step)
          /\ step = "drain" => \/ ~versionSchemas
                               \/ proc[p].verb # "finish" /\ ~proc[p].dropLive
          /\ step = "dropOld" => versionSchemas /\ proc[p].verb = "finish"
          /\ step = "dropLive" => versionSchemas /\ proc[p].verb # "finish"
    BY <1>2 DEF SealBeforeDrain
  <2>3. SerialOK(proc[p])'
    BY <1>0, <2>1, <2>2, SealingFacts, GotoFields
       DEF SerialOK, ForwardOK, DrainOK, UndoOK, ViewsOK, OnActive, Expanded,
           Draining, Undoing, Narrowed, Finishing
  <2> QED BY <1>0, <2>1, <2>3, SealingFacts, SerialStep
<1>3. CASE DropLiveSchema(p)
  <2>1. /\ UNCHANGED <<migrations, phys, versionSchemas>>
        /\ schemas' = schemas \ {proc[p].cur}
        /\ proc[p].at = "dropLive" /\ Goto(p, "drain")
    BY <1>3 DEF DropLiveSchema, At, env
  <2>2. SerialOK(proc[p])'
    BY <1>0, <2>1, GotoFields
       DEF SerialOK, ForwardOK, DrainOK, UndoOK, ViewsOK, OnActive, Expanded,
           Draining, Undoing, Narrowed, Finishing
  <2> QED BY <2>1, <2>2, SerialQuiet
<1> QED BY <1>1, <1>2, <1>3

(***************************************************************************)
(* The Complete operations, queued or own, and what follows them.          *)
(***************************************************************************)
LEMMA ContractKeepsSerial ==
  ASSUME OneAtATime, SerialInv, IInv', NEW p \in Procs,
         ApplyDeferredComplete(p) \/ CompleteOperations(p)
  PROVE  SerialInv'
<1>0. /\ ProcsOK /\ StateOK /\ proc[p] \in Process /\ SerialOK(proc[p])
      /\ RowsConsistent(migrations) /\ SealedPrecedesContraction
      /\ IsTable(migrations) /\ (~versionSchemas => schemas = {})
  BY SerialFacts DEF SerialInv
<1>1. UNCHANGED <<migrations, versionSchemas, schemas>>
  BY DEF ApplyDeferredComplete, CompleteOperations, env
<1>2. ASSUME NEW n, NEW step, Contract(p, n, step)
      PROVE  /\ UNCHANGED proc \/ Goto(p, step) \/ Return(p)
             /\ \A k \in Names \ {n} : phys'[k] = phys[k]
  BY <1>0, <1>2 DEF Contract, StateOK
<1>3. CASE ApplyDeferredComplete(p)
  <2> DEFINE n == Oldest(proc[p].queue)
             last == proc[p].verb = "finish" /\ DOMAIN proc[p].queue = {n}
  <2>1. proc[p].at = "drain" /\ Contract(p, n, IF last THEN "refresh" ELSE "clear")
    BY <1>3 DEF ApplyDeferredComplete, At
  <2>2. \A k \in DeferredCompletes(migrations) : migrations[k].sealed
    BY <1>0, <2>1 DEF SerialOK, DrainOK, Draining
  <2>3. SealedPrecedesContraction'
    BY <1>1, <2>2 DEF SealedPrecedesContraction, DeferredCompletes
  <2>4. CASE UNCHANGED proc
    <3>1. SerialOK(proc[p])'
      BY <1>0, <1>1, <2>1, <2>4
         DEF SerialOK, ForwardOK, DrainOK, UndoOK, ViewsOK, OnActive, Expanded,
             Draining, Undoing, Narrowed, Finishing
    <3> QED BY <1>0, <1>1, <2>3, <3>1, SerialStep
  <2>5. CASE Return(p)
    BY <1>0, <1>1, <2>3, <2>5, ReturnRests, SerialStep
  <2>6. ASSUME NEW step \in {"refresh", "clear"}, Goto(p, step),
               step = "refresh" => last
        PROVE  SerialInv'
    <3>1. SerialOK(proc[p])'
      BY <1>0, <1>1, <2>1, <2>6, GotoFields
         DEF SerialOK, ForwardOK, DrainOK, UndoOK, ViewsOK, OnActive, Expanded,
             Draining, Undoing, Narrowed, Finishing, Last
    <3> QED BY <1>0, <1>1, <2>3, <3>1, SerialStep
  <2> QED BY <1>2, <2>1, <2>4, <2>5, <2>6
<1>4. CASE CompleteOperations(p)
  <2> DEFINE n == proc[p].cur
             recreate == /\ versionSchemas /\ ~Intermediate(p)
                         /\ proc[p].dropLive \/ n \in RawSQL
  <2>1. proc[p].at = "own" /\ Contract(p, n, IF recreate THEN "reproject" ELSE "done")
    BY <1>4 DEF CompleteOperations, At
  <2>2. n \in ActiveMigrations(migrations) /\ proc[p].verb # "finish"
    BY <1>0, <2>1 DEF SerialOK, ForwardOK, OnActive, Finishing
  <2>3. SealedPrecedesContraction'
    <3>1. n \notin DeferredCompletes(migrations) /\ DeferredCompletes(migrations) \subseteq Names
      BY <1>0, <2>2 DEF RowsConsistent, ActiveMigrations, DeferredCompletes, IsTable
    <3>2. \A k \in DeferredCompletes(migrations) : phys'[k] = phys[k]
      BY <1>2, <2>1, <3>1
    <3> QED BY <1>0, <1>1, <3>2 DEF SealedPrecedesContraction, Contracting, DeferredCompletes
  <2>4. CASE UNCHANGED proc
    <3>1. SerialOK(proc[p])'
      BY <1>0, <1>1, <2>1, <2>4
         DEF SerialOK, ForwardOK, DrainOK, UndoOK, ViewsOK, OnActive, Expanded,
             Draining, Undoing, Narrowed, Finishing
    <3> QED BY <1>0, <1>1, <2>3, <3>1, SerialStep
  <2>5. CASE Return(p)
    BY <1>0, <1>1, <2>3, <2>5, ReturnRests, SerialStep
  <2>6. ASSUME NEW step \in {"reproject", "done"}, Goto(p, step),
               step = "reproject" => versionSchemas
        PROVE  SerialInv'
    <3>1. SerialOK(proc[p])'
      BY <1>0, <1>1, <2>1, <2>2, <2>6, GotoFields
         DEF SerialOK, ForwardOK, DrainOK, UndoOK, ViewsOK, OnActive, Expanded,
             Draining, Undoing, Narrowed, Finishing
    <3> QED BY <1>0, <1>1, <2>3, <3>1, SerialStep
  <2> QED BY <1>2, <2>1, <2>4, <2>5, <2>6
<1> QED BY <1>3, <1>4

(***************************************************************************)
(* The rest of the drain: the flag is cleared, the snapshot taken again    *)
(* and the live schema projected again.                                    *)
(***************************************************************************)
LEMMA DrainKeepsSerial ==
  ASSUME OneAtATime, SerialInv, IInv', NEW p \in Procs,
         ClearCompleteDeferred(p) \/ RefreshResultingSchema(p) \/ Reproject(p)
  PROVE  SerialInv'
<1>0. /\ ProcsOK /\ StateOK /\ proc[p] \in Process /\ SerialOK(proc[p])
      /\ QueueBounded(proc[p].queue) /\ SealedPrecedesContraction
      /\ (~versionSchemas => schemas = {})
      /\ \A k \in DOMAIN migrations : migrations[k] \in Row
  BY SerialFacts DEF SerialInv
<1>1. CASE ClearCompleteDeferred(p)
  <2> DEFINE n == Oldest(proc[p].queue)
             rest == Restrict(proc[p].queue, DOMAIN proc[p].queue \ {n})
             at == IF DOMAIN rest # {} THEN "drain"
                   ELSE IF proc[p].verb = "finish" THEN "reseal" ELSE "own"
  <2>1. /\ proc[p].at = "clear" /\ UNCHANGED <<phys, versionSchemas, schemas>>
        /\ Become(p, [proc[p] EXCEPT !.queue = rest, !.at = at])
    BY <1>1 DEF ClearCompleteDeferred, At, env
  <2>2. DOMAIN rest = DOMAIN proc[p].queue \ {n}
    BY DEF Restrict
  <2>3. /\ at \in {"drain", "reseal", "own"}
        /\ at = "drain" => DOMAIN rest # {}
        /\ at = "own" => proc[p].verb # "finish"
    OBVIOUS
  <2>4. /\ DOMAIN migrations' = DOMAIN migrations
        /\ \A k \in DOMAIN migrations :
             /\ migrations'[k].done = migrations[k].done
             /\ migrations'[k].sealed = migrations[k].sealed
             /\ migrations'[k].deferred => migrations[k].deferred
    BY <1>0, <1>1 DEF ClearCompleteDeferred, DeferredCleared, Row
  <2> HIDE DEF rest, at
  <2>5. /\ proc'[p].at = at /\ proc'[p].queue = rest
        /\ proc'[p].verb = proc[p].verb /\ proc'[p].cur = proc[p].cur
        /\ proc'[p].dropLive = proc[p].dropLive
    BY <1>0, <2>1 DEF Become, ProcsOK, Process
  <2>6. /\ ActiveMigrations(migrations') = ActiveMigrations(migrations)
        /\ DeferredCompletes(migrations') \subseteq DeferredCompletes(migrations)
    BY <2>4 DEF ActiveMigrations, DeferredCompletes
  <2>7. SealedPrecedesContraction'
    BY <1>0, <2>1, <2>4, <2>6 DEF SealedPrecedesContraction, Contracting, DeferredCompletes
  <2>8. /\ \A k \in DeferredCompletes(migrations) : migrations[k].sealed
        /\ DOMAIN proc[p].queue \cap OnCompleteSQL # {} => proc[p].dropLive
        /\ schemas \subseteq {proc[p].cur}
        /\ proc[p].dropLive => schemas = {} \/ Last(proc[p].queue)
        /\ proc[p].verb # "finish" => proc[p].cur \in ActiveMigrations(migrations)
    BY <1>0, <2>1 DEF SerialOK, ForwardOK, DrainOK, ViewsOK, OnActive, Draining, Narrowed,
                      Finishing
  <2>9. at = "drain" /\ proc[p].dropLive => schemas = {}
    BY <2>2, <2>3, <2>8 DEF Last
  <2>10. \A k \in DeferredCompletes(migrations') : migrations'[k].sealed
    BY <2>4, <2>6, <2>8 DEF DeferredCompletes
  <2>11. SerialOK(proc[p])'
    BY <2>1, <2>2, <2>3, <2>5, <2>6, <2>8, <2>9, <2>10
       DEF SerialOK, ForwardOK, DrainOK, UndoOK, ViewsOK, OnActive, Expanded,
           Draining, Undoing, Narrowed, Finishing
  <2> QED BY <1>0, <2>1, <2>7, <2>11, SerialStep
<1>2. CASE RefreshResultingSchema(p)
  <2>1. UNCHANGED <<migrations, phys, versionSchemas, schemas>> /\ proc[p].at = "refresh"
    BY <1>2 DEF RefreshResultingSchema, At, env
  <2>2. CASE Return(p)
    BY <1>0, <2>1, <2>2, ReturnRests, SerialQuiet
  <2>3. ASSUME NEW step \in {"reproject", "clear"}, Goto(p, step),
               step = "reproject" => versionSchemas
        PROVE  SerialInv'
    <3>1. SerialOK(proc[p])'
      BY <1>0, <2>1, <2>3, GotoFields
         DEF SerialOK, ForwardOK, DrainOK, UndoOK, ViewsOK, OnActive, Expanded,
             Draining, Undoing, Narrowed, Finishing
    <3> QED BY <2>1, <3>1, SerialQuiet
  <2> QED BY <1>2, <2>2, <2>3 DEF RefreshResultingSchema
<1>3. CASE Reproject(p)
  <2>1. /\ UNCHANGED <<migrations, phys, versionSchemas>>
        /\ schemas' = schemas \cup {proc[p].cur}
        /\ proc[p].at = "reproject"
    BY <1>3 DEF Reproject, At, env
  <2>2. PICK step \in {"clear", "done"} :
          Goto(p, step) /\ (step = "clear" <=> proc[p].verb = "finish")
    BY <1>3 DEF Reproject
  <2>3. versionSchemas
    BY <1>0, <2>1 DEF SerialOK, ViewsOK
  <2>4. SerialOK(proc[p])'
    BY <1>0, <2>1, <2>2, GotoFields
       DEF SerialOK, ForwardOK, DrainOK, UndoOK, ViewsOK, OnActive, Expanded,
           Draining, Undoing, Narrowed, Finishing
  <2>5. SealedPrecedesContraction'
    BY <1>0, <2>1 DEF SealedPrecedesContraction, Contracting, DeferredCompletes
  <2> QED BY <2>1, <2>3, <2>4, <2>5, SerialStep
<1> QED BY <1>1, <1>2, <1>3

(***************************************************************************)
(* The end of Complete and of FinishContraction.                           *)
(***************************************************************************)
LEMMA EndKeepsSerial ==
  ASSUME OneAtATime, SerialInv, IInv', NEW p \in Procs,
         \/ Complete(p) \/ SealAfterComplete(p) \/ SealOpenWindow(p)
         \/ CleanUpSchemas(p) \/ EnsureLeafVersionSchema(p)
  PROVE  SerialInv'
<1>0. /\ ProcsOK /\ StateOK /\ proc[p] \in Process /\ SerialOK(proc[p])
      /\ RowsConsistent(migrations) /\ SealedPrecedesContraction
      /\ (~versionSchemas => schemas = {})
      /\ \A k \in DOMAIN migrations : migrations[k] \in Row
  BY SerialFacts DEF SerialInv
<1>1. CASE Complete(p)
  <2> DEFINE n == proc[p].cur
  <2>1. UNCHANGED <<phys, schemas, versionSchemas>> /\ proc[p].at = "done"
    BY <1>1 DEF Complete, At, env
  <2>2. n \in ActiveMigrations(migrations) /\ proc[p].verb # "finish"
    BY <1>0, <2>1 DEF SerialOK, ForwardOK, OnActive, Finishing
  <2>3. /\ migrations' = Completed(migrations, n)
        /\ NextMigration(p) \/ Goto(p, "reseal")
    BY <1>1, <2>2 DEF Complete
  <2>4. /\ DOMAIN migrations' = DOMAIN migrations
        /\ \A k \in DOMAIN migrations : /\ migrations'[k].deferred = migrations[k].deferred
                                        /\ migrations'[k].sealed = migrations[k].sealed
    BY <1>0, <2>3 DEF Completed, Row
  <2>5. SealedPrecedesContraction'
    BY <1>0, <2>1, <2>4 DEF SealedPrecedesContraction, Contracting, DeferredCompletes
  <2>6. SerialOK(proc[p])'
    BY <1>0, <2>2, <2>3, NextRests, GotoFields, RestingOK
  <2> QED BY <1>0, <2>1, <2>5, <2>6, SerialStep
<1>2. CASE SealAfterComplete(p) \/ SealOpenWindow(p)
  <2>1. /\ UNCHANGED <<phys, schemas, versionSchemas>>
        /\ migrations' = MarkedSealed(migrations)
        /\ Return(p) \/ Goto(p, "cleanup")
    BY <1>2 DEF SealAfterComplete, SealOpenWindow, env
  <2>2. SerialOK(proc[p])'
    BY <1>0, <2>1, ReturnRests, GotoFields, RestingOK
  <2> QED BY <1>0, <2>1, <2>2, SealingFacts, SerialStep
<1>3. CASE CleanUpSchemas(p)
  <2>1. /\ UNCHANGED <<migrations, phys, versionSchemas>> /\ schemas' \subseteq schemas
        /\ Return(p)
    BY <1>3 DEF CleanUpSchemas, env
  <2> QED BY <1>0, <2>1, ReturnRests, SerialQuiet
<1>4. CASE EnsureLeafVersionSchema(p)
  <2>1. /\ UNCHANGED <<migrations, phys, versionSchemas>> /\ Return(p)
        /\ ~versionSchemas => schemas' = schemas
    BY <1>4 DEF EnsureLeafVersionSchema, env
  <2>2. SealedPrecedesContraction'
    BY <1>0, <2>1 DEF SealedPrecedesContraction, Contracting, DeferredCompletes
  <2> QED BY <1>0, <2>1, <2>2, ReturnRests, SerialStep
<1> QED BY <1>1, <1>2, <1>3, <1>4

(***************************************************************************)
(* The steps of Rollback and Revert.                                       *)
(***************************************************************************)
LEMMA UndoKeepsSerial ==
  ASSUME OneAtATime, SerialInv, IInv', NEW p \in Procs,
         DropVersionSchema(p) \/ RollbackOperations(p) \/ DeleteMigration(p)
  PROVE  SerialInv'
<1>0. /\ ProcsOK /\ StateOK /\ proc[p] \in Process /\ SerialOK(proc[p])
      /\ QueueBounded(proc[p].queue) /\ SealedPrecedesContraction
      /\ (~versionSchemas => schemas = {}) /\ IsTable(migrations)
  BY SerialFacts DEF SerialInv
<1>1. CASE DropVersionSchema(p)
  <2>1. /\ UNCHANGED <<migrations, phys, versionSchemas>> /\ schemas' \subseteq schemas
        /\ proc[p].at = "dropVersion" /\ Goto(p, "undo")
    BY <1>1 DEF DropVersionSchema, At, env
  <2>2. SerialOK(proc[p])'
    BY <1>0, <2>1, GotoFields
       DEF SerialOK, ForwardOK, DrainOK, UndoOK, ViewsOK, OnActive, Expanded,
           Draining, Undoing, Narrowed, Finishing
  <2> QED BY <2>1, <2>2, SerialQuiet
<1>2. CASE RollbackOperations(p)
  <2> DEFINE n == proc[p].cur
  <2>1. /\ UNCHANGED <<migrations, schemas, versionSchemas>>
        /\ proc[p].at = "undo" /\ (UNCHANGED proc \/ Goto(p, "delete"))
    BY <1>2 DEF RollbackOperations, At, env
  <2>2. \A k \in Names : phys'[k] \in {"contracting", "contracted"} => phys'[k] = phys[k]
    BY <1>0, <1>2 DEF RollbackOperations, StateOK
  <2>3. SealedPrecedesContraction'
    BY <1>0, <2>1, <2>2
       DEF SealedPrecedesContraction, Contracting, DeferredCompletes, IsTable
  <2>4. SerialOK(proc[p])'
    BY <1>0, <2>1, GotoFields
       DEF SerialOK, ForwardOK, DrainOK, UndoOK, ViewsOK, OnActive, Expanded,
           Draining, Undoing, Narrowed, Finishing
  <2> QED BY <1>0, <2>1, <2>3, <2>4, SerialStep
<1>3. CASE DeleteMigration(p)
  <2> DEFINE n == proc[p].cur
             rest == Restrict(proc[p].queue, DOMAIN proc[p].queue \ {n})
  <2>1. UNCHANGED <<phys, schemas, versionSchemas>> /\ proc[p].at = "delete"
    BY <1>3 DEF DeleteMigration, At, env
  <2>2. CASE UNCHANGED migrations /\ Return(p)
    BY <1>0, <2>1, <2>2, ReturnRests, SerialQuiet
  <2>3. CASE /\ migrations' = Deleted(migrations, n)
             /\ \/ Return(p) \/ Goto(p, "leaf")
                \/ /\ proc[p].verb # "rollback" /\ DOMAIN rest # {}
                   /\ Become(p, [proc[p] EXCEPT !.at = "dropVersion",
                                   !.cur = Newest(rest), !.queue = rest])
    <3>1. /\ DOMAIN migrations' \subseteq DOMAIN migrations
          /\ \A k \in DOMAIN migrations' : migrations'[k] = migrations[k]
      BY <2>3 DEF Deleted, Restrict
    <3>2. SealedPrecedesContraction'
      BY <1>0, <2>1, <3>1 DEF SealedPrecedesContraction, Contracting, DeferredCompletes
    <3>3. CASE Return(p) \/ Goto(p, "leaf")
      BY <1>0, <2>1, <3>2, <3>3, ReturnRests, GotoFields, RestingOK, SerialStep
    <3>4. CASE /\ proc[p].verb # "rollback" /\ DOMAIN rest # {}
               /\ Become(p, [proc[p] EXCEPT !.at = "dropVersion",
                               !.cur = Newest(rest), !.queue = rest])
      <4>1. /\ rest \in UNION {[T -> Timestamps] : T \in SUBSET Names}
            /\ QueueBounded(rest)
        BY <1>0, RestOK DEF Process
      <4>2. DOMAIN rest \subseteq DOMAIN proc[p].queue
        BY DEF Restrict
      <4> HIDE DEF rest
      <4>3. Newest(rest) \in DOMAIN rest
        BY <3>4, <4>1, NewestOK
      <4>4. /\ proc'[p].at = "dropVersion" /\ proc'[p].cur = Newest(rest)
            /\ proc'[p].queue = rest /\ proc'[p].verb = proc[p].verb
        BY <1>0, <3>4 DEF Become, ProcsOK, Process
      <4>5. proc[p].verb = "revert"
            /\ \A k \in DOMAIN proc[p].queue \cap DOMAIN migrations : ~migrations[k].sealed
        BY <1>0, <2>1, <3>4 DEF SerialOK, UndoOK, Undoing
      <4>6. \A k \in DOMAIN rest \cap DOMAIN migrations' : ~migrations'[k].sealed
        BY <3>1, <4>2, <4>5
      <4>7. SerialOK(proc[p])'
        BY <4>3, <4>4, <4>5, <4>6
           DEF SerialOK, ForwardOK, DrainOK, UndoOK, ViewsOK, OnActive, Expanded,
               Draining, Undoing, Narrowed, Finishing
      <4> QED BY <1>0, <2>1, <3>2, <4>7, SerialStep
    <3> QED BY <2>3, <3>3, <3>4
  <2> QED BY <1>3, <2>2, <2>3 DEF DeleteMigration
<1> QED BY <1>1, <1>2, <1>3

----------------------------------------------------------------------------
(* What holds with one process at a time.                                  *)

(***************************************************************************)
(* The inductive invariant holds in every reachable state.                 *)
(***************************************************************************)
THEOREM SerialInvariant ==
  ASSUME OneAtATime
  PROVE  Spec => []SerialInv
<1>1. Init => SerialInv
  <2> SUFFICES ASSUME Init, IInv PROVE SerialInv
    BY InitOK
  <2>1. \A p \in Procs : SerialOK(proc[p])
    BY IdleOK DEF Init, SerialOK, ForwardOK, DrainOK, UndoOK, ViewsOK, OnActive, Expanded,
                  Draining, Undoing, Narrowed
  <2>2. SealedPrecedesContraction
    BY DEF Init, SealedPrecedesContraction, DeferredCompletes, EmptyTable
  <2> QED BY <2>1, <2>2 DEF Init, SerialInv
<1>2. SerialInv /\ [Next]_vars => SerialInv'
  <2> SUFFICES ASSUME SerialInv, [Next]_vars PROVE SerialInv'
    OBVIOUS
  <2>0. IInv'
    BY NextKeepsInv DEF SerialInv
  <2>1. ASSUME NEW s \in Names \cup {NoName}, Repin(s) PROVE SerialInv'
    BY <2>0, <2>1
       DEF Repin, db, SerialInv, SealedPrecedesContraction, Contracting, SerialOK, ForwardOK,
           DrainOK, UndoOK, ViewsOK, DeferredCompletes
  <2>2. ASSUME NEW p \in Procs, Command(p) \/ StartFails(p) \/ Crash(p) PROVE SerialInv'
    BY <2>0, <2>2, CommandKeepsSerial
  <2>3. ASSUME NEW p \in Procs, Step(p) PROVE SerialInv'
    BY <2>0, <2>3, StartKeepsSerial, ActiveKeepsSerial, SealKeepsSerial,
       ContractKeepsSerial, DrainKeepsSerial, EndKeepsSerial, UndoKeepsSerial DEF Step
  <2>4. CASE UNCHANGED vars
    BY <2>0, <2>4
       DEF vars, SerialInv, SealedPrecedesContraction, Contracting, SerialOK, ForwardOK,
           DrainOK, UndoOK, ViewsOK, DeferredCompletes
  <2> QED BY <2>1, <2>2, <2>3, <2>4 DEF Next
<1> QED BY <1>1, <1>2, PTL DEF Spec

(***************************************************************************)
(* Wherever a complete dies, what is queued and partly contracted is       *)
(* sealed: revert refuses it.  The seal before the drain covers the queue, *)
(* and a train queues only what it has not contracted.                     *)
(***************************************************************************)
THEOREM SealedBeforeContraction ==
  ASSUME OneAtATime
  PROVE  Spec => []SealedPrecedesContraction
<1>1. SerialInv => SealedPrecedesContraction
  BY DEF SerialInv
<1> QED BY <1>1, SerialInvariant, PTL

(***************************************************************************)
(* Every contraction step meets no view of an older version, and none at   *)
(* all with onComplete SQL in the queue, whether the drain was begun by    *)
(* Complete or by FinishContraction.                                       *)
(***************************************************************************)
THEOREM DrainMeetsNoView ==
  ASSUME OneAtATime
  PROVE  Spec => ContractionUnblocked
<1> DEFINE Unblocked == \A p \in Procs :
                          At(p, "drain") /\ phys' # phys =>
                            /\ schemas \subseteq {proc[p].cur}
                            /\ Oldest(proc[p].queue) \in OnCompleteSQL => schemas = {}
<1>1. SerialInv => Unblocked
  <2> SUFFICES ASSUME SerialInv, NEW p \in Procs, proc[p].at = "drain"
               PROVE  /\ schemas \subseteq {proc[p].cur}
                      /\ Oldest(proc[p].queue) \in OnCompleteSQL => schemas = {}
    BY DEF At
  <2>1. /\ SerialOK(proc[p]) /\ QueueBounded(proc[p].queue)
        /\ proc[p].queue \in UNION {[T -> Timestamps] : T \in SUBSET Names}
    BY SerialFacts DEF Process
  <2>2. /\ schemas \subseteq {proc[p].cur} /\ DOMAIN proc[p].queue # {}
        /\ DOMAIN proc[p].queue \cap OnCompleteSQL # {} => schemas = {}
    BY <2>1 DEF SerialOK, DrainOK, ViewsOK, Draining, Narrowed
  <2>3. Oldest(proc[p].queue) \in DOMAIN proc[p].queue
    BY <2>1, <2>2, NewestOK
  <2> QED BY <2>2, <2>3
<1> QED BY <1>1, SerialInvariant, PTL DEF ContractionUnblocked

(***************************************************************************)
(* No step deletes a sealed row: a rollback deletes an active row, which   *)
(* is never sealed, and a revert the rows it found unsealed, none of which *)
(* is sealed while it walks.                                               *)
(***************************************************************************)
THEOREM SealedRowsStay ==
  ASSUME OneAtATime
  PROVE  Spec => SealedNeverReverted
<1> DEFINE Kept == \A n \in DOMAIN migrations \ DOMAIN migrations' : ~migrations[n].sealed
<1>1. SerialInv /\ [Next]_vars => Kept
  <2> SUFFICES ASSUME SerialInv, [Next]_vars PROVE Kept
    OBVIOUS
  <2>1. ASSUME NEW p \in Procs, DeleteMigration(p) PROVE Kept
    <3>1. SerialOK(proc[p]) /\ RowsConsistent(migrations)
      BY SerialFacts
    <3>2. \A n \in DOMAIN migrations \ DOMAIN migrations' :
            n = proc[p].cur /\ (proc[p].verb = "rollback" => ~migrations[n].done)
      BY <2>1 DEF DeleteMigration, Deleted, Restrict
    <3> QED BY <2>1, <3>1, <3>2
               DEF DeleteMigration, At, SerialOK, UndoOK, Undoing, RowsConsistent
  <2>2. ASSUME NEW p \in Procs,
               Command(p) \/ StartFails(p) \/ Crash(p) \/ (Step(p) /\ ~DeleteMigration(p))
        PROVE  DOMAIN migrations \subseteq DOMAIN migrations'
    BY <2>2 DEF Command, MigrateBegin, MigrateAwaiting, CompleteBegin, FinishBegin,
                RollbackBegin, RevertBegin, StartFails, Crash, Step, StartBegin, Start,
                StartOperations, EnsureViews, CreateTriggers, Backfill,
                GetActiveMigration, MarkCompleteDeferred, DropOldSchemas, ReadQueue,
                SealBeforeDrain, DropLiveSchema, ApplyDeferredComplete,
                ClearCompleteDeferred, RefreshResultingSchema, CompleteOperations,
                Reproject, Complete, SealAfterComplete, SealOpenWindow, CleanUpSchemas,
                DropVersionSchema, RollbackOperations, EnsureLeafVersionSchema,
                Inserted, Completed, MarkedDeferred, DeferredCleared, MarkedSealed, db
  <2>3. ASSUME NEW s \in Names \cup {NoName}, Repin(s) PROVE UNCHANGED migrations
    BY <2>3 DEF Repin, db
  <2> QED BY <2>1, <2>2, <2>3 DEF Next, vars
<1> QED BY <1>1, SerialInvariant, PTL DEF Spec, SealedNeverReverted
=============================================================================
