----------------------- MODULE DeploymentCoverProofs -----------------------
(***************************************************************************)
(* The history accounts for the database, and the newest row's snapshot is *)
(* the schema.  On top of what the careful operator is assumed to do, a    *)
(* process does not stop between the Complete operations of the active     *)
(* migration and the UPDATE that records them: a migration contracted      *)
(* there would still be taken for expanded.  The snapshots are followed    *)
(* twice: where nobody takes anything back a process may stop anywhere,    *)
(* and where rollback and revert uncover older rows it may not stop before *)
(* the second seal either.                                                 *)
(***************************************************************************)
EXTENDS DeploymentCarefulProofs

OwnSteps == {"own", "reproject", "done"}

RecordsCompletes == CarefulDeployment /\ CrashAt \cap OwnSteps = {}

\* The phases of Start and of its undoing.
ExpandPhases == {"absent", "expanding", "expanded", "filling", "ready"}

\* What is not recorded has left nothing behind.
NothingElse == \A n \in Names \ DOMAIN migrations : phys[n] = "absent"

\* A migration that is done has been contracted, or is queued for it, unless
\* a revert is under way; then it can be undone.
RowPhase(n) ==
  LET row == migrations[n]
  IN  /\ ~row.done => phys[n] # "damaged"
      /\ row.done /\ ~row.deferred =>
           \/ phys[n] = "contracted"
           \/ n \notin Destructive /\ phys[n] \in {"expanding", "absent"}
      /\ row.deferred =>
           \/ phys[n] \in Materialized
           \/ ~row.sealed /\ phys[n] \in {"expanding", "absent"}

\* The active migration is in its expand phase until its own Complete.
ActiveOK(s) ==
  \A n \in ActiveMigrations(migrations) :
    phys[n] \in ExpandPhases \/ (s.at \in OwnSteps /\ s.cur = n)

\* What is cleared from the queue, or recorded as done, has been contracted.
ContractedOK(s) ==
  /\ s.at \in {"clear", "refresh"} \/ (s.at = "reproject" /\ Finishing(s)) =>
       phys[Oldest(s.queue)] = "contracted"
  /\ s.at = "done" \/ (s.at = "reproject" /\ ~Finishing(s)) => phys[s.cur] = "contracted"

\* A revert starts each migration from the schema its row stands for.
AppliedOK(s) ==
  Undoing(s) =>
    /\ s.verb = "rollback" => s.applied = {}
    /\ s.applied \cap Destructive = {}
    /\ s.verb = "revert" =>
         \A k \in DOMAIN s.queue \cap DOMAIN migrations :
           k \in s.applied <=> migrations[k].done /\ ~migrations[k].deferred

CoverOK(s) == /\ ActiveOK(s) /\ ContractedOK(s) /\ AppliedOK(s)
              /\ s.at = "ops" => phys[s.cur] \in {"absent", "expanding"}
              /\ s.at = "delete" => phys[s.cur] = "absent"

(***************************************************************************)
(* The inductive invariant.                                                *)
(***************************************************************************)
CoverInv == /\ CarefulInv
            /\ NothingElse
            /\ \A n \in DOMAIN migrations : RowPhase(n)
            /\ \A p \in Procs : CoverOK(proc[p])

----------------------------------------------------------------------------
(* Every step keeps the invariant.                                         *)

(***************************************************************************)
(* What the invariant says of the process that takes a step.               *)
(***************************************************************************)
LEMMA CoverFacts ==
  ASSUME CoverInv, NEW p \in Procs
  PROVE  /\ CarefulInv /\ SerialInv /\ NothingElse /\ CoverOK(proc[p])
         /\ \A n \in DOMAIN migrations : RowPhase(n)
         /\ ProcsOK /\ StateOK /\ proc[p] \in Process /\ QueueBounded(proc[p].queue)
         /\ SerialOK(proc[p]) /\ CarefulOK(proc[p]) /\ SealedPrecedesContraction
         /\ proc[p].at \in Working => proc[p].cur \in Names
         /\ RowsConsistent(migrations) /\ DOMAIN migrations \subseteq Names
         /\ \A n \in DOMAIN migrations : migrations[n] \in Row
BY CarefulFacts DEF CoverInv, CarefulInv, SerialInv

(***************************************************************************)
(* With one process, a step leaves the invariant when it leaves it for the *)
(* process that takes it.                                                  *)
(***************************************************************************)
LEMMA CoverStep ==
  ASSUME OneAtATime, NEW p \in Procs, CarefulInv', NothingElse',
         \A n \in DOMAIN migrations' : RowPhase(n)', CoverOK(proc[p])'
  PROVE  CoverInv'
<1>1. \A q \in Procs : q = p
  BY DEF OneAtATime
<1> QED BY <1>1 DEF CoverInv

(***************************************************************************)
(* A step that changes neither the table nor the phases.                   *)
(***************************************************************************)
LEMMA CoverQuiet ==
  ASSUME OneAtATime, CoverInv, CarefulInv', NEW p \in Procs, CoverOK(proc[p])',
         UNCHANGED <<migrations, phys>>
  PROVE  CoverInv'
<1>1. NothingElse /\ \A n \in DOMAIN migrations : RowPhase(n)
  BY DEF CoverInv
<1>2. NothingElse' /\ \A n \in DOMAIN migrations' : RowPhase(n)'
  BY <1>1 DEF NothingElse, RowPhase
<1> QED BY <1>2, CoverStep

(***************************************************************************)
(* A step of the process that relies on nothing but that the active        *)
(* migration is in its expand phase.                                       *)
(***************************************************************************)
LEMMA CoverRests ==
  ASSUME NEW p \in Procs,
         \A n \in ActiveMigrations(migrations') : phys'[n] \in ExpandPhases,
         proc'[p].at \in {"idle", "start", "insert", "views", "triggers", "backfill",
                          "active", "defer", "dropOld", "queue", "seal", "dropLive",
                          "drain", "own", "reseal", "stamp", "cleanup", "leaf"}
  PROVE  CoverOK(proc[p])'
BY DEF CoverOK, ActiveOK, ContractedOK, AppliedOK, Undoing

(***************************************************************************)
(* Outside its own Complete the active migration is in its expand phase.   *)
(***************************************************************************)
LEMMA ActiveInExpand ==
  ASSUME CoverInv, NEW p \in Procs, proc[p].at \notin OwnSteps \/ Finishing(proc[p])
  PROVE  \A n \in ActiveMigrations(migrations) : phys[n] \in ExpandPhases
<1>1. CoverOK(proc[p]) /\ CarefulOK(proc[p]) /\ SerialOK(proc[p])
  BY CoverFacts
<1>2. CASE proc[p].at \notin OwnSteps
  BY <1>1, <1>2 DEF CoverOK, ActiveOK
<1>3. CASE proc[p].at \in OwnSteps /\ Finishing(proc[p])
  <2>1. proc[p].at = "reproject"
    BY <1>1, <1>3 DEF SerialOK, ForwardOK, OwnSteps
  <2>2. ActiveMigrations(migrations) = {}
    BY <1>1, <1>3, <2>1 DEF CarefulOK, QueueOK, Queued, Draining
  <2> QED BY <2>2
<1> QED BY <1>2, <1>3

(***************************************************************************)
(* A command begins, Start fails, or the process dies.                     *)
(***************************************************************************)
LEMMA CommandKeepsCover ==
  ASSUME OneAtATime, RecordsCompletes, CoverInv, CarefulInv', NEW p \in Procs,
         Command(p) \/ StartFails(p) \/ Crash(p)
  PROVE  CoverInv'
<1>0. ProcsOK
  BY CoverFacts
<1>1. UNCHANGED <<migrations, phys>>
  BY DEF Command, StartFails, Crash, MigrateBegin, MigrateAwaiting, CompleteBegin,
         FinishBegin, RollbackBegin, RevertBegin, db
<1>2. proc[p].at \notin OwnSteps
  BY DEF Command, StartFails, Crash, MigrateBegin, MigrateAwaiting, CompleteBegin,
         FinishBegin, RollbackBegin, RevertBegin, Free, At, RecordsCompletes, OwnSteps
<1>3. \A n \in ActiveMigrations(migrations') : phys'[n] \in ExpandPhases
  BY <1>1, <1>2, ActiveInExpand
<1>4. Idle \in Process
  BY IdleOK DEF ProcOK
<1>5. ASSUME NEW at \in {"idle", "start", "active", "seal", "stamp"}, proc'[p].at = at
      PROVE  CoverInv'
  <2>1. CoverOK(proc[p])'
    BY <1>3, <1>5, CoverRests
  <2> QED BY <1>1, <2>1, CoverQuiet
<1>6. ASSUME NEW n, Become(p, [Idle EXCEPT !.at = "dropVersion", !.verb = "rollback", !.cur = n])
      PROVE  CoverInv'
  <2>1. /\ proc'[p].at = "dropVersion" /\ proc'[p].verb = "rollback" /\ proc'[p].applied = {}
    BY <1>0, <1>6 DEF Become, ProcsOK, Idle
  <2>2. CoverOK(proc[p])'
    BY <1>3, <2>1 DEF CoverOK, ActiveOK, ContractedOK, AppliedOK, Undoing
  <2> QED BY <1>1, <2>2, CoverQuiet
<1>7. ASSUME NEW n \in Names, RevertBegin(p, n)
      PROVE  CoverInv'
  <2> DEFINE window  == UnsealedMigrations(migrations)
             targets == {k \in window : migrations[k].created >= migrations[n].created}
             applied == {k \in targets : migrations[k].done /\ ~migrations[k].deferred}
             queue   == ByCreation(targets)
  <2>1. /\ Revertible(window)
        /\ Become(p, [Idle EXCEPT !.at = "dropVersion", !.verb = "revert",
                        !.cur = Newest(queue), !.queue = queue, !.applied = applied])
    BY <1>7 DEF RevertBegin
  <2>2. applied \cap Destructive = {}
    BY <2>1 DEF Revertible
  <2>3. \A k \in DOMAIN queue : k \in applied <=> migrations[k].done /\ ~migrations[k].deferred
    BY DEF ByCreation
  <2> HIDE DEF targets, applied, queue
  <2>4. /\ proc'[p].at = "dropVersion" /\ proc'[p].verb = "revert"
        /\ proc'[p].queue = queue /\ proc'[p].applied = applied
    BY <1>0, <1>4, <2>1 DEF Become, ProcsOK, Process
  <2>5. CoverOK(proc[p])'
    BY <1>1, <1>3, <2>2, <2>3, <2>4
       DEF CoverOK, ActiveOK, ContractedOK, AppliedOK, Undoing
  <2> QED BY <1>1, <2>5, CoverQuiet
<1>8. ASSUME NEW names, NEW converge, MigrateBegin(p, names, converge) PROVE CoverInv'
  <2>1. proc'[p].at = "start"
    BY <1>0, <1>4, <1>8 DEF MigrateBegin, Become, ProcsOK, Process
  <2> QED BY <1>5, <2>1
<1>9. ASSUME NEW n, MigrateAwaiting(p, n) \/ CompleteBegin(p, n) PROVE CoverInv'
  <2>1. Become(p, [Idle EXCEPT !.at = "active", !.verb = "complete"])
    BY <1>9 DEF MigrateAwaiting, CompleteBegin
  <2>2. proc'[p].at = "active"
    BY <1>0, <1>4, <2>1 DEF Become, ProcsOK, Process
  <2> QED BY <1>5, <2>2
<1>10. ASSUME NEW force, FinishBegin(p, force) PROVE CoverInv'
  <2>1. \/ Become(p, [Idle EXCEPT !.at = "stamp", !.verb = "finish"])
        \/ \E live, queue, drops :
             Become(p, [Idle EXCEPT !.at = "seal", !.verb = "finish", !.cur = live,
                          !.queue = queue, !.dropLive = drops])
    BY <1>10 DEF FinishBegin
  <2>2. CASE Become(p, [Idle EXCEPT !.at = "stamp", !.verb = "finish"])
    <3>1. proc'[p].at = "stamp"
      BY <1>0, <1>4, <2>2 DEF Become, ProcsOK, Process
    <3> QED BY <1>5, <3>1
  <2>3. ASSUME NEW live, NEW queue, NEW drops,
               Become(p, [Idle EXCEPT !.at = "seal", !.verb = "finish", !.cur = live,
                            !.queue = queue, !.dropLive = drops])
        PROVE  CoverInv'
    <3>1. proc'[p].at = "seal"
      BY <1>0, <1>4, <2>3 DEF Become, ProcsOK, Process
    <3> QED BY <1>5, <3>1
  <2> QED BY <2>1, <2>2, <2>3
<1>11. CASE Return(p)
  BY <1>0, <1>5, <1>11, Becomes
<1> QED BY <1>6, <1>7, <1>8, <1>9, <1>10, <1>11 DEF Command, StartFails, Crash, RollbackBegin


(***************************************************************************)
(* The steps of Start.                                                     *)
(***************************************************************************)
LEMMA StartKeepsCover ==
  ASSUME OneAtATime, RecordsCompletes, CoverInv, CarefulInv', NEW p \in Procs,
         \/ StartBegin(p) \/ Start(p) \/ StartOperations(p) \/ EnsureViews(p)
         \/ CreateTriggers(p) \/ Backfill(p)
  PROVE  CoverInv'
<1> DEFINE n == proc[p].cur
<1>0. /\ SerialInv /\ NothingElse /\ CoverOK(proc[p])
      /\ \A k \in DOMAIN migrations : RowPhase(k)
      /\ ProcsOK /\ StateOK /\ SerialOK(proc[p]) /\ CarefulOK(proc[p])
      /\ RowsConsistent(migrations) /\ DOMAIN migrations \subseteq Names
  BY CoverFacts
<1>1. /\ proc[p].at \in {"start", "insert", "ops", "views", "triggers", "backfill"}
      /\ n \in Names
      /\ \A k \in ActiveMigrations(migrations) : phys[k] \in ExpandPhases
  <2>1. proc[p].at \in {"start", "insert", "ops", "views", "triggers", "backfill"}
    BY DEF StartBegin, Start, StartOperations, EnsureViews, CreateTriggers, Backfill, At
  <2>2. proc[p].cur \in Names
    BY <2>1, CoverFacts DEF Working, Steps
  <2> QED BY <2>1, <2>2, ActiveInExpand DEF OwnSteps
<1>2. CASE StartBegin(p)
  <2>1. UNCHANGED <<migrations, phys>> /\ (Return(p) \/ Goto(p, "insert"))
    BY <1>2 DEF StartBegin, db
  <2>2. CoverOK(proc[p])'
    BY <1>0, <1>1, <2>1, Becomes, GotoKeeps, CoverRests
  <2> QED BY <2>1, <2>2, CoverQuiet
<1>3. CASE Start(p)
  <2>1. CASE UNCHANGED <<migrations, phys>> /\ Return(p)
    <3>1. CoverOK(proc[p])'
      BY <1>0, <1>1, <2>1, Becomes, CoverRests
    <3> QED BY <2>1, <3>1, CoverQuiet
  <2>2. CASE /\ UNCHANGED phys /\ Goto(p, "ops")
             /\ n \notin DOMAIN migrations
             /\ DOMAIN migrations' = DOMAIN migrations \cup {n}
             /\ \A k \in DOMAIN migrations : migrations'[k] = migrations[k]
             /\ ~migrations'[n].done /\ ~migrations'[n].deferred
    <3>1. phys[n] = "absent"
      BY <1>0, <1>1, <2>2 DEF NothingElse
    <3>2. NothingElse'
      BY <1>0, <2>2 DEF NothingElse
    <3>3. \A k \in DOMAIN migrations' : RowPhase(k)'
      BY <1>0, <2>2, <3>1 DEF RowPhase
    <3>4. \A k \in ActiveMigrations(migrations') : phys'[k] \in ExpandPhases
      BY <1>1, <2>2, <3>1 DEF ActiveMigrations, ExpandPhases
    <3>5. proc'[p].at = "ops" /\ proc'[p].cur = n
      BY <1>0, <2>2, GotoKeeps
    <3>6. CoverOK(proc[p])'
      BY <2>2, <3>1, <3>4, <3>5 DEF CoverOK, ActiveOK, ContractedOK, AppliedOK, Undoing
    <3> QED BY <3>2, <3>3, <3>6, CoverStep
  <2> QED BY <1>0, <1>3, <2>1, <2>2, StartAdds
<1>4. CASE StartOperations(p) \/ EnsureViews(p) \/ CreateTriggers(p) \/ Backfill(p)
  <2>1. /\ UNCHANGED migrations
        /\ n \in DOMAIN migrations /\ ~migrations[n].done /\ ~migrations[n].deferred
    BY <1>0, <1>4
       DEF StartOperations, CreateTriggers, Backfill, EnsureViews, At, SerialOK, ForwardOK,
           OnActive, RowsConsistent, ActiveMigrations
  <2>2. /\ \A k \in Names \ {n} : phys'[k] = phys[k]
        /\ phys'[n] \in ExpandPhases
    <3>1. phys[n] \in ExpandPhases
      BY <1>1, <2>1 DEF ActiveMigrations
    <3> QED BY <1>0, <1>1, <1>4, <3>1
               DEF StartOperations, CreateTriggers, Backfill, EnsureViews, StateOK,
                   ExpandPhases
  <2>3. \/ UNCHANGED proc /\ proc[p].at = "ops" /\ phys'[n] = "expanding"
        \/ \E step \in {"views", "triggers", "backfill", "active"} : Goto(p, step)
        \/ Return(p)
    BY <1>0, <1>1, <1>4
       DEF StartOperations, CreateTriggers, Backfill, EnsureViews, AfterViews, AfterStart,
           At, StateOK
  <2>4. \/ proc'[p].at = "ops" /\ proc'[p].cur = n /\ phys'[n] = "expanding"
        \/ proc'[p].at \in {"idle", "views", "triggers", "backfill", "active"}
    BY <1>0, <2>3, Becomes, GotoKeeps
  <2>5. \A k \in ActiveMigrations(migrations') : phys'[k] \in ExpandPhases
    BY <1>0, <1>1, <2>1, <2>2 DEF ActiveMigrations
  <2>6. CoverOK(proc[p])'
    <3>1. CASE proc'[p].at = "ops" /\ proc'[p].cur = n /\ phys'[n] = "expanding"
      BY <2>5, <3>1 DEF CoverOK, ActiveOK, ContractedOK, AppliedOK, Undoing
    <3> QED BY <2>4, <2>5, <3>1, CoverRests
  <2>7. NothingElse'
    BY <1>0, <2>1, <2>2 DEF NothingElse
  <2>8. \A k \in DOMAIN migrations' : RowPhase(k)'
    BY <1>0, <2>1, <2>2 DEF RowPhase, ExpandPhases
  <2> QED BY <2>6, <2>7, <2>8, CoverStep
<1> QED BY <1>2, <1>3, <1>4

(***************************************************************************)
(* Complete takes up the migration that is active, and reads the queue.    *)
(***************************************************************************)
LEMMA ActiveKeepsCover ==
  ASSUME OneAtATime, CoverInv, CarefulInv', NEW p \in Procs,
         GetActiveMigration(p) \/ MarkCompleteDeferred(p) \/ ReadQueue(p)
  PROVE  CoverInv'
<1> DEFINE n == proc[p].cur
<1>0. /\ NothingElse /\ CoverOK(proc[p]) /\ \A k \in DOMAIN migrations : RowPhase(k)
      /\ ProcsOK /\ SerialOK(proc[p]) /\ CarefulOK(proc[p]) /\ proc[p] \in Process
      /\ RowsConsistent(migrations) /\ \A k \in DOMAIN migrations : migrations[k] \in Row
  BY CoverFacts
<1>1. /\ UNCHANGED phys
      /\ \A k \in ActiveMigrations(migrations) : phys[k] \in ExpandPhases
  <2>1. proc[p].at \notin OwnSteps /\ UNCHANGED phys
    BY DEF GetActiveMigration, MarkCompleteDeferred, ReadQueue, At, OwnSteps, db
  <2> QED BY <2>1, ActiveInExpand
<1>2. CASE GetActiveMigration(p)
  <2>1. UNCHANGED migrations
    BY <1>2 DEF GetActiveMigration, db
  <2>2. CASE Return(p)
    <3>1. CoverOK(proc[p])'
      BY <1>0, <1>1, <2>1, <2>2, Becomes, CoverRests
    <3> QED BY <1>1, <2>1, <3>1, CoverQuiet
  <2>3. ASSUME NEW k, NEW at \in {"defer", "own", "dropOld", "queue"},
               Become(p, [proc[p] EXCEPT !.cur = k, !.at = at])
        PROVE  CoverInv'
    <3>1. proc'[p].at = at
      BY <1>0, <2>3 DEF Become, ProcsOK, Process
    <3>2. CoverOK(proc[p])'
      BY <1>1, <2>1, <3>1, CoverRests
    <3> QED BY <1>1, <2>1, <3>2, CoverQuiet
  <2>4. CASE \E k \in ActiveMigrations(migrations) :
               Become(p, [proc[p] EXCEPT !.cur = k,
                 !.at = IF Intermediate(p)
                        THEN IF First(proc[p].todo) \in Destructive THEN "defer" ELSE "own"
                        ELSE IF versionSchemas THEN "dropOld" ELSE "queue"])
    <3> DEFINE at == IF Intermediate(p)
                     THEN IF First(proc[p].todo) \in Destructive THEN "defer" ELSE "own"
                     ELSE IF versionSchemas THEN "dropOld" ELSE "queue"
    <3>1. PICK k \in ActiveMigrations(migrations) :
            Become(p, [proc[p] EXCEPT !.cur = k, !.at = at])
      BY <2>4
    <3>2. at \in {"defer", "own", "dropOld", "queue"}
      OBVIOUS
    <3> HIDE DEF at
    <3> QED BY <2>3, <3>1, <3>2
  <2> QED BY <1>2, <2>2, <2>4 DEF GetActiveMigration
<1>3. CASE MarkCompleteDeferred(p)
  <2>1. n \in ActiveMigrations(migrations) /\ phys[n] \in Materialized
    BY <1>0, <1>3 DEF MarkCompleteDeferred, At, SerialOK, ForwardOK, OnActive, CarefulOK,
                      ExpandOK, Completing
  <2>2. migrations' = MarkedDeferred(migrations, n) /\ NextMigration(p)
    BY <1>3, <2>1 DEF MarkCompleteDeferred
  <2>3. /\ DOMAIN migrations' = DOMAIN migrations
        /\ \A k \in DOMAIN migrations \ {n} : migrations'[k] = migrations[k]
        /\ migrations'[n].done /\ migrations'[n].deferred
    BY <1>0, <2>1, <2>2, UpdatedRows DEF ActiveMigrations
  <2>4. NothingElse'
    BY <1>0, <1>1, <2>3 DEF NothingElse
  <2>5. \A k \in DOMAIN migrations' : RowPhase(k)'
    BY <1>0, <1>1, <2>1, <2>3 DEF RowPhase
  <2>6. ActiveMigrations(migrations') = {}
    BY <1>0, <2>1, <2>3 DEF RowsConsistent, OnlyOneActive, ActiveMigrations
  <2>7. CoverOK(proc[p])'
    BY <1>0, <2>2, <2>6, NextKeeps, Becomes, CoverRests
  <2> QED BY <2>4, <2>5, <2>7, CoverStep
<1>4. CASE ReadQueue(p)
  <2> DEFINE queue == ByCreation(DeferredCompletes(migrations))
             drops == ({proc[p].cur} \cup DOMAIN queue) \cap OnCompleteSQL # {}
             at == IF DOMAIN queue = {} THEN "own" ELSE "seal"
  <2>1. /\ UNCHANGED migrations
        /\ Become(p, [proc[p] EXCEPT !.at = at, !.queue = queue, !.dropLive = drops])
    BY <1>4 DEF ReadQueue, db
  <2>2. at \in {"own", "seal"}
    OBVIOUS
  <2> HIDE DEF queue, drops, at
  <2>3. proc'[p].at = at
    BY <1>0, <2>1 DEF Become, ProcsOK, Process
  <2>4. CoverOK(proc[p])'
    BY <1>1, <2>1, <2>2, <2>3, CoverRests
  <2> QED BY <1>1, <2>1, <2>4, CoverQuiet
<1> QED BY <1>2, <1>3, <1>4

(***************************************************************************)
(* The steps up to the drain, and the seals after it.  What a seal stamps  *)
(* is materialized.                                                        *)
(***************************************************************************)
LEMMA SealKeepsCover ==
  ASSUME OneAtATime, CoverInv, CarefulInv', NEW p \in Procs,
         \/ DropOldSchemas(p) \/ SealBeforeDrain(p) \/ DropLiveSchema(p)
         \/ SealAfterComplete(p) \/ SealOpenWindow(p)
  PROVE  CoverInv'
<1>0. /\ NothingElse /\ \A k \in DOMAIN migrations : RowPhase(k)
      /\ ProcsOK /\ CarefulOK(proc[p]) /\ RowsConsistent(migrations)
      /\ \A k \in DOMAIN migrations : migrations[k] \in Row
  BY CoverFacts
<1>1. /\ UNCHANGED phys /\ proc[p].at \in {"dropOld", "seal", "dropLive", "reseal", "stamp"}
      /\ migrations' \in {migrations, MarkedSealed(migrations)}
      /\ \/ Return(p)
         \/ \E step \in {"queue", "drain", "dropOld", "dropLive", "cleanup"} : Goto(p, step)
  BY DEF DropOldSchemas, SealBeforeDrain, DropLiveSchema, SealAfterComplete, SealOpenWindow, At
<1>2. Settled /\ \A k \in ActiveMigrations(migrations) : phys[k] \in ExpandPhases
  BY <1>0, <1>1, ActiveInExpand DEF CarefulOK, Forward, OwnSteps
<1>3. /\ DOMAIN migrations' = DOMAIN migrations
      /\ \A k \in DOMAIN migrations : /\ migrations'[k].done = migrations[k].done
                                      /\ migrations'[k].deferred = migrations[k].deferred
  BY <1>0, <1>1, SealedRows
<1>4. NothingElse'
  BY <1>0, <1>1, <1>3 DEF NothingElse
<1>5. \A k \in DOMAIN migrations' : RowPhase(k)'
  BY <1>0, <1>1, <1>2, <1>3 DEF RowPhase, Settled, RowsConsistent
<1>6. ActiveMigrations(migrations') = ActiveMigrations(migrations)
  BY <1>3 DEF ActiveMigrations
<1>7. CoverOK(proc[p])'
  BY <1>0, <1>1, <1>2, <1>6, Becomes, GotoKeeps, CoverRests
<1> QED BY <1>4, <1>5, <1>7, CoverStep


(***************************************************************************)
(* The Complete operations, queued or own.                                 *)
(***************************************************************************)
LEMMA ContractKeepsCover ==
  ASSUME OneAtATime, CoverInv, CarefulInv', NEW p \in Procs,
         ApplyDeferredComplete(p) \/ CompleteOperations(p)
  PROVE  CoverInv'
<1>0. /\ NothingElse /\ \A k \in DOMAIN migrations : RowPhase(k)
      /\ ProcsOK /\ StateOK /\ SerialOK(proc[p]) /\ CarefulOK(proc[p]) /\ CoverOK(proc[p])
      /\ proc[p] \in Process /\ QueueBounded(proc[p].queue) /\ RowsConsistent(migrations)
      /\ DOMAIN migrations \subseteq Names
  BY CoverFacts
<1>1. UNCHANGED migrations
  BY DEF ApplyDeferredComplete, CompleteOperations
<1>2. CASE ApplyDeferredComplete(p)
  <2> DEFINE n == Oldest(proc[p].queue)
             last == proc[p].verb = "finish" /\ DOMAIN proc[p].queue = {n}
             step == IF last THEN "refresh" ELSE "clear"
  <2>1. proc[p].at = "drain" /\ Contract(p, n, step)
    BY <1>2 DEF ApplyDeferredComplete, At
  <2>2. /\ DOMAIN proc[p].queue # {} /\ Settled
        /\ DOMAIN proc[p].queue \subseteq DeferredCompletes(migrations)
    BY <1>0, <2>1 DEF SerialOK, DrainOK, Draining, CarefulOK, QueueOK, Queued, Forward
  <2>3. n \in DOMAIN proc[p].queue /\ n \in Names
    BY <1>0, <2>2, NewestOK DEF Process
  <2>4. /\ n \in DOMAIN migrations /\ migrations[n].done /\ migrations[n].deferred
        /\ phys[n] \in Materialized
    BY <1>0, <2>2, <2>3 DEF Settled, DeferredCompletes, RowsConsistent
  <2>5. /\ \A k \in Names \ {n} : phys'[k] = phys[k]
        /\ phys'[n] \in {"contracting", "contracted"}
        /\ UNCHANGED proc \/ (Goto(p, step) /\ phys'[n] = "contracted")
    BY <1>0, <2>1, <2>3, <2>4, Contracts
  <2>6. step \in {"refresh", "clear"} /\ (step = "refresh" => proc[p].verb = "finish")
    OBVIOUS
  <2>7. /\ proc'[p].queue = proc[p].queue /\ proc'[p].cur = proc[p].cur
        /\ \/ proc'[p].at = "drain"
           \/ proc'[p].at \in {"refresh", "clear"} /\ phys'[n] = "contracted"
    BY <1>0, <2>1, <2>5, <2>6, GotoKeeps
  <2>8. NothingElse'
    BY <1>0, <1>1, <2>4, <2>5 DEF NothingElse
  <2>9. \A k \in DOMAIN migrations' : RowPhase(k)'
    BY <1>0, <1>1, <2>4, <2>5 DEF RowPhase, Materialized
  <2>10. \A k \in ActiveMigrations(migrations') : phys'[k] \in ExpandPhases
    <3>1. \A k \in ActiveMigrations(migrations) : phys[k] \in ExpandPhases
      BY <2>1, ActiveInExpand DEF OwnSteps
    <3> QED BY <1>0, <1>1, <2>4, <2>5, <3>1 DEF ActiveMigrations
  <2> HIDE DEF n, step
  <2>11. CoverOK(proc[p])'
    <3>1. n = Oldest(proc'[p].queue)
      BY <2>7 DEF n
    <3> QED BY <2>7, <2>10, <3>1 DEF CoverOK, ActiveOK, ContractedOK, AppliedOK, Undoing
  <2> QED BY <2>8, <2>9, <2>11, CoverStep
<1>3. CASE CompleteOperations(p)
  <2> DEFINE n == proc[p].cur
             recreate == /\ versionSchemas /\ ~Intermediate(p)
                         /\ proc[p].dropLive \/ n \in RawSQL
             step == IF recreate THEN "reproject" ELSE "done"
  <2>1. proc[p].at = "own" /\ Contract(p, n, step)
    BY <1>3 DEF CompleteOperations, At
  <2>2. /\ n \in DOMAIN migrations /\ n \in Names /\ phys[n] \in Materialized
        /\ n \in ActiveMigrations(migrations) /\ ~migrations[n].done /\ ~migrations[n].deferred
        /\ proc[p].verb # "finish"
    BY <1>0, <2>1 DEF SerialOK, ForwardOK, OnActive, Finishing, CarefulOK, ExpandOK,
                      Completing, ActiveMigrations, RowsConsistent
  <2>3. /\ \A k \in Names \ {n} : phys'[k] = phys[k]
        /\ phys'[n] \in {"contracting", "contracted"}
        /\ UNCHANGED proc \/ (Goto(p, step) /\ phys'[n] = "contracted")
    BY <1>0, <2>1, <2>2, Contracts
  <2>4. step \in {"reproject", "done"}
    OBVIOUS
  <2> HIDE DEF step
  <2>5. /\ proc'[p].cur = n /\ proc'[p].verb # "finish"
        /\ \/ proc'[p].at = "own"
           \/ proc'[p].at \in {"reproject", "done"} /\ phys'[n] = "contracted"
    BY <1>0, <2>1, <2>2, <2>3, <2>4, GotoKeeps
  <2>6. NothingElse'
    BY <1>0, <1>1, <2>2, <2>3 DEF NothingElse
  <2>7. \A k \in DOMAIN migrations' : RowPhase(k)'
    BY <1>0, <1>1, <2>2, <2>3 DEF RowPhase
  <2>8. \A k \in ActiveMigrations(migrations') : k = n
    BY <1>0, <1>1, <2>2 DEF RowsConsistent, OnlyOneActive, ActiveMigrations
  <2>9. CoverOK(proc[p])'
    BY <2>5, <2>8
       DEF CoverOK, ActiveOK, ContractedOK, AppliedOK, Undoing, OwnSteps, Finishing
  <2> QED BY <2>6, <2>7, <2>9, CoverStep
<1> QED BY <1>2, <1>3

(***************************************************************************)
(* The rest of the drain, and the row of the active migration.             *)
(***************************************************************************)
LEMMA RecordKeepsCover ==
  ASSUME OneAtATime, CoverInv, CarefulInv', NEW p \in Procs,
         \/ ClearCompleteDeferred(p) \/ RefreshResultingSchema(p) \/ Reproject(p)
         \/ Complete(p)
  PROVE  CoverInv'
<1>0. /\ NothingElse /\ \A k \in DOMAIN migrations : RowPhase(k)
      /\ ProcsOK /\ SerialOK(proc[p]) /\ CarefulOK(proc[p]) /\ CoverOK(proc[p])
      /\ proc[p] \in Process /\ QueueBounded(proc[p].queue) /\ RowsConsistent(migrations)
      /\ \A k \in DOMAIN migrations : migrations[k] \in Row
  BY CoverFacts
<1>1. UNCHANGED phys
  BY DEF ClearCompleteDeferred, RefreshResultingSchema, Reproject, Complete
<1>2. CASE ClearCompleteDeferred(p)
  <2> DEFINE n == Oldest(proc[p].queue)
             rest == Restrict(proc[p].queue, DOMAIN proc[p].queue \ {n})
             at == IF DOMAIN rest # {} THEN "drain"
                   ELSE IF proc[p].verb = "finish" THEN "reseal" ELSE "own"
  <2>1. /\ proc[p].at = "clear"
        /\ Become(p, [proc[p] EXCEPT !.queue = rest, !.at = at])
    BY <1>2 DEF ClearCompleteDeferred, At
  <2>2. /\ DOMAIN proc[p].queue # {}
        /\ DOMAIN proc[p].queue \subseteq DeferredCompletes(migrations)
    BY <1>0, <2>1 DEF SerialOK, DrainOK, Draining, CarefulOK, QueueOK, Queued
  <2>3. /\ n \in DOMAIN migrations /\ migrations[n].deferred /\ migrations[n].done
        /\ phys[n] = "contracted"
    BY <1>0, <2>1, <2>2, NewestOK
       DEF Process, DeferredCompletes, RowsConsistent, CoverOK, ContractedOK
  <2>4. migrations' = DeferredCleared(migrations, n)
    BY <1>2, <2>3 DEF ClearCompleteDeferred
  <2>5. at \in {"drain", "reseal", "own"}
    OBVIOUS
  <2> HIDE DEF rest, at, n
  <2>6. /\ DOMAIN migrations' = DOMAIN migrations
        /\ \A k \in DOMAIN migrations \ {n} : migrations'[k] = migrations[k]
        /\ migrations'[n].done = migrations[n].done /\ ~migrations'[n].deferred
    <3>1. n \in DOMAIN migrations /\ \A k \in DOMAIN migrations : migrations[k] \in Row
      BY <1>0, <2>3
    <3> QED BY <2>4, <3>1, UpdatedRows
  <2>7. proc'[p].at = at
    BY <1>0, <2>1 DEF Become, ProcsOK, Process
  <2>8. NothingElse'
    BY <1>0, <1>1, <2>6 DEF NothingElse
  <2>9. \A k \in DOMAIN migrations' : RowPhase(k)'
    BY <1>0, <1>1, <2>3, <2>6 DEF RowPhase
  <2>10. \A k \in ActiveMigrations(migrations') : phys'[k] \in ExpandPhases
    <3>1. ActiveMigrations(migrations') = ActiveMigrations(migrations)
      BY <2>6 DEF ActiveMigrations
    <3> QED BY <1>1, <2>1, <3>1, ActiveInExpand DEF OwnSteps
  <2>11. CoverOK(proc[p])'
    BY <2>5, <2>7, <2>10, CoverRests
  <2> QED BY <2>8, <2>9, <2>11, CoverStep
<1>3. CASE RefreshResultingSchema(p)
  <2>1. UNCHANGED migrations /\ proc[p].at = "refresh"
    BY <1>3 DEF RefreshResultingSchema, At
  <2>2. \A k \in ActiveMigrations(migrations') : phys'[k] \in ExpandPhases
    BY <1>1, <2>1, ActiveInExpand DEF OwnSteps
  <2>3. CASE Return(p)
    <3>1. CoverOK(proc[p])'
      BY <1>0, <2>2, <2>3, Becomes, CoverRests
    <3> QED BY <1>1, <2>1, <3>1, CoverQuiet
  <2>4. ASSUME NEW step \in {"reproject", "clear"}, Goto(p, step)
        PROVE  CoverInv'
    <3>1. proc[p].verb = "finish" /\ phys[Oldest(proc[p].queue)] = "contracted"
      BY <1>0, <2>1 DEF SerialOK, ViewsOK, Finishing, CoverOK, ContractedOK
    <3>2. /\ proc'[p].at = step /\ proc'[p].queue = proc[p].queue
          /\ proc'[p].verb = proc[p].verb
      BY <1>0, <2>4, GotoKeeps
    <3>3. CoverOK(proc[p])'
      BY <1>1, <2>2, <3>1, <3>2
         DEF CoverOK, ActiveOK, ContractedOK, AppliedOK, Undoing, Finishing
    <3> QED BY <1>1, <2>1, <3>3, CoverQuiet
  <2> QED BY <1>3, <2>3, <2>4 DEF RefreshResultingSchema
<1>4. CASE Reproject(p)
  <2>1. UNCHANGED migrations /\ proc[p].at = "reproject"
    BY <1>4 DEF Reproject, At
  <2>2. PICK step \in {"clear", "done"} :
          Goto(p, step) /\ (step = "clear" <=> proc[p].verb = "finish")
    BY <1>4 DEF Reproject
  <2>3. /\ proc'[p].at = step /\ proc'[p].queue = proc[p].queue
        /\ proc'[p].verb = proc[p].verb /\ proc'[p].cur = proc[p].cur
    BY <1>0, <2>2, GotoKeeps
  <2>4. proc[p].verb = "finish" =>
          \A k \in ActiveMigrations(migrations) : phys[k] \in ExpandPhases
    BY ActiveInExpand DEF Finishing
  <2>5. ActiveOK(proc[p])'
    BY <1>0, <1>1, <2>1, <2>2, <2>3, <2>4 DEF CoverOK, ActiveOK, OwnSteps
  <2>6. CoverOK(proc[p])'
    BY <1>0, <1>1, <2>1, <2>2, <2>3, <2>5
       DEF CoverOK, ContractedOK, AppliedOK, Undoing, Finishing
  <2> QED BY <1>1, <2>1, <2>6, CoverQuiet
<1>5. CASE Complete(p)
  <2> DEFINE n == proc[p].cur
  <2>1. /\ n \in ActiveMigrations(migrations) /\ phys[n] = "contracted"
        /\ n \in DOMAIN migrations /\ ~migrations[n].deferred
    BY <1>0, <1>5 DEF Complete, At, SerialOK, ForwardOK, OnActive, CoverOK, ContractedOK,
                      ActiveMigrations, RowsConsistent
  <2>2. /\ migrations' = Completed(migrations, n)
        /\ NextMigration(p) \/ Goto(p, "reseal")
    BY <1>5, <2>1 DEF Complete
  <2>3. /\ DOMAIN migrations' = DOMAIN migrations
        /\ \A k \in DOMAIN migrations \ {n} : migrations'[k] = migrations[k]
        /\ migrations'[n].done /\ migrations'[n].deferred = migrations[n].deferred
    BY <1>0, <2>1, <2>2, UpdatedRows
  <2>4. ActiveMigrations(migrations') = {}
    BY <1>0, <2>1, <2>3 DEF RowsConsistent, OnlyOneActive, ActiveMigrations
  <2>5. NothingElse'
    BY <1>0, <1>1, <2>3 DEF NothingElse
  <2>6. \A k \in DOMAIN migrations' : RowPhase(k)'
    BY <1>0, <1>1, <2>1, <2>3 DEF RowPhase
  <2>7. CoverOK(proc[p])'
    BY <1>0, <2>2, <2>4, NextKeeps, GotoKeeps, Becomes, CoverRests
  <2> QED BY <2>5, <2>6, <2>7, CoverStep
<1> QED BY <1>2, <1>3, <1>4, <1>5


(***************************************************************************)
(* The steps of rollback and revert, and the end of a revert.              *)
(***************************************************************************)
LEMMA UndoKeepsCover ==
  ASSUME OneAtATime, CoverInv, CarefulInv', NEW p \in Procs,
         \/ DropVersionSchema(p) \/ RollbackOperations(p) \/ DeleteMigration(p)
         \/ EnsureLeafVersionSchema(p) \/ CleanUpSchemas(p)
  PROVE  CoverInv'
<1> DEFINE n == proc[p].cur
<1>0. /\ NothingElse /\ \A k \in DOMAIN migrations : RowPhase(k)
      /\ ProcsOK /\ StateOK /\ SerialOK(proc[p]) /\ CarefulOK(proc[p]) /\ CoverOK(proc[p])
      /\ proc[p] \in Process /\ RowsConsistent(migrations) /\ SealedPrecedesContraction
      /\ DOMAIN migrations \subseteq Names /\ \A k \in DOMAIN migrations : migrations[k] \in Row
  BY CoverFacts
<1>1. \A k \in ActiveMigrations(migrations) : phys[k] \in ExpandPhases
  <2>1. proc[p].at \notin OwnSteps
    BY DEF DropVersionSchema, RollbackOperations, DeleteMigration, EnsureLeafVersionSchema,
           CleanUpSchemas, At, OwnSteps
  <2> QED BY <2>1, ActiveInExpand
<1>2. CASE EnsureLeafVersionSchema(p) \/ CleanUpSchemas(p)
  <2>1. UNCHANGED <<migrations, phys>> /\ Return(p)
    BY <1>2 DEF EnsureLeafVersionSchema, CleanUpSchemas
  <2>2. CoverOK(proc[p])'
    BY <1>0, <1>1, <2>1, Becomes, CoverRests
  <2> QED BY <2>1, <2>2, CoverQuiet
<1>3. CASE DropVersionSchema(p)
  <2>1. /\ UNCHANGED <<migrations, phys>> /\ proc[p].at = "dropVersion" /\ Goto(p, "undo")
    BY <1>3 DEF DropVersionSchema, At
  <2>2. CoverOK(proc[p])'
    BY <1>0, <1>1, <2>1, GotoKeeps DEF CoverOK, ActiveOK, ContractedOK, AppliedOK, Undoing
  <2> QED BY <2>1, <2>2, CoverQuiet
<1>4. CASE RollbackOperations(p)
  <2> DEFINE from == IF n \notin proc[p].applied THEN {"expanded", "filling", "ready"}
                     ELSE IF n \in Destructive THEN {} ELSE {"contracted"}
  <2>1. UNCHANGED migrations /\ proc[p].at = "undo"
    BY <1>4 DEF RollbackOperations, At
  <2>2. n \in Names
    BY <2>1, CoverFacts DEF Working, Steps
  <2>3. \/ /\ phys[n] \in from /\ phys' = [phys EXCEPT ![n] = "expanding"] /\ UNCHANGED proc
        \/ /\ phys[n] \notin from /\ Goto(p, "delete")
           /\ phys' = [phys EXCEPT ![n] = IF @ \in {"absent", "expanding"} THEN "absent"
                                          ELSE "damaged"]
    BY <1>4 DEF RollbackOperations
  \* The migration is in the phase its Rollbacks start from, or further back.
  <2>4. phys[n] \in from \cup {"absent", "expanding"}
    <3>1. CASE n \notin DOMAIN migrations
      BY <1>0, <2>2, <3>1 DEF NothingElse
    <3>2. CASE n \in ActiveMigrations(migrations)
      <4>1. n \notin proc[p].applied
        BY <1>0, <2>1, <3>2
           DEF CoverOK, AppliedOK, Undoing, SerialOK, UndoOK, ActiveMigrations
      <4> QED BY <1>1, <3>2, <4>1 DEF ExpandPhases
    <3>3. CASE n \in DOMAIN migrations /\ migrations[n].done
      <4>1. /\ proc[p].verb = "revert" /\ n \in DOMAIN proc[p].queue
            /\ ~migrations[n].sealed
        BY <1>0, <2>1, <3>3
           DEF SerialOK, UndoOK, Undoing, CarefulOK, TakeBackOK, ActiveMigrations
      <4>2. /\ n \in proc[p].applied <=> migrations[n].done /\ ~migrations[n].deferred
            /\ proc[p].applied \cap Destructive = {}
        BY <1>0, <2>1, <3>3, <4>1 DEF CoverOK, AppliedOK, Undoing
      <4>3. CASE migrations[n].deferred
        <5>1. phys[n] \notin {"contracting", "contracted"}
          BY <1>0, <3>3, <4>1, <4>3
             DEF SealedPrecedesContraction, Contracting, DeferredCompletes
        <5> QED BY <1>0, <3>3, <4>2, <4>3, <5>1 DEF RowPhase, Materialized
      <4>4. CASE ~migrations[n].deferred
        BY <1>0, <3>3, <4>2, <4>4 DEF RowPhase
      <4> QED BY <4>3, <4>4
    <3> QED BY <3>1, <3>2, <3>3 DEF ActiveMigrations
  <2>5. /\ \A k \in Names \ {n} : phys'[k] = phys[k]
        /\ \/ phys'[n] = "expanding" /\ UNCHANGED proc /\ phys[n] # "absent"
           \/ phys'[n] = "absent" /\ Goto(p, "delete")
    BY <1>0, <2>2, <2>3, <2>4 DEF StateOK
  <2>6. NothingElse'
    <3>1. CASE n \notin DOMAIN migrations
      <4>1. phys[n] = "absent"
        BY <1>0, <2>2, <3>1 DEF NothingElse
      <4> QED BY <1>0, <2>1, <2>5, <4>1 DEF NothingElse
    <3> QED BY <1>0, <2>1, <2>5, <3>1 DEF NothingElse
  <2>7. \A k \in DOMAIN migrations' : RowPhase(k)'
    <3>1. ASSUME NEW k \in DOMAIN migrations, k = n PROVE RowPhase(k)'
      <4>1. migrations[k].done => ~migrations[k].sealed /\ proc[p].verb = "revert"
        BY <1>0, <2>1, <3>1
           DEF SerialOK, UndoOK, Undoing, CarefulOK, TakeBackOK, ActiveMigrations
      <4>2. migrations[k].done /\ ~migrations[k].deferred => k \notin Destructive
        BY <1>0, <2>1, <3>1, <4>1
           DEF CoverOK, AppliedOK, Undoing, SerialOK, UndoOK
      <4>3. phys'[k] \in {"expanding", "absent"} /\ migrations'[k] = migrations[k]
        BY <2>1, <2>5, <3>1
      <4>4. migrations[k].deferred => migrations[k].done
        BY <1>0, <3>1 DEF RowsConsistent
      <4> QED BY <4>1, <4>2, <4>3, <4>4 DEF RowPhase
    <3>2. ASSUME NEW k \in DOMAIN migrations, k # n PROVE RowPhase(k)'
      <4>1. RowPhase(k) /\ phys'[k] = phys[k] /\ migrations'[k] = migrations[k]
        BY <1>0, <2>1, <2>5, <3>2
      <4> QED BY <4>1 DEF RowPhase
    <3> QED BY <2>1, <3>1, <3>2
  <2>8. \A k \in ActiveMigrations(migrations') : phys'[k] \in ExpandPhases
    BY <1>0, <1>1, <2>1, <2>5 DEF ActiveMigrations, ExpandPhases
  <2> HIDE DEF from
  <2>9. CoverOK(proc[p])'
    BY <1>0, <2>1, <2>5, <2>8, GotoKeeps
       DEF CoverOK, ActiveOK, ContractedOK, AppliedOK, Undoing
  <2> QED BY <2>6, <2>7, <2>9, CoverStep
<1>5. CASE DeleteMigration(p)
  <2> DEFINE rest == Restrict(proc[p].queue, DOMAIN proc[p].queue \ {n})
  <2>1. UNCHANGED phys /\ proc[p].at = "delete" /\ phys[n] = "absent"
    BY <1>0, <1>5 DEF DeleteMigration, At, CoverOK
  <2>2. CASE UNCHANGED migrations /\ Return(p)
    <3>1. CoverOK(proc[p])'
      BY <1>0, <1>1, <2>1, <2>2, Becomes, CoverRests
    <3> QED BY <2>1, <2>2, <3>1, CoverQuiet
  <2>3. CASE /\ migrations' = Deleted(migrations, n)
             /\ \/ Return(p)
                \/ Goto(p, "leaf")
                \/ /\ proc[p].verb # "rollback"
                   /\ Become(p, [proc[p] EXCEPT !.at = "dropVersion",
                                   !.cur = Newest(rest), !.queue = rest])
    <3>1. /\ DOMAIN migrations' = DOMAIN migrations \ {n}
          /\ \A k \in DOMAIN migrations' : migrations'[k] = migrations[k]
      BY <2>3 DEF Deleted, Restrict
    <3>2. NothingElse'
      BY <1>0, <2>1, <3>1 DEF NothingElse
    <3>3. \A k \in DOMAIN migrations' : RowPhase(k)'
      BY <1>0, <2>1, <3>1 DEF RowPhase
    <3>4. \A k \in ActiveMigrations(migrations') : phys'[k] \in ExpandPhases
      BY <1>1, <2>1, <3>1 DEF ActiveMigrations
    <3>5. DOMAIN rest \subseteq DOMAIN proc[p].queue
      BY DEF Restrict
    <3> HIDE DEF rest
    <3>6. CoverOK(proc[p])'
      <4>1. CASE Return(p) \/ Goto(p, "leaf")
        BY <1>0, <3>4, <4>1, Becomes, GotoKeeps, CoverRests
      <4>2. CASE /\ proc[p].verb # "rollback"
                 /\ Become(p, [proc[p] EXCEPT !.at = "dropVersion",
                                 !.cur = Newest(rest), !.queue = rest])
        <5>1. /\ proc'[p].at = "dropVersion" /\ proc'[p].verb = proc[p].verb
              /\ proc'[p].queue = rest /\ proc'[p].applied = proc[p].applied
          BY <1>0, <4>2 DEF Become, ProcsOK, Process
        <5> QED BY <1>0, <2>1, <3>1, <3>4, <3>5, <4>2, <5>1
                   DEF CoverOK, ActiveOK, ContractedOK, AppliedOK, Undoing
      <4> QED BY <2>3, <4>1, <4>2
    <3> QED BY <3>2, <3>3, <3>6, CoverStep
  <2> QED BY <1>5, <2>2, <2>3 DEF DeleteMigration
<1> QED BY <1>2, <1>3, <1>4, <1>5

----------------------------------------------------------------------------
(* What holds when Complete operations are always recorded.                *)

(***************************************************************************)
(* The inductive invariant holds in every reachable state.                 *)
(***************************************************************************)
THEOREM CoverInvariant ==
  ASSUME OneAtATime, RecordsCompletes
  PROVE  Spec => []CoverInv
<1>0. CarefulDeployment
  BY DEF RecordsCompletes
<1>1. ASSUME Init, CarefulInv PROVE CoverInv
  <2>1. DOMAIN migrations = {} /\ phys = [n \in Names |-> "absent"]
        /\ \A p \in Procs : proc[p].at = "idle"
    BY <1>1, IdleOK DEF Init, EmptyTable
  <2> QED BY <1>1, <2>1
             DEF CoverInv, NothingElse, CoverOK, ActiveOK, ContractedOK, AppliedOK, Undoing,
                 ActiveMigrations
<1>2. ASSUME CoverInv, CarefulInv', [Next]_vars PROVE CoverInv'
  <2>1. ASSUME NEW s \in Names \cup {NoName}, Repin(s) PROVE CoverInv'
    <3>1. UNCHANGED <<migrations, phys, proc>>
      BY <2>1 DEF Repin, db
    <3> QED BY <1>2, <3>1
               DEF CoverInv, NothingElse, RowPhase, CoverOK, ActiveOK, ContractedOK, AppliedOK
  <2>2. ASSUME NEW p \in Procs, Command(p) \/ StartFails(p) \/ Crash(p) PROVE CoverInv'
    BY <1>2, <2>2, CommandKeepsCover
  <2>3. ASSUME NEW p \in Procs, Step(p) PROVE CoverInv'
    BY <1>2, <2>3, StartKeepsCover, ActiveKeepsCover, SealKeepsCover, ContractKeepsCover,
       RecordKeepsCover, UndoKeepsCover DEF Step
  <2>4. CASE UNCHANGED vars
    BY <1>2, <2>4 DEF vars, CoverInv, NothingElse, RowPhase, CoverOK, ActiveOK, ContractedOK,
                      AppliedOK
  <2> QED BY <1>2, <2>1, <2>2, <2>3, <2>4 DEF Next
<1> QED BY <1>0, <1>1, <1>2, CarefulInvariant, PTL DEF Spec

(***************************************************************************)
(* Whatever commands run, fail and are taken back: a migration that is not *)
(* recorded has left nothing in the database, and one that is recorded is  *)
(* in a phase that its Complete, its Rollback or a revert can take further.*)
(***************************************************************************)
THEOREM HistoryAccountsForSchema ==
  ASSUME OneAtATime, RecordsCompletes
  PROVE  Spec => []HistoryCoversSchema
<1>1. CoverInv => HistoryCoversSchema
  <2> SUFFICES ASSUME CoverInv PROVE HistoryCoversSchema
    OBVIOUS
  <2>1. /\ NothingElse /\ schemas \subseteq DOMAIN migrations
        /\ \A n \in DOMAIN migrations : RowPhase(n)
        /\ \A n \in DOMAIN migrations : migrations[n] \in Row
    BY DEF CoverInv, CarefulInv, SerialInv, IInv, DeployedTable, TableOK, IsTable
  <2> QED BY <2>1 DEF HistoryCoversSchema, NothingElse, RowPhase, Materialized, Row
<1> QED BY <1>1, CoverInvariant, PTL


----------------------------------------------------------------------------
(* The snapshot of the newest row.  No operator takes anything back: only  *)
(* a Start that fails is undone, and what it undoes was never completed.   *)

ForwardOnly == CarefulDeployment /\ Verbs \cap {"rollback", "revert"} = {}

\* The schema as it was before Start of the migration n.
Before(n) == [phys EXCEPT ![n] = "absent"]

\* With nothing active and nothing queued the newest row's snapshot is the
\* schema.
CleanLeaf ==
  ~IsActiveMigrationPeriod(migrations) /\ DeferredCompletes(migrations) = {} =>
    \A n \in Leaves(migrations) : snapshot[n] = phys

\* While a migration is started, or undone because its Start failed, its
\* parent's snapshot is the schema without it.
ExpandsOnParent(s) ==
  /\ s.at = "ops" => phys[s.cur] \in {"absent", "expanding"}
  /\ Undoing(s) => phys[s.cur] \in ExpandPhases /\ s.applied = {}
  /\ s.at = "delete" => phys[s.cur] = "absent"
  /\ /\ s.at \in {"ops", "views", "triggers", "backfill"} \/ Undoing(s)
     /\ DeferredCompletes(migrations) = {} /\ migrations[s.cur].parent # NoName
     => snapshot[migrations[s.cur].parent] = Before(s.cur)

\* FinishContraction works on the newest row, and takes its snapshot after
\* the last contraction and before the last flag is cleared.
RefreshesLeaf(s) ==
  /\ Queued(s) /\ Finishing(s) => s.cur \in Leaves(migrations)
  /\ s.at \in {"clear", "reproject"} /\ Finishing(s) /\ Last(s.queue) =>
       \A n \in Leaves(migrations) : snapshot[n] = phys

SnapshotOK(s) == ExpandsOnParent(s) /\ RefreshesLeaf(s)

(***************************************************************************)
(* The inductive invariant.                                                *)
(***************************************************************************)
SnapshotInv == /\ CarefulInv /\ NoRevert
               /\ NothingElse /\ CleanLeaf
               /\ \A p \in Procs : SnapshotOK(proc[p])

(***************************************************************************)
(* What the invariant says of the process that takes a step.               *)
(***************************************************************************)
LEMMA SnapshotFacts ==
  ASSUME SnapshotInv, NEW p \in Procs
  PROVE  /\ CarefulInv /\ SerialInv /\ NothingElse /\ CleanLeaf
         /\ ProcsOK /\ StateOK /\ DeployedTable(migrations)
         /\ proc[p] \in Process /\ proc[p].verb # "revert"
         /\ SerialOK(proc[p]) /\ CarefulOK(proc[p]) /\ SnapshotOK(proc[p])
         /\ proc[p].at \in Working => proc[p].cur \in Names
         /\ RowsConsistent(migrations) /\ DOMAIN migrations \subseteq Names
         /\ \A n \in DOMAIN migrations : migrations[n] \in Row
<1>1. CarefulInv
  BY DEF SnapshotInv
<1> QED BY <1>1, CarefulFacts DEF SnapshotInv, CarefulInv, NoRevert

(***************************************************************************)
(* With one process, a step leaves the invariant when it leaves it for the *)
(* process that takes it.                                                  *)
(***************************************************************************)
LEMMA SnapshotStep ==
  ASSUME OneAtATime, NEW p \in Procs, CarefulInv', NoRevert', NothingElse', CleanLeaf',
         SnapshotOK(proc[p])'
  PROVE  SnapshotInv'
<1>1. \A q \in Procs : q = p
  BY DEF OneAtATime
<1> QED BY <1>1 DEF SnapshotInv

(***************************************************************************)
(* A step that changes neither the table nor a snapshot nor the phases.    *)
(***************************************************************************)
LEMMA SnapshotQuiet ==
  ASSUME OneAtATime, SnapshotInv, CarefulInv', NoRevert', NEW p \in Procs,
         UNCHANGED <<migrations, snapshot, phys>>, SnapshotOK(proc[p])'
  PROVE  SnapshotInv'
<1>1. NothingElse /\ CleanLeaf
  BY DEF SnapshotInv
<1>2. NothingElse' /\ CleanLeaf'
  BY <1>1 DEF NothingElse, CleanLeaf
<1> QED BY <1>2, SnapshotStep

(***************************************************************************)
(* A process at a step that neither expands, undoes nor drains.            *)
(***************************************************************************)
LEMMA SnapshotRests ==
  ASSUME NEW p \in Procs,
         proc'[p].at \in {"idle", "start", "insert", "active", "defer", "queue", "own",
                          "done", "reseal", "stamp", "cleanup", "leaf"}
  PROVE  SnapshotOK(proc[p])'
BY DEF SnapshotOK, ExpandsOnParent, RefreshesLeaf, Undoing, Queued, Draining

(***************************************************************************)
(* A process of Complete, which works on the active migration.             *)
(***************************************************************************)
LEMMA SnapshotCompletes ==
  ASSUME NEW p \in Procs, ~Finishing(proc'[p]),
         proc'[p].at \in {"dropOld", "seal", "dropLive", "drain", "clear", "reproject"}
  PROVE  SnapshotOK(proc[p])'
BY DEF SnapshotOK, ExpandsOnParent, RefreshesLeaf, Undoing, Finishing

(***************************************************************************)
(* A command begins, Start fails, or the process dies.                     *)
(***************************************************************************)
LEMMA CommandKeepsSnapshot ==
  ASSUME OneAtATime, ForwardOnly, SnapshotInv, CarefulInv', NoRevert', NEW p \in Procs,
         Command(p) \/ StartFails(p) \/ Crash(p)
  PROVE  SnapshotInv'
<1>0. /\ ProcsOK /\ DeployedTable(migrations) /\ SerialOK(proc[p]) /\ CarefulOK(proc[p])
      /\ SnapshotOK(proc[p]) /\ RowsConsistent(migrations)
  BY SnapshotFacts
<1>1. UNCHANGED <<migrations, snapshot, phys>>
  BY DEF Command, StartFails, Crash, MigrateBegin, MigrateAwaiting, CompleteBegin,
         FinishBegin, RollbackBegin, RevertBegin, db
<1>2. SUFFICES SnapshotOK(proc[p])'
  BY <1>1, SnapshotQuiet
<1>3. \A s : Become(p, s) => proc'[p] = s
  BY <1>0, Becomes
<1>4. CASE Return(p)
  BY <1>0, <1>4, Becomes, SnapshotRests
<1>5. ASSUME NEW names, NEW converge, MigrateBegin(p, names, converge)
      PROVE  SnapshotOK(proc[p])'
  <2>1. proc'[p].at = "start"
    BY <1>3, <1>5 DEF MigrateBegin, Idle
  <2> QED BY <2>1, SnapshotRests
<1>6. ASSUME NEW n, MigrateAwaiting(p, n) \/ CompleteBegin(p, n)
      PROVE  SnapshotOK(proc[p])'
  <2>1. proc'[p].at = "active"
    BY <1>3, <1>6 DEF MigrateAwaiting, CompleteBegin, Idle
  <2> QED BY <2>1, SnapshotRests
<1>7. \A n : ~RollbackBegin(p, n) /\ ~RevertBegin(p, n)
  BY DEF ForwardOnly, RollbackBegin, RevertBegin, Free
<1>8. ASSUME NEW force, FinishBegin(p, force) PROVE SnapshotOK(proc[p])'
  <2> DEFINE queue == ByCreation(DeferredCompletes(migrations))
             live  == LatestMigration(migrations)
             drops == DOMAIN queue \cap OnCompleteSQL # {}
  <2>1. CASE Become(p, [Idle EXCEPT !.at = "stamp", !.verb = "finish"])
    <3>1. proc'[p].at = "stamp"
      BY <1>3, <2>1 DEF Idle
    <3> QED BY <3>1, SnapshotRests
  <2>2. CASE /\ DOMAIN queue # {}
             /\ Become(p, [Idle EXCEPT !.at = "seal", !.verb = "finish", !.cur = live,
                             !.queue = queue, !.dropLive = drops])
    <3>1. DOMAIN migrations # {}
      BY <2>2 DEF ByCreation, DeferredCompletes
    <3>2. live \in Leaves(migrations)
      BY <1>0, <3>1, LatestIsNewest
    <3> HIDE DEF queue, live, drops
    <3>3. proc'[p].at = "seal" /\ proc'[p].cur = live
      BY <1>3, <2>2 DEF Idle
    <3> QED BY <1>1, <3>2, <3>3 DEF SnapshotOK, ExpandsOnParent, RefreshesLeaf, Undoing
  <2> QED BY <1>8, <2>1, <2>2 DEF FinishBegin
<1>9. ASSUME StartFails(p), NEW n \in ActiveMigrations(migrations),
             Become(p, [Idle EXCEPT !.at = "dropVersion", !.verb = "rollback", !.cur = n])
      PROVE  SnapshotOK(proc[p])'
  <2>1. proc[p].at \in {"ops", "backfill"}
    BY <1>9 DEF StartFails, At
  <2>2. proc[p].cur \in ActiveMigrations(migrations)
    BY <1>0, <2>1 DEF SerialOK, ForwardOK, OnActive
  <2>3. n = proc[p].cur
    BY <1>0, <1>9, <2>2 DEF RowsConsistent, OnlyOneActive, ActiveMigrations
  <2>4. phys[n] \in ExpandPhases
    BY <1>0, <2>1, <2>3 DEF SnapshotOK, ExpandsOnParent, CarefulOK, ExpandOK, ExpandPhases
  <2>5. /\ proc'[p].at = "dropVersion" /\ proc'[p].verb = "rollback" /\ proc'[p].cur = n
        /\ proc'[p].applied = {}
    BY <1>3, <1>9 DEF Idle
  <2> QED BY <1>0, <1>1, <2>1, <2>3, <2>4, <2>5
             DEF SnapshotOK, ExpandsOnParent, RefreshesLeaf, Undoing, Queued, Draining, Before
<1> QED BY <1>4, <1>5, <1>6, <1>7, <1>8, <1>9 DEF Command, StartFails, Crash

(***************************************************************************)
(* The steps of Start.  The new row's parent was the newest row, whose     *)
(* snapshot is the schema, and they change the new migration's phase only. *)
(***************************************************************************)
LEMMA StartKeepsSnapshot ==
  ASSUME OneAtATime, SnapshotInv, CarefulInv', NoRevert', NEW p \in Procs,
         \/ StartBegin(p) \/ Start(p) \/ StartOperations(p) \/ EnsureViews(p)
         \/ CreateTriggers(p) \/ Backfill(p)
  PROVE  SnapshotInv'
<1> DEFINE n == proc[p].cur
<1>0. /\ SerialInv /\ NothingElse /\ CleanLeaf /\ SnapshotOK(proc[p])
      /\ ProcsOK /\ StateOK /\ DeployedTable(migrations) /\ SerialOK(proc[p])
      /\ DOMAIN migrations \subseteq Names
  BY SnapshotFacts
<1>1. CASE StartBegin(p)
  <2>1. UNCHANGED <<migrations, snapshot, phys>> /\ (Return(p) \/ Goto(p, "insert"))
    BY <1>1 DEF StartBegin, db
  <2>2. SnapshotOK(proc[p])'
    BY <1>0, <2>1, Becomes, GotoKeeps, SnapshotRests
  <2> QED BY <2>1, <2>2, SnapshotQuiet
<1>2. CASE Start(p)
  <2>1. CASE UNCHANGED <<migrations, snapshot, phys>> /\ Return(p)
    <3>1. SnapshotOK(proc[p])'
      BY <1>0, <2>1, Becomes, SnapshotRests
    <3> QED BY <2>1, <3>1, SnapshotQuiet
  <2>2. CASE /\ UNCHANGED <<snapshot, phys>> /\ Goto(p, "ops")
             /\ n \in Names /\ n \notin DOMAIN migrations
             /\ DOMAIN migrations' = DOMAIN migrations \cup {n}
             /\ \A k \in DOMAIN migrations : migrations'[k] = migrations[k]
             /\ \A k \in DOMAIN migrations : migrations[k].done
             /\ ~migrations'[n].done /\ ~migrations'[n].deferred
             /\ migrations'[n].parent = LatestMigration(migrations)
    <3>1. phys[n] = "absent" /\ Before(n) = phys
      BY <1>0, <2>2 DEF NothingElse, Before, StateOK
    <3>2. NothingElse' /\ CleanLeaf'
      BY <1>0, <2>2 DEF NothingElse, CleanLeaf, IsActiveMigrationPeriod, ActiveMigrations
    <3>3. /\ DeferredCompletes(migrations') = DeferredCompletes(migrations)
          /\ ~IsActiveMigrationPeriod(migrations)
      BY <2>2 DEF DeferredCompletes, IsActiveMigrationPeriod, ActiveMigrations
    <3>4. proc'[p].at = "ops" /\ proc'[p].cur = n
      BY <1>0, <2>2, GotoKeeps
    <3>5. ASSUME DeferredCompletes(migrations) = {}, LatestMigration(migrations) # NoName
          PROVE  snapshot[LatestMigration(migrations)] = phys
      <4>1. DOMAIN migrations # {}
        BY <3>5 DEF LatestMigration, Leaves
      <4>2. LatestMigration(migrations) \in Leaves(migrations)
        BY <1>0, <4>1, LatestIsNewest
      <4> QED BY <1>0, <3>3, <3>5, <4>2 DEF CleanLeaf
    <3>6. SnapshotOK(proc[p])'
      BY <2>2, <3>1, <3>3, <3>4, <3>5
         DEF SnapshotOK, ExpandsOnParent, RefreshesLeaf, Undoing, Queued, Draining, Before
    <3> QED BY <3>2, <3>6, SnapshotStep
  <2> QED BY <1>0, <1>2, <2>1, <2>2, StartAdds
<1>3. CASE StartOperations(p) \/ EnsureViews(p) \/ CreateTriggers(p) \/ Backfill(p)
  <2>1. /\ proc[p].at \in {"ops", "views", "triggers", "backfill"}
        /\ UNCHANGED <<migrations, snapshot>>
    BY <1>3 DEF StartOperations, CreateTriggers, Backfill, EnsureViews, At
  <2>2. n \in ActiveMigrations(migrations) /\ n \in DOMAIN migrations /\ n \in Names
    BY <1>0, <2>1 DEF SerialOK, ForwardOK, OnActive, ActiveMigrations
  <2>3. \A k \in Names \ {n} : phys'[k] = phys[k]
    BY <1>0, <1>3, <2>2
       DEF StartOperations, CreateTriggers, Backfill, EnsureViews, StateOK
  <2>4. \/ UNCHANGED proc /\ proc[p].at = "ops" /\ phys'[n] = "expanding"
        \/ \E step \in {"views", "triggers", "backfill", "active"} : Goto(p, step)
        \/ Return(p)
    BY <1>0, <1>3, <2>2
       DEF StartOperations, CreateTriggers, Backfill, EnsureViews, AfterViews, AfterStart,
           At, StateOK
  <2>5. [phys' EXCEPT ![n] = "absent"] = Before(n)
    <3>1. phys \in [Names -> Phases] /\ phys' \in [Names -> Phases]
      BY <1>0 DEF StateOK, CarefulInv, SerialInv, IInv
    <3> QED BY <2>3, <3>1 DEF Before
  <2>6. NothingElse' /\ CleanLeaf'
    BY <1>0, <2>1, <2>2, <2>3
       DEF NothingElse, CleanLeaf, IsActiveMigrationPeriod
  <2>7. \/ proc'[p].at \in {"idle", "active"}
        \/ /\ proc'[p].at \in {"views", "triggers", "backfill"} /\ proc'[p].cur = n
        \/ /\ proc'[p].at = "ops" /\ proc'[p].cur = n /\ phys'[n] = "expanding"
    BY <1>0, <2>4, Becomes, GotoKeeps
  <2>8. ASSUME proc'[p].at \in {"ops", "views", "triggers", "backfill"}, proc'[p].cur = n
        PROVE  SnapshotOK(proc[p])'
    BY <1>0, <2>1, <2>5, <2>7, <2>8
       DEF SnapshotOK, ExpandsOnParent, RefreshesLeaf, Undoing, Queued, Draining, Before
  <2>9. SnapshotOK(proc[p])'
    BY <2>7, <2>8, SnapshotRests
  <2> QED BY <2>6, <2>9, SnapshotStep
<1> QED BY <1>1, <1>2, <1>3

(***************************************************************************)
(* The steps that read the history or project version schemas.             *)
(***************************************************************************)
LEMMA MoveKeepsSnapshot ==
  ASSUME OneAtATime, SnapshotInv, CarefulInv', NoRevert', NEW p \in Procs,
         \/ GetActiveMigration(p) \/ DropOldSchemas(p) \/ ReadQueue(p) \/ DropLiveSchema(p)
         \/ Reproject(p) \/ CleanUpSchemas(p) \/ EnsureLeafVersionSchema(p)
  PROVE  SnapshotInv'
<1>0. /\ ProcsOK /\ SerialOK(proc[p]) /\ SnapshotOK(proc[p])
  BY SnapshotFacts
<1>1. UNCHANGED <<migrations, snapshot, phys>>
  BY DEF GetActiveMigration, DropOldSchemas, ReadQueue, DropLiveSchema, Reproject,
         CleanUpSchemas, EnsureLeafVersionSchema, db
<1>2. SUFFICES SnapshotOK(proc[p])'
  BY <1>1, SnapshotQuiet
<1>3. CASE Return(p)
  BY <1>0, <1>3, Becomes, SnapshotRests
<1>4. CASE GetActiveMigration(p)
  <2> DEFINE at == IF Intermediate(p)
                   THEN IF First(proc[p].todo) \in Destructive THEN "defer" ELSE "own"
                   ELSE IF versionSchemas THEN "dropOld" ELSE "queue"
  <2>1. CASE \E k \in ActiveMigrations(migrations) :
               Become(p, [proc[p] EXCEPT !.cur = k, !.at = at])
    <3>1. at \in {"defer", "own", "dropOld", "queue"} /\ ~Finishing(proc[p])
      BY <1>0, <1>4 DEF GetActiveMigration, At, SerialOK, ForwardOK
    <3> HIDE DEF at
    <3>2. proc'[p].at = at /\ proc'[p].verb = proc[p].verb
      BY <1>0, <2>1 DEF Become, ProcsOK, Process
    <3>3. ~Finishing(proc'[p])
      BY <3>1, <3>2 DEF Finishing
    <3> QED BY <3>1, <3>2, <3>3, SnapshotRests, SnapshotCompletes
  <2> QED BY <1>3, <1>4, <2>1 DEF GetActiveMigration
<1>5. CASE ReadQueue(p)
  <2> DEFINE queue == ByCreation(DeferredCompletes(migrations))
             drops == ({proc[p].cur} \cup DOMAIN queue) \cap OnCompleteSQL # {}
             at == IF DOMAIN queue = {} THEN "own" ELSE "seal"
  <2>1. /\ Become(p, [proc[p] EXCEPT !.at = at, !.queue = queue, !.dropLive = drops])
        /\ at \in {"own", "seal"} /\ ~Finishing(proc[p])
    BY <1>0, <1>5 DEF ReadQueue, At, SerialOK, ForwardOK
  <2> HIDE DEF queue, drops, at
  <2>2. proc'[p].at = at /\ proc'[p].verb = proc[p].verb
    BY <1>0, <2>1 DEF Become, ProcsOK, Process
  <2>3. ~Finishing(proc'[p])
    BY <2>1, <2>2 DEF Finishing
  <2> QED BY <2>1, <2>2, <2>3, SnapshotRests, SnapshotCompletes
<1>6. CASE DropOldSchemas(p) \/ DropLiveSchema(p)
  <2>1. /\ proc[p].at \in {"dropOld", "dropLive"}
        /\ \/ Return(p)
           \/ \E step \in {"queue", "dropLive", "drain"} : Goto(p, step)
    BY <1>6 DEF DropOldSchemas, DropLiveSchema, At
  <2>2. CASE \E step \in {"queue", "dropLive", "drain"} : Goto(p, step)
    <3>1. /\ proc'[p].at \in {"queue", "dropLive", "drain"} /\ proc'[p].cur = proc[p].cur
          /\ proc'[p].verb = proc[p].verb
      BY <1>0, <2>2, GotoKeeps
    <3> QED BY <1>0, <1>1, <2>1, <3>1
               DEF SnapshotOK, ExpandsOnParent, RefreshesLeaf, Undoing, Queued, Draining,
                   Finishing
  <2> QED BY <1>3, <2>1, <2>2
<1>7. CASE Reproject(p)
  <2>1. /\ proc[p].at = "reproject"
        /\ Goto(p, IF proc[p].verb = "finish" THEN "clear" ELSE "done")
    BY <1>7 DEF Reproject, At
  <2>2. /\ proc'[p].at = IF proc[p].verb = "finish" THEN "clear" ELSE "done"
        /\ proc'[p].cur = proc[p].cur /\ proc'[p].queue = proc[p].queue
        /\ proc'[p].verb = proc[p].verb
    BY <1>0, <2>1, GotoKeeps
  <2> QED BY <1>0, <1>1, <2>1, <2>2
             DEF SnapshotOK, ExpandsOnParent, RefreshesLeaf, Undoing, Queued, Draining,
                 Finishing
<1>8. CASE CleanUpSchemas(p) \/ EnsureLeafVersionSchema(p)
  BY <1>3, <1>8 DEF CleanUpSchemas, EnsureLeafVersionSchema
<1> QED BY <1>4, <1>5, <1>6, <1>7, <1>8

(***************************************************************************)
(* The seals change neither what is active, nor what is queued, nor which  *)
(* row is the newest.                                                      *)
(***************************************************************************)
LEMMA SealKeepsSnapshot ==
  ASSUME OneAtATime, SnapshotInv, CarefulInv', NoRevert', NEW p \in Procs,
         SealBeforeDrain(p) \/ SealAfterComplete(p) \/ SealOpenWindow(p)
  PROVE  SnapshotInv'
<1>0. /\ ProcsOK /\ SnapshotOK(proc[p]) /\ NothingElse /\ CleanLeaf
      /\ \A k \in DOMAIN migrations : migrations[k] \in Row
  BY SnapshotFacts
<1>1. /\ UNCHANGED <<snapshot, phys>> /\ migrations' = MarkedSealed(migrations)
      /\ \/ Return(p) \/ Goto(p, "cleanup")
         \/ /\ proc[p].at = "seal"
            /\ \E step \in {"drain", "dropOld", "dropLive"} : Goto(p, step)
  BY DEF SealBeforeDrain, SealAfterComplete, SealOpenWindow, At
<1>2. /\ DOMAIN migrations' = DOMAIN migrations
      /\ \A k \in DOMAIN migrations : /\ migrations'[k].done = migrations[k].done
                                      /\ migrations'[k].deferred = migrations[k].deferred
                                      /\ migrations'[k].parent = migrations[k].parent
  BY <1>0, <1>1, SealedRows
<1>3. /\ Leaves(migrations') = Leaves(migrations)
      /\ ActiveMigrations(migrations') = ActiveMigrations(migrations)
      /\ DeferredCompletes(migrations') = DeferredCompletes(migrations)
  BY <1>2, LatestKept DEF ActiveMigrations, DeferredCompletes
<1>4. NothingElse' /\ CleanLeaf'
  BY <1>0, <1>1, <1>2, <1>3 DEF NothingElse, CleanLeaf, IsActiveMigrationPeriod
<1>5. SnapshotOK(proc[p])'
  <2>1. CASE Return(p) \/ Goto(p, "cleanup")
    BY <1>0, <2>1, Becomes, GotoKeeps, SnapshotRests
  <2>2. CASE /\ proc[p].at = "seal"
             /\ \E step \in {"drain", "dropOld", "dropLive"} : Goto(p, step)
    <3>1. /\ proc'[p].at \in {"drain", "dropOld", "dropLive"} /\ proc'[p].cur = proc[p].cur
          /\ proc'[p].verb = proc[p].verb
      BY <1>0, <2>2, GotoKeeps
    <3> QED BY <1>0, <1>3, <2>2, <3>1
               DEF SnapshotOK, ExpandsOnParent, RefreshesLeaf, Undoing, Queued, Draining,
                   Finishing
  <2> QED BY <1>1, <2>1, <2>2
<1> QED BY <1>4, <1>5, SnapshotStep

(***************************************************************************)
(* A migration is done, and its snapshot is the schema.                    *)
(***************************************************************************)
LEMMA DoneKeepsSnapshot ==
  ASSUME OneAtATime, SnapshotInv, CarefulInv', NoRevert', NEW p \in Procs,
         MarkCompleteDeferred(p) \/ Complete(p)
  PROVE  SnapshotInv'
<1> DEFINE n == proc[p].cur
<1>0. /\ ProcsOK /\ StateOK /\ DeployedTable(migrations) /\ SerialOK(proc[p])
      /\ NothingElse /\ CleanLeaf /\ DOMAIN migrations \subseteq Names
      /\ \A k \in DOMAIN migrations : migrations[k] \in Row
  BY SnapshotFacts
<1>1. n \in ActiveMigrations(migrations) /\ n \in DOMAIN migrations
  BY <1>0 DEF MarkCompleteDeferred, Complete, At, SerialOK, ForwardOK, OnActive,
              ActiveMigrations
<1>2. /\ migrations' \in {MarkedDeferred(migrations, n), Completed(migrations, n)}
      /\ UNCHANGED phys /\ snapshot' = [snapshot EXCEPT ![n] = phys]
      /\ NextMigration(p) \/ Goto(p, "reseal")
  BY <1>1 DEF MarkCompleteDeferred, Complete
<1>3. /\ DOMAIN migrations' = DOMAIN migrations
      /\ \A k \in DOMAIN migrations : migrations'[k].parent = migrations[k].parent
  BY <1>0, <1>1, <1>2, UpdatedRows
<1>4. \A k \in Leaves(migrations') : k = n
  <2>1. \A k \in Leaves(migrations) : k = n
    BY <1>0, <1>1, LatestIsNewest
  <2> QED BY <1>3, <2>1, LatestKept
<1>5. NothingElse' /\ CleanLeaf'
  BY <1>0, <1>1, <1>2, <1>3, <1>4 DEF NothingElse, CleanLeaf, StateOK
<1>6. SnapshotOK(proc[p])'
  BY <1>0, <1>2, NextKeeps, GotoKeeps, Becomes, SnapshotRests
<1> QED BY <1>5, <1>6, SnapshotStep

(***************************************************************************)
(* The Complete operations, queued or own, change the schema while         *)
(* something is queued or active.                                          *)
(***************************************************************************)
LEMMA ContractKeepsSnapshot ==
  ASSUME OneAtATime, SnapshotInv, CarefulInv', NoRevert', NEW p \in Procs,
         ApplyDeferredComplete(p) \/ CompleteOperations(p)
  PROVE  SnapshotInv'
<1>0. /\ NothingElse /\ ProcsOK /\ StateOK /\ proc[p] \in Process /\ QueueBounded(proc[p].queue)
      /\ SerialOK(proc[p]) /\ CarefulOK(proc[p]) /\ SnapshotOK(proc[p])
      /\ RowsConsistent(migrations) /\ DOMAIN migrations \subseteq Names
  BY SnapshotFacts, CarefulFacts
<1>1. UNCHANGED <<migrations, snapshot>>
  BY DEF ApplyDeferredComplete, CompleteOperations
<1>2. CASE ApplyDeferredComplete(p)
  <2> DEFINE n == Oldest(proc[p].queue)
             last == proc[p].verb = "finish" /\ DOMAIN proc[p].queue = {n}
             step == IF last THEN "refresh" ELSE "clear"
  <2>1. proc[p].at = "drain" /\ Contract(p, n, step)
    BY <1>2 DEF ApplyDeferredComplete, At
  <2>2. /\ DOMAIN proc[p].queue # {} /\ Settled
        /\ DOMAIN proc[p].queue \subseteq DeferredCompletes(migrations)
    BY <1>0, <2>1 DEF SerialOK, DrainOK, Draining, CarefulOK, QueueOK, Queued, Forward
  <2>3. n \in DOMAIN proc[p].queue /\ n \in Names
    BY <1>0, <2>2, NewestOK DEF Process
  <2>4. n \in DOMAIN migrations /\ phys[n] \in Materialized
    BY <1>0, <2>2, <2>3 DEF Settled, DeferredCompletes, RowsConsistent
  <2>5. /\ \A k \in Names \ {n} : phys'[k] = phys[k]
        /\ UNCHANGED proc \/ Goto(p, step)
    BY <1>0, <2>1, <2>3, <2>4, Contracts
  <2>6. NothingElse' /\ CleanLeaf'
    BY <1>0, <1>1, <2>2, <2>3, <2>4, <2>5 DEF NothingElse, CleanLeaf
  <2>7. /\ proc'[p].at \in {"drain", step} /\ proc'[p].cur = proc[p].cur
        /\ proc'[p].verb = proc[p].verb /\ proc'[p].queue = proc[p].queue
    BY <1>0, <2>1, <2>5, GotoKeeps
  <2>8. SnapshotOK(proc[p])'
    BY <1>0, <1>1, <2>1, <2>7
       DEF SnapshotOK, ExpandsOnParent, RefreshesLeaf, Undoing, Queued, Draining, Finishing,
           Last
  <2> QED BY <2>6, <2>8, SnapshotStep
<1>3. CASE CompleteOperations(p)
  <2> DEFINE n == proc[p].cur
             recreate == /\ versionSchemas /\ ~Intermediate(p)
                         /\ proc[p].dropLive \/ n \in RawSQL
             step == IF recreate THEN "reproject" ELSE "done"
  <2>1. /\ proc[p].at = "own" /\ Contract(p, n, step) /\ step \in {"reproject", "done"}
    BY <1>3 DEF CompleteOperations, At
  <2> HIDE DEF step
  <2>2. /\ n \in ActiveMigrations(migrations) /\ n \in DOMAIN migrations
        /\ phys[n] \in Materialized /\ ~Finishing(proc[p])
    BY <1>0, <2>1 DEF SerialOK, ForwardOK, OnActive, CarefulOK, ExpandOK, Completing,
                      ActiveMigrations
  <2>3. /\ \A k \in Names \ {n} : phys'[k] = phys[k]
        /\ UNCHANGED proc \/ Goto(p, step)
    BY <1>0, <2>1, <2>2, Contracts
  <2>4. NothingElse' /\ CleanLeaf'
    BY <1>0, <1>1, <2>2, <2>3
       DEF NothingElse, CleanLeaf, IsActiveMigrationPeriod
  <2>5. proc'[p].at \in {"own", "reproject", "done"} /\ proc'[p].verb = proc[p].verb
    BY <1>0, <2>1, <2>3, GotoKeeps
  <2>6. SnapshotOK(proc[p])'
    BY <2>2, <2>5, SnapshotRests, SnapshotCompletes DEF Finishing
  <2> QED BY <2>4, <2>6, SnapshotStep
<1> QED BY <1>2, <1>3

(***************************************************************************)
(* FinishContraction takes the newest row's snapshot again before it       *)
(* clears the last flag, so that the empty queue finds it clean.           *)
(***************************************************************************)
LEMMA DrainKeepsSnapshot ==
  ASSUME OneAtATime, SnapshotInv, CarefulInv', NoRevert', NEW p \in Procs,
         ClearCompleteDeferred(p) \/ RefreshResultingSchema(p)
  PROVE  SnapshotInv'
<1> DEFINE n == Oldest(proc[p].queue)
<1>0. /\ NothingElse /\ ProcsOK /\ StateOK /\ proc[p] \in Process /\ QueueBounded(proc[p].queue)
      /\ SerialOK(proc[p]) /\ CarefulOK(proc[p]) /\ SnapshotOK(proc[p])
      /\ DeployedTable(migrations) /\ DOMAIN migrations \subseteq Names
      /\ \A k \in DOMAIN migrations : migrations[k] \in Row
  BY SnapshotFacts, CarefulFacts
<1>1. /\ UNCHANGED phys /\ proc[p].at \in {"clear", "refresh"}
  BY DEF ClearCompleteDeferred, RefreshResultingSchema, At
<1>2. /\ DOMAIN proc[p].queue # {} /\ proc[p].cur \in DOMAIN migrations
      /\ DOMAIN proc[p].queue \subseteq DeferredCompletes(migrations)
  BY <1>0, <1>1 DEF SerialOK, DrainOK, Draining, CarefulOK, QueueOK, Queued
<1>3. n \in DOMAIN proc[p].queue /\ n \in DOMAIN migrations
  BY <1>0, <1>2, NewestOK DEF Process, DeferredCompletes
<1>4. CASE RefreshResultingSchema(p)
  <2>1. /\ UNCHANGED migrations /\ proc[p].at = "refresh"
        /\ snapshot' = [snapshot EXCEPT ![proc[p].cur] = phys]
        /\ Goto(p, IF versionSchemas /\ proc[p].dropLive THEN "reproject" ELSE "clear")
    BY <1>2, <1>4 DEF RefreshResultingSchema, At
  <2>2. \A k \in Leaves(migrations) : snapshot'[k] = phys
    <3>1. proc[p].cur \in Leaves(migrations)
      BY <1>0, <2>1 DEF SnapshotOK, RefreshesLeaf, Queued, Draining, SerialOK, ViewsOK
    <3>2. \A k \in Leaves(migrations) : k = proc[p].cur
      BY <1>0, <1>2, <3>1, LatestIsNewest
    <3> QED BY <1>0, <1>2, <2>1, <3>2 DEF StateOK
  <2>3. NothingElse' /\ CleanLeaf'
    BY <1>0, <1>1, <2>1, <2>2 DEF NothingElse, CleanLeaf
  <2>4. /\ proc'[p].at \in {"reproject", "clear"} /\ proc'[p].cur = proc[p].cur
        /\ proc'[p].verb = proc[p].verb
    BY <1>0, <2>1, GotoKeeps
  <2>5. SnapshotOK(proc[p])'
    BY <1>0, <1>1, <2>1, <2>2, <2>4
       DEF SnapshotOK, ExpandsOnParent, RefreshesLeaf, Undoing, Queued, Draining, Finishing
  <2> QED BY <2>3, <2>5, SnapshotStep
<1>5. CASE ClearCompleteDeferred(p)
  <2> DEFINE rest == Restrict(proc[p].queue, DOMAIN proc[p].queue \ {n})
             at == IF DOMAIN rest # {} THEN "drain"
                   ELSE IF proc[p].verb = "finish" THEN "reseal" ELSE "own"
  <2>1. /\ proc[p].at = "clear" /\ UNCHANGED snapshot
        /\ migrations' = DeferredCleared(migrations, n)
        /\ Become(p, [proc[p] EXCEPT !.queue = rest, !.at = at])
    BY <1>3, <1>5 DEF ClearCompleteDeferred, At
  <2>2. DOMAIN rest = DOMAIN proc[p].queue \ {n}
    BY DEF Restrict
  <2>3. at = "drain" => DOMAIN rest # {}
    OBVIOUS
  <2>4. at \in {"drain", "reseal", "own"}
    OBVIOUS
  <2> HIDE DEF rest, at
  <2>5. /\ proc'[p].at = at /\ proc'[p].cur = proc[p].cur /\ proc'[p].verb = proc[p].verb
        /\ proc'[p].queue = rest
    BY <1>0, <2>1 DEF Become, ProcsOK, Process
  <2>6. /\ DOMAIN migrations' = DOMAIN migrations
        /\ \A k \in DOMAIN migrations \ {n} : migrations'[k] = migrations[k]
        /\ migrations'[n].done = migrations[n].done
        /\ migrations'[n].parent = migrations[n].parent
    BY <1>0, <1>3, <2>1, UpdatedRows
  <2>7. Leaves(migrations') = Leaves(migrations)
    BY <1>3, <2>6, LatestKept
  <2>8. CleanLeaf'
    <3>1. CASE Finishing(proc[p]) /\ Last(proc[p].queue)
      BY <1>0, <1>1, <2>1, <2>7, <3>1 DEF SnapshotOK, RefreshesLeaf, CleanLeaf
    \* Something is left in the queue.
    <3>2. CASE ~Last(proc[p].queue)
      <4>1. PICK k \in DOMAIN proc[p].queue : k # n
        BY <1>3, <3>2 DEF Last
      <4>2. k \in DeferredCompletes(migrations')
        BY <1>2, <2>6, <4>1 DEF DeferredCompletes
      <4> QED BY <4>2 DEF CleanLeaf
    <3>3. CASE ~Finishing(proc[p])
      <4>1. proc[p].cur \in ActiveMigrations(migrations)
        BY <1>0, <2>1, <3>3 DEF SerialOK, ForwardOK, OnActive
      <4>2. proc[p].cur \in ActiveMigrations(migrations')
        BY <1>3, <2>6, <4>1 DEF ActiveMigrations
      <4> QED BY <4>2 DEF CleanLeaf, IsActiveMigrationPeriod
    <3> QED BY <3>1, <3>2, <3>3
  <2>9. NothingElse'
    BY <1>0, <1>1, <2>6 DEF NothingElse
  <2>10. SnapshotOK(proc[p])'
    <3>1. CASE at = "drain"
      BY <1>0, <2>1, <2>5, <2>7, <3>1
         DEF SnapshotOK, ExpandsOnParent, RefreshesLeaf, Undoing, Queued, Draining, Finishing
    <3> QED BY <2>4, <2>5, <3>1, SnapshotRests
  <2> QED BY <2>8, <2>9, <2>10, SnapshotStep
<1> QED BY <1>4, <1>5

(***************************************************************************)
(* A Start that failed is undone: the row's parent is the newest row again *)
(* and the schema is what it was before.                                   *)
(***************************************************************************)
LEMMA UndoKeepsSnapshot ==
  ASSUME OneAtATime, SnapshotInv, CarefulInv', NoRevert', NEW p \in Procs,
         DropVersionSchema(p) \/ RollbackOperations(p) \/ DeleteMigration(p)
  PROVE  SnapshotInv'
<1> DEFINE n == proc[p].cur
<1>0. /\ NothingElse /\ CleanLeaf /\ ProcsOK /\ StateOK /\ DeployedTable(migrations)
      /\ SerialOK(proc[p]) /\ CarefulOK(proc[p]) /\ SnapshotOK(proc[p])
      /\ proc[p].verb # "revert"
      /\ RowsConsistent(migrations) /\ DOMAIN migrations \subseteq Names
      /\ \A k \in DOMAIN migrations : migrations[k] \in Row
  BY SnapshotFacts
<1>1. Undoing(proc[p])
  BY DEF DropVersionSchema, RollbackOperations, DeleteMigration, At, Undoing
<1>2. /\ n \in ActiveMigrations(migrations) /\ n \in DOMAIN migrations /\ n \in Names
      /\ proc[p].verb = "rollback"
  BY <1>0, <1>1 DEF SerialOK, UndoOK, CarefulOK, TakeBackOK, ActiveMigrations
<1>3. CASE DropVersionSchema(p)
  <2>1. UNCHANGED <<migrations, snapshot, phys>> /\ Goto(p, "undo")
    BY <1>3 DEF DropVersionSchema
  <2>2. /\ proc'[p].at = "undo" /\ proc'[p].cur = n /\ proc'[p].applied = proc[p].applied
    BY <1>0, <2>1, GotoKeeps
  <2>3. SnapshotOK(proc[p])'
    BY <1>0, <1>1, <2>1, <2>2
       DEF SnapshotOK, ExpandsOnParent, RefreshesLeaf, Undoing, Queued, Draining, Before
  <2> QED BY <2>1, <2>3, SnapshotQuiet
<1>4. CASE RollbackOperations(p)
  <2> DEFINE from == IF n \notin proc[p].applied THEN {"expanded", "filling", "ready"}
                     ELSE IF n \in Destructive THEN {} ELSE {"contracted"}
  <2>1. /\ UNCHANGED <<migrations, snapshot>> /\ proc[p].at = "undo"
        /\ phys[n] \in ExpandPhases /\ from = {"expanded", "filling", "ready"}
    BY <1>0, <1>1, <1>4 DEF RollbackOperations, At, SnapshotOK, ExpandsOnParent
  <2>2. \/ /\ phys[n] \in from /\ phys' = [phys EXCEPT ![n] = "expanding"] /\ UNCHANGED proc
        \/ /\ phys[n] \notin from /\ Goto(p, "delete")
           /\ phys' = [phys EXCEPT ![n] = IF @ \in {"absent", "expanding"} THEN "absent"
                                          ELSE "damaged"]
    BY <1>4 DEF RollbackOperations
  <2> HIDE DEF from
  <2>3. /\ \A k \in Names \ {n} : phys'[k] = phys[k]
        /\ \/ phys'[n] = "expanding" /\ UNCHANGED proc
           \/ phys'[n] = "absent" /\ Goto(p, "delete")
    BY <1>0, <1>2, <2>1, <2>2 DEF StateOK, ExpandPhases
  <2>4. [phys' EXCEPT ![n] = "absent"] = Before(n)
    BY <1>0, <1>2, <2>2 DEF StateOK, Before
  <2>5. NothingElse' /\ CleanLeaf'
    BY <1>0, <1>2, <2>1, <2>3 DEF NothingElse, CleanLeaf, IsActiveMigrationPeriod
  <2>6. /\ \/ proc'[p].at = "undo" /\ phys'[n] = "expanding"
           \/ proc'[p].at = "delete" /\ phys'[n] = "absent"
        /\ proc'[p].cur = n /\ proc'[p].applied = proc[p].applied
    BY <1>0, <2>1, <2>3, GotoKeeps
  <2>7. SnapshotOK(proc[p])'
    BY <1>0, <1>1, <2>1, <2>4, <2>6
       DEF SnapshotOK, ExpandsOnParent, RefreshesLeaf, Undoing, Queued, Draining, Before,
           ExpandPhases
  <2> QED BY <2>5, <2>7, SnapshotStep
<1>5. CASE DeleteMigration(p)
  <2>1. UNCHANGED phys /\ proc[p].at = "delete" /\ phys[n] = "absent"
    BY <1>0, <1>5 DEF DeleteMigration, At, SnapshotOK, ExpandsOnParent
  <2>2. CASE UNCHANGED <<migrations, snapshot>> /\ Return(p)
    <3>1. SnapshotOK(proc[p])'
      BY <1>0, <2>2, Becomes, SnapshotRests
    <3> QED BY <2>1, <2>2, <3>1, SnapshotQuiet
  <2>3. CASE /\ migrations' = Deleted(migrations, n) /\ Return(p)
             /\ snapshot' = [snapshot EXCEPT ![n] = [k \in Names |-> "absent"]]
    <3>1. /\ DOMAIN migrations' = DOMAIN migrations \ {n}
          /\ \A k \in DOMAIN migrations' : migrations'[k] = migrations[k]
      BY <2>3 DEF Deleted, Restrict
    <3>2. NothingElse'
      BY <1>0, <2>1, <3>1 DEF NothingElse
    <3>3. DeferredCompletes(migrations') = DeferredCompletes(migrations)
      BY <1>0, <1>2, <3>1 DEF DeferredCompletes, RowsConsistent, ActiveMigrations
    <3>4. ASSUME NEW k \in Leaves(migrations'), DeferredCompletes(migrations') = {}
          PROVE  snapshot'[k] = phys'
      <4>1. k \in DOMAIN migrations /\ k # n /\ k # NoName
        BY <1>0, <3>1, <3>4, NamesAssumption DEF Leaves, NoName
      <4>2. HasChild(migrations, k)
        BY <1>0, <1>2, <4>1, LatestIsNewest DEF Leaves
      <4>3. migrations[n].parent = k
        BY <3>1, <3>4, <4>2 DEF Leaves, HasChild
      <4>4. snapshot[k] = Before(n)
        BY <1>0, <1>1, <3>3, <3>4, <4>1, <4>3 DEF SnapshotOK, ExpandsOnParent
      <4>5. Before(n) = phys
        BY <1>0, <1>2, <2>1 DEF Before, StateOK
      <4> QED BY <1>0, <2>1, <2>3, <4>1, <4>4, <4>5 DEF StateOK
    <3>5. CleanLeaf'
      BY <3>4 DEF CleanLeaf
    <3>6. SnapshotOK(proc[p])'
      BY <1>0, <2>3, Becomes, SnapshotRests
    <3> QED BY <3>2, <3>5, <3>6, SnapshotStep
  <2> QED BY <1>2, <1>5, <2>2, <2>3 DEF DeleteMigration
<1> QED BY <1>3, <1>4, <1>5

(***************************************************************************)
(* The inductive invariant holds in every reachable state.                 *)
(***************************************************************************)
THEOREM SnapshotInvariant ==
  ASSUME OneAtATime, ForwardOnly
  PROVE  Spec => []SnapshotInv
<1>0. CarefulDeployment /\ "revert" \notin Verbs
  BY DEF ForwardOnly
<1>1. ASSUME Init, CarefulInv PROVE SnapshotInv
  <2>1. DOMAIN migrations = {} /\ phys = [n \in Names |-> "absent"]
        /\ \A p \in Procs : proc[p].at = "idle" /\ proc[p].verb = "none"
    BY <1>1 DEF Init, EmptyTable, Idle
  <2> QED BY <1>1, <2>1
             DEF SnapshotInv, NoRevert, NothingElse, CleanLeaf, Leaves, SnapshotOK,
                 ExpandsOnParent, RefreshesLeaf, Undoing, Queued, Draining
<1>2. ASSUME SnapshotInv, CarefulInv', [Next]_vars PROVE SnapshotInv'
  <2>0. proc \in [Procs -> Process] /\ NoRevert
    BY <1>2 DEF SnapshotInv, CarefulInv, SerialInv, IInv, ProcsOK
  <2>1. NoRevert'
    BY <1>0, <1>2, <2>0, NextKeepsNoRevert
  <2>2. ASSUME UNCHANGED <<migrations, snapshot, phys, proc>> PROVE SnapshotInv'
    BY <1>2, <2>2
       DEF SnapshotInv, NoRevert, NothingElse, CleanLeaf, SnapshotOK, ExpandsOnParent,
           RefreshesLeaf, Before
  <2>3. ASSUME NEW s \in Names \cup {NoName}, Repin(s) PROVE SnapshotInv'
    BY <2>2, <2>3 DEF Repin, db
  <2>4. ASSUME NEW p \in Procs, Command(p) \/ StartFails(p) \/ Crash(p) PROVE SnapshotInv'
    BY <1>2, <2>1, <2>4, CommandKeepsSnapshot
  <2>5. ASSUME NEW p \in Procs, Step(p) PROVE SnapshotInv'
    BY <1>2, <2>1, <2>5, StartKeepsSnapshot, MoveKeepsSnapshot, SealKeepsSnapshot,
       DoneKeepsSnapshot, ContractKeepsSnapshot, DrainKeepsSnapshot, UndoKeepsSnapshot
       DEF Step
  <2>6. CASE UNCHANGED vars
    BY <2>2, <2>6 DEF vars
  <2> QED BY <1>2, <2>3, <2>4, <2>5, <2>6 DEF Next
<1> QED BY <1>0, <1>1, <1>2, CarefulInvariant, PTL DEF Spec

(***************************************************************************)
(* Once nothing is active or queued, the newest row's resulting_schema is  *)
(* the physical schema: however often complete died and was run again, and *)
(* whatever Starts failed before, the next migration starts from the       *)
(* schema that is there.                                                   *)
(***************************************************************************)
THEOREM BoundarySnapshotIsSchema ==
  ASSUME OneAtATime, ForwardOnly
  PROVE  Spec => []BoundarySnapshotClean
<1>1. SnapshotInv => BoundarySnapshotClean
  BY DEF SnapshotInv, CleanLeaf, BoundarySnapshotClean, Contracted
<1> QED BY <1>1, SnapshotInvariant, PTL


----------------------------------------------------------------------------
(* The snapshots that rollback and revert uncover.  The operator uses all  *)
(* commands; a process stops neither between the Complete operations of    *)
(* the active migration and the UPDATE that records them, nor before the   *)
(* seal that follows: a revert would uncover a row that was drained after  *)
(* its snapshot was taken.                                                 *)

RecordsAndSeals == RecordsCompletes /\ "reseal" \notin CrashAt

Below(n) == {k \in DOMAIN migrations : migrations[k].created <= migrations[n].created}

\* The rows that may become the newest: those of the window and, below it, the
\* newest one that is sealed.
Uncoverable(n) ==
  /\ migrations[n].done
  /\ migrations[n].sealed => \A k \in DOMAIN migrations : migrations[k].sealed => k \in Below(n)

\* No revert has begun to undo the row or one before it.
Intact(n) == \A k \in Below(n) : phys[k] \in Materialized

\* The row's snapshot is the schema that is left without the later rows.
Faithful(n) == snapshot[n] = [k \in Names |-> IF k \in Below(n) THEN phys[k] ELSE "absent"]

\* The steps from the end of the drain to the second seal.
Recording(s) == \/ s.at \in {"own", "done"} /\ ~InTrain(s)
                \/ s.at = "reproject" /\ ~Finishing(s)
                \/ s.at = "reseal"

UncoversFaithful ==
  ~HasSealedDeferred(migrations) /\ (\A p \in Procs : ~Recording(proc[p])) =>
    \A n \in DOMAIN migrations : Uncoverable(n) /\ Intact(n) => Faithful(n)

\* Only the last migration of a train drains the queue, and the second seal
\* finds the newest row's snapshot clean.
RecordOK(s) ==
  /\ RefreshesLeaf(s)
  /\ s.at = "reseal" => /\ ~IsActiveMigrationPeriod(migrations)
                        /\ \A n \in Leaves(migrations) : snapshot[n] = phys
  /\ InTrain(s) => s.at \in {"start", "insert", "ops", "views", "triggers", "backfill",
                             "active", "defer", "own", "done"}

(***************************************************************************)
(* The inductive invariant.                                                *)
(***************************************************************************)
UncoverInv == /\ CoverInv
              /\ UncoversFaithful
              /\ \A p \in Procs : RecordOK(proc[p])

(***************************************************************************)
(* What the invariant says of the process that takes a step.               *)
(***************************************************************************)
LEMMA UncoverFacts ==
  ASSUME UncoverInv, NEW p \in Procs
  PROVE  /\ CoverInv /\ UncoversFaithful /\ RecordOK(proc[p])
         /\ CarefulInv /\ SerialInv /\ NothingElse /\ CoverOK(proc[p])
         /\ ProcsOK /\ StateOK /\ DeployedTable(migrations)
         /\ proc[p] \in Process /\ QueueBounded(proc[p].queue)
         /\ SerialOK(proc[p]) /\ CarefulOK(proc[p])
         /\ proc[p].at \in Working => proc[p].cur \in Names
         /\ RowsConsistent(migrations) /\ DOMAIN migrations \subseteq Names
         /\ \A n \in DOMAIN migrations : migrations[n] \in Row
<1>1. CoverInv
  BY DEF UncoverInv
<1> QED BY <1>1, CoverFacts, CarefulFacts DEF UncoverInv

(***************************************************************************)
(* With one process, a step leaves the invariant when it leaves it for the *)
(* process that takes it.                                                  *)
(***************************************************************************)
LEMMA UncoverStep ==
  ASSUME OneAtATime, NEW p \in Procs, CoverInv', UncoversFaithful', RecordOK(proc[p])'
  PROVE  UncoverInv'
<1>1. \A q \in Procs : q = p
  BY DEF OneAtATime
<1> QED BY <1>1 DEF UncoverInv

(***************************************************************************)
(* A step that changes no row that may be uncovered, none before it and no *)
(* snapshot of it.                                                         *)
(***************************************************************************)
LEMMA FaithfulKept ==
  ASSUME OneAtATime, UncoversFaithful, NEW p \in Procs,
         ~HasSealedDeferred(migrations') /\ ~Recording(proc'[p]) =>
           ~HasSealedDeferred(migrations) /\ ~Recording(proc[p]),
         \A n \in DOMAIN migrations' :
           Uncoverable(n)' /\ Intact(n)' =>
             \/ Faithful(n)'
             \/ /\ n \in DOMAIN migrations /\ Uncoverable(n) /\ Below(n)' = Below(n)
                /\ snapshot'[n] = snapshot[n] /\ \A k \in Below(n) : phys'[k] = phys[k]
  PROVE  UncoversFaithful'
<1>1. \A q \in Procs : q = p
  BY DEF OneAtATime
<1>2. SUFFICES ASSUME ~HasSealedDeferred(migrations'), ~Recording(proc'[p]),
                      NEW n \in DOMAIN migrations', Uncoverable(n)', Intact(n)'
               PROVE  Faithful(n)'
  BY DEF UncoversFaithful
<1>3. SUFFICES ASSUME n \in DOMAIN migrations, Uncoverable(n), Below(n)' = Below(n),
                      snapshot'[n] = snapshot[n], \A k \in Below(n) : phys'[k] = phys[k]
               PROVE  Faithful(n)'
  BY <1>2
<1>4. Intact(n)
  BY <1>2, <1>3 DEF Intact
<1>5. Faithful(n)
  BY <1>1, <1>2, <1>3, <1>4 DEF UncoversFaithful
<1> QED BY <1>3, <1>5 DEF Faithful

(***************************************************************************)
(* A step that changes neither the table nor a snapshot nor the phases.    *)
(***************************************************************************)
LEMMA UncoverQuiet ==
  ASSUME OneAtATime, UncoverInv, CoverInv', NEW p \in Procs,
         UNCHANGED <<migrations, snapshot, phys>>, RecordOK(proc[p])',
         HasSealedDeferred(migrations) \/ ~Recording(proc[p]) \/ Recording(proc'[p])
  PROVE  UncoverInv'
<1>1. UncoversFaithful
  BY DEF UncoverInv
<1>2. \A n \in DOMAIN migrations' :
        /\ n \in DOMAIN migrations /\ (Uncoverable(n)' => Uncoverable(n))
        /\ Below(n)' = Below(n)
        /\ snapshot'[n] = snapshot[n] /\ \A k \in Below(n) : phys'[k] = phys[k]
  BY DEF Uncoverable, Below
<1>3. UncoversFaithful'
  BY <1>1, <1>2, FaithfulKept
<1> QED BY <1>3, UncoverStep

(***************************************************************************)
(* The active row is newer than what is done, so that its phases are in no *)
(* snapshot but its own.                                                   *)
(***************************************************************************)
LEMMA ActiveIsAbove ==
  ASSUME DeployedTable(migrations), NEW n \in ActiveMigrations(migrations),
         NEW k \in DOMAIN migrations, migrations[k].done
  PROVE  n \notin Below(k)
<1>1. /\ n \in DOMAIN migrations /\ n # k /\ InChainOrder(migrations)
      /\ migrations[k].created \in Nat /\ migrations[n].created \in Nat
  BY TimestampsAssumption DEF DeployedTable, TableOK, IsTable, Row, ActiveMigrations
<1>2. migrations[k].created <= migrations[n].created
  BY DEF DeployedTable, ActiveLast
<1>3. migrations[k].created # migrations[n].created
  BY <1>1 DEF InChainOrder, DistinctTimes
<1> QED BY <1>1, <1>2, <1>3 DEF Below

(***************************************************************************)
(* What is recorded is all there is: the schema is what the rows up to the *)
(* newest one have left.                                                   *)
(***************************************************************************)
LEMMA NewestSchema ==
  ASSUME DeployedTable(migrations), StateOK, NothingElse, NEW n \in Leaves(migrations)
  PROVE  /\ Below(n) = DOMAIN migrations
         /\ phys = [k \in Names |-> IF k \in Below(n) THEN phys[k] ELSE "absent"]
<1>1. n \in DOMAIN migrations /\ ~HasChild(migrations, n)
  BY DEF Leaves
<1>2. \A k \in DOMAIN migrations : migrations[k].created <= migrations[n].created
  BY <1>1, LeafIsLast DEF DeployedTable, TableOK
<1>3. Below(n) = DOMAIN migrations
  BY <1>2 DEF Below
<1> QED BY <1>3 DEF NothingElse, StateOK

(***************************************************************************)
(* A process at a step that neither drains nor seals.                      *)
(***************************************************************************)
LEMMA RecordRests ==
  ASSUME NEW p \in Procs,
         \/ proc'[p].at \in {"start", "insert", "ops", "views", "triggers", "backfill",
                             "active", "defer", "own", "done"}
         \/ /\ ~InTrain(proc'[p])
            /\ proc'[p].at \in {"idle", "queue", "stamp", "cleanup", "leaf", "dropVersion",
                                "undo", "delete"}
         \/ /\ ~InTrain(proc'[p]) /\ ~Finishing(proc'[p])
            /\ proc'[p].at \in {"dropOld", "seal", "dropLive", "drain", "clear", "reproject"}
  PROVE  RecordOK(proc[p])'
BY DEF RecordOK, RefreshesLeaf, Queued, Draining, Finishing, InTrain, First

(***************************************************************************)
(* A process that ends its command, or moves to another step of it.        *)
(***************************************************************************)
LEMMA RecordMoves ==
  ASSUME ProcsOK, NEW p \in Procs
  PROVE  /\ Return(p) => RecordOK(proc[p])' /\ ~Recording(proc'[p])
         /\ \A step : Goto(p, step) =>
              /\ InTrain(proc'[p]) = InTrain(proc[p])
              /\ Finishing(proc'[p]) = Finishing(proc[p])
<1>1. ASSUME Return(p) PROVE RecordOK(proc[p])' /\ ~Recording(proc'[p])
  <2>1. proc'[p].at = "idle" /\ ~InTrain(proc'[p])
    BY <1>1, Becomes DEF InTrain
  <2> QED BY <2>1, RecordRests DEF Recording
<1>2. ASSUME NEW step, Goto(p, step)
      PROVE  /\ InTrain(proc'[p]) = InTrain(proc[p])
             /\ Finishing(proc'[p]) = Finishing(proc[p])
  BY <1>2, GotoKeeps DEF InTrain, Finishing
<1> QED BY <1>1, <1>2

(***************************************************************************)
(* A command begins, Start fails, or the process dies.                     *)
(***************************************************************************)
LEMMA CommandKeepsUncover ==
  ASSUME OneAtATime, RecordsAndSeals, UncoverInv, CoverInv', NEW p \in Procs,
         Command(p) \/ StartFails(p) \/ Crash(p)
  PROVE  UncoverInv'
<1>0. ProcsOK /\ DeployedTable(migrations)
  BY UncoverFacts
<1>1. UNCHANGED <<migrations, snapshot, phys>>
  BY DEF Command, StartFails, Crash, MigrateBegin, MigrateAwaiting, CompleteBegin,
         FinishBegin, RollbackBegin, RevertBegin, db
<1>2. ~Recording(proc[p])
  BY DEF Command, StartFails, Crash, MigrateBegin, MigrateAwaiting, CompleteBegin,
         FinishBegin, RollbackBegin, RevertBegin, Free, At, RecordsAndSeals,
         RecordsCompletes, OwnSteps, Recording
<1>3. SUFFICES RecordOK(proc[p])'
  BY <1>1, <1>2, UncoverQuiet
<1>4. \A s : Become(p, s) => proc'[p] = s
  BY <1>0, Becomes
<1>5. CASE Return(p)
  BY <1>0, <1>5, RecordMoves
<1>6. ASSUME NEW names, NEW converge, MigrateBegin(p, names, converge)
      PROVE  RecordOK(proc[p])'
  <2>1. proc'[p].at = "start"
    BY <1>4, <1>6 DEF MigrateBegin, Idle
  <2> QED BY <2>1, RecordRests
<1>7. ASSUME NEW n, MigrateAwaiting(p, n) \/ CompleteBegin(p, n) PROVE RecordOK(proc[p])'
  <2>1. proc'[p].at = "active"
    BY <1>4, <1>7 DEF MigrateAwaiting, CompleteBegin, Idle
  <2> QED BY <2>1, RecordRests
<1>8. ASSUME NEW n, Become(p, [Idle EXCEPT !.at = "dropVersion", !.verb = "rollback", !.cur = n])
      PROVE  RecordOK(proc[p])'
  <2>1. proc'[p].at = "dropVersion" /\ proc'[p].todo = {}
    BY <1>4, <1>8 DEF Idle
  <2> QED BY <2>1, RecordRests DEF InTrain
<1>9. ASSUME NEW n, RevertBegin(p, n) PROVE RecordOK(proc[p])'
  <2> DEFINE window  == UnsealedMigrations(migrations)
             targets == {k \in window : migrations[k].created >= migrations[n].created}
             applied == {k \in targets : migrations[k].done /\ ~migrations[k].deferred}
             queue   == ByCreation(targets)
             cur     == Newest(queue)
  <2>1. Become(p, [Idle EXCEPT !.at = "dropVersion", !.verb = "revert", !.cur = cur,
                     !.queue = queue, !.applied = applied])
    BY <1>9 DEF RevertBegin
  <2> HIDE DEF applied, queue, cur
  <2>2. proc'[p].at = "dropVersion" /\ proc'[p].todo = {}
    BY <1>4, <2>1 DEF Idle
  <2> QED BY <2>2, RecordRests DEF InTrain
<1>10. ASSUME NEW force, FinishBegin(p, force) PROVE RecordOK(proc[p])'
  <2> DEFINE queue == ByCreation(DeferredCompletes(migrations))
             live  == LatestMigration(migrations)
             drops == DOMAIN queue \cap OnCompleteSQL # {}
  <2>1. CASE Become(p, [Idle EXCEPT !.at = "stamp", !.verb = "finish"])
    <3>1. proc'[p].at = "stamp" /\ proc'[p].todo = {}
      BY <1>4, <2>1 DEF Idle
    <3> QED BY <3>1, RecordRests DEF InTrain
  <2>2. CASE /\ DOMAIN queue # {}
             /\ Become(p, [Idle EXCEPT !.at = "seal", !.verb = "finish", !.cur = live,
                             !.queue = queue, !.dropLive = drops])
    <3>1. DOMAIN migrations # {}
      BY <2>2 DEF ByCreation, DeferredCompletes
    <3>2. live \in Leaves(migrations)
      BY <1>0, <3>1, LatestIsNewest
    <3> HIDE DEF queue, live, drops
    <3>3. proc'[p].at = "seal" /\ proc'[p].cur = live /\ proc'[p].todo = {}
      BY <1>4, <2>2 DEF Idle
    <3> QED BY <1>1, <3>2, <3>3 DEF RecordOK, RefreshesLeaf, InTrain
  <2> QED BY <1>10, <2>1, <2>2 DEF FinishBegin
<1> QED BY <1>5, <1>6, <1>7, <1>8, <1>9, <1>10 DEF Command, StartFails, Crash, RollbackBegin

(***************************************************************************)
(* A step that changes the phase of the active migration only.             *)
(***************************************************************************)
LEMMA ActivePhase ==
  ASSUME OneAtATime, UncoversFaithful, DeployedTable(migrations),
         DOMAIN migrations \subseteq Names, NEW p \in Procs,
         ~Recording(proc[p]) \/ Recording(proc'[p]), UNCHANGED <<migrations, snapshot>>,
         NEW n \in ActiveMigrations(migrations), \A k \in Names \ {n} : phys'[k] = phys[k]
  PROVE  UncoversFaithful'
<1>1. ASSUME NEW k \in DOMAIN migrations', Uncoverable(k)'
      PROVE  /\ k \in DOMAIN migrations /\ Uncoverable(k) /\ Below(k)' = Below(k)
             /\ snapshot'[k] = snapshot[k] /\ \A j \in Below(k) : phys'[j] = phys[j]
  <2>1. k \in DOMAIN migrations /\ Uncoverable(k) /\ Below(k)' = Below(k)
    BY <1>1 DEF Uncoverable, Below
  <2>2. n \notin Below(k)
    BY <2>1, ActiveIsAbove DEF Uncoverable
  <2> QED BY <2>1, <2>2 DEF Below
<1> QED BY <1>1, FaithfulKept

(***************************************************************************)
(* The steps of Start change the phase of a migration that is not done.    *)
(***************************************************************************)
LEMMA StartKeepsUncover ==
  ASSUME OneAtATime, UncoverInv, CoverInv', NEW p \in Procs,
         \/ StartBegin(p) \/ Start(p) \/ StartOperations(p) \/ EnsureViews(p)
         \/ CreateTriggers(p) \/ Backfill(p)
  PROVE  UncoverInv'
<1> DEFINE n == proc[p].cur
<1>0. /\ SerialInv /\ UncoversFaithful /\ ProcsOK /\ StateOK /\ DeployedTable(migrations)
      /\ SerialOK(proc[p]) /\ DOMAIN migrations \subseteq Names
  BY UncoverFacts
<1>1. proc[p].at \in {"start", "insert", "ops", "views", "triggers", "backfill"}
  BY DEF StartBegin, Start, StartOperations, EnsureViews, CreateTriggers, Backfill, At
<1>2. ~Recording(proc[p])
  BY <1>1 DEF Recording
<1>3. CASE StartBegin(p)
  <2>1. UNCHANGED <<migrations, snapshot, phys>> /\ (Return(p) \/ Goto(p, "insert"))
    BY <1>3 DEF StartBegin, db
  <2>2. RecordOK(proc[p])'
    BY <1>0, <2>1, RecordMoves, GotoKeeps, RecordRests
  <2> QED BY <1>2, <2>1, <2>2, UncoverQuiet
<1>4. CASE Start(p)
  <2>1. CASE UNCHANGED <<migrations, snapshot, phys>> /\ Return(p)
    BY <1>0, <1>2, <2>1, RecordMoves, UncoverQuiet
  <2>2. CASE /\ UNCHANGED <<snapshot, phys>> /\ Goto(p, "ops")
             /\ n \in Names /\ n \notin DOMAIN migrations
             /\ DOMAIN migrations' = DOMAIN migrations \cup {n}
             /\ \A k \in DOMAIN migrations : migrations'[k] = migrations[k]
             /\ ~migrations'[n].done /\ ~migrations'[n].deferred /\ ~migrations'[n].sealed
    <3>1. n \in ActiveMigrations(migrations') /\ DeployedTable(migrations')
      BY <2>2 DEF ActiveMigrations, CoverInv, CarefulInv, SerialInv, IInv
    <3>2. ASSUME NEW k \in DOMAIN migrations', Uncoverable(k)'
          PROVE  /\ k \in DOMAIN migrations /\ Uncoverable(k) /\ Below(k)' = Below(k)
      <4>1. migrations'[k].done
        BY <3>2 DEF Uncoverable
      <4>2. k # n /\ k \in DOMAIN migrations
        BY <2>2, <4>1
      <4>3. ~(migrations'[n].created <= migrations'[k].created)
        <5>1. /\ migrations'[k].created <= migrations'[n].created
              /\ migrations'[k].created # migrations'[n].created
          BY <2>2, <3>1, <4>2
             DEF DeployedTable, ActiveLast, TableOK, InChainOrder, DistinctTimes
        <5>2. migrations'[k].created \in Nat /\ migrations'[n].created \in Nat
          BY <2>2, <3>1, TimestampsAssumption DEF DeployedTable, TableOK, IsTable, Row
        <5> QED BY <5>1, <5>2
      <4>4. Below(k)' = Below(k)
        BY <2>2, <4>2, <4>3 DEF Below
      <4>5. Uncoverable(k)
        BY <2>2, <3>2, <4>2, <4>4 DEF Uncoverable
      <4> QED BY <4>2, <4>4, <4>5
    <3>3. HasSealedDeferred(migrations') <=> HasSealedDeferred(migrations)
      BY <2>2 DEF HasSealedDeferred
    <3>4. UncoversFaithful'
      BY <1>0, <1>2, <2>2, <3>2, <3>3, FaithfulKept
    <3>5. RecordOK(proc[p])'
      BY <1>0, <2>2, GotoKeeps, RecordRests
    <3> QED BY <3>4, <3>5, UncoverStep
  <2> QED BY <1>0, <1>4, <2>1, <2>2, StartAdds
<1>5. CASE StartOperations(p) \/ EnsureViews(p) \/ CreateTriggers(p) \/ Backfill(p)
  <2>1. UNCHANGED <<migrations, snapshot>> /\ n \in ActiveMigrations(migrations) /\ n \in Names
    BY <1>0, <1>5
       DEF StartOperations, CreateTriggers, Backfill, EnsureViews, At, SerialOK, ForwardOK,
           OnActive, ActiveMigrations
  <2>2. \A k \in Names \ {n} : phys'[k] = phys[k]
    BY <1>0, <1>5, <2>1
       DEF StartOperations, CreateTriggers, Backfill, EnsureViews, StateOK
  <2>3. \/ UNCHANGED proc /\ proc[p].at = "ops"
        \/ \E step \in {"views", "triggers", "backfill", "active"} : Goto(p, step)
        \/ Return(p)
    BY <1>0, <1>5, <2>1
       DEF StartOperations, CreateTriggers, Backfill, EnsureViews, AfterViews, AfterStart,
           At, StateOK
  <2>4. RecordOK(proc[p])'
    BY <1>0, <2>3, RecordMoves, GotoKeeps, RecordRests
  <2>5. UncoversFaithful'
    BY <1>0, <1>2, <2>1, <2>2, ActivePhase
  <2> QED BY <2>4, <2>5, UncoverStep
<1> QED BY <1>3, <1>4, <1>5

(***************************************************************************)
(* The steps that read the history or project version schemas.             *)
(***************************************************************************)
LEMMA MoveKeepsUncover ==
  ASSUME OneAtATime, UncoverInv, CoverInv', NEW p \in Procs,
         \/ GetActiveMigration(p) \/ DropOldSchemas(p) \/ ReadQueue(p) \/ DropLiveSchema(p)
         \/ Reproject(p) \/ CleanUpSchemas(p) \/ EnsureLeafVersionSchema(p)
         \/ DropVersionSchema(p)
  PROVE  UncoverInv'
<1>0. ProcsOK /\ SerialOK(proc[p]) /\ RecordOK(proc[p])
  BY UncoverFacts
<1>1. UNCHANGED <<migrations, snapshot, phys>>
  BY DEF GetActiveMigration, DropOldSchemas, ReadQueue, DropLiveSchema, Reproject,
         CleanUpSchemas, EnsureLeafVersionSchema, DropVersionSchema, db
<1>2. ~Recording(proc[p]) \/ Reproject(p)
  BY DEF GetActiveMigration, DropOldSchemas, ReadQueue, DropLiveSchema, CleanUpSchemas,
         EnsureLeafVersionSchema, DropVersionSchema, At, Recording
<1>3. ASSUME RecordOK(proc[p])', ~Reproject(p) PROVE UncoverInv'
  BY <1>1, <1>2, <1>3, UncoverQuiet
<1>4. ASSUME Return(p), ~Reproject(p) PROVE UncoverInv'
  BY <1>0, <1>3, <1>4, RecordMoves
<1>5. ASSUME ~At(p, "reproject") PROVE ~Reproject(p)
  BY <1>5 DEF Reproject
<1>6. CASE GetActiveMigration(p)
  <2> DEFINE at == IF Intermediate(p)
                   THEN IF First(proc[p].todo) \in Destructive THEN "defer" ELSE "own"
                   ELSE IF versionSchemas THEN "dropOld" ELSE "queue"
  <2>0. ~Reproject(p)
    BY <1>5, <1>6 DEF GetActiveMigration, At
  <2>1. CASE \E k \in ActiveMigrations(migrations) :
               Become(p, [proc[p] EXCEPT !.cur = k, !.at = at])
    <3>1. /\ at \in {"defer", "own"} \/ (~InTrain(proc[p]) /\ at \in {"dropOld", "queue"})
          /\ ~Finishing(proc[p])
      BY <1>0, <1>6 DEF GetActiveMigration, At, SerialOK, ForwardOK, Intermediate, InTrain
    <3> HIDE DEF at
    <3>2. /\ proc'[p].at = at /\ proc'[p].verb = proc[p].verb /\ proc'[p].todo = proc[p].todo
      BY <1>0, <2>1 DEF Become, ProcsOK, Process
    <3>3. ~Finishing(proc'[p]) /\ (InTrain(proc'[p]) <=> InTrain(proc[p]))
      BY <3>1, <3>2 DEF Finishing, InTrain
    <3>4. RecordOK(proc[p])'
      BY <3>1, <3>2, <3>3, RecordRests
    <3> QED BY <1>3, <2>0, <3>4
  <2> QED BY <1>4, <1>6, <2>0, <2>1 DEF GetActiveMigration
<1>7. CASE ReadQueue(p)
  <2> DEFINE queue == ByCreation(DeferredCompletes(migrations))
             drops == ({proc[p].cur} \cup DOMAIN queue) \cap OnCompleteSQL # {}
             at == IF DOMAIN queue = {} THEN "own" ELSE "seal"
  <2>1. /\ Become(p, [proc[p] EXCEPT !.at = at, !.queue = queue, !.dropLive = drops])
        /\ at \in {"own", "seal"} /\ proc[p].at = "queue"
    BY <1>7 DEF ReadQueue, At
  <2> HIDE DEF queue, drops, at
  <2>2. ~Finishing(proc[p]) /\ ~InTrain(proc[p])
    BY <1>0, <2>1 DEF SerialOK, ForwardOK, RecordOK
  <2>3. /\ proc'[p].at = at /\ proc'[p].verb = proc[p].verb /\ proc'[p].todo = proc[p].todo
    BY <1>0, <2>1 DEF Become, ProcsOK, Process
  <2>4. ~Finishing(proc'[p]) /\ ~InTrain(proc'[p])
    BY <2>2, <2>3 DEF Finishing, InTrain
  <2>5. RecordOK(proc[p])'
    BY <2>1, <2>3, <2>4, RecordRests
  <2> QED BY <1>3, <1>5, <2>1, <2>5 DEF At
<1>8. CASE DropOldSchemas(p) \/ DropLiveSchema(p)
  <2>1. /\ proc[p].at \in {"dropOld", "dropLive"}
        /\ \/ Return(p)
           \/ \E step \in {"queue", "dropLive", "drain"} : Goto(p, step)
    BY <1>8 DEF DropOldSchemas, DropLiveSchema, At
  <2>2. CASE \E step \in {"queue", "dropLive", "drain"} : Goto(p, step)
    <3>1. /\ proc'[p].at \in {"queue", "dropLive", "drain"} /\ proc'[p].cur = proc[p].cur
          /\ proc'[p].verb = proc[p].verb /\ proc'[p].todo = proc[p].todo
      BY <1>0, <2>2, GotoKeeps
    <3>2. RecordOK(proc[p])'
      BY <1>0, <1>1, <2>1, <3>1
         DEF RecordOK, RefreshesLeaf, Queued, Draining, Finishing, InTrain
    <3> QED BY <1>3, <1>5, <2>1, <3>2 DEF At
  <2> QED BY <1>4, <1>5, <2>1, <2>2 DEF At
<1>9. CASE Reproject(p)
  <2>1. /\ proc[p].at = "reproject"
        /\ Goto(p, IF proc[p].verb = "finish" THEN "clear" ELSE "done")
    BY <1>9 DEF Reproject, At
  <2>2. /\ proc'[p].at = IF proc[p].verb = "finish" THEN "clear" ELSE "done"
        /\ proc'[p].cur = proc[p].cur /\ proc'[p].queue = proc[p].queue
        /\ proc'[p].verb = proc[p].verb /\ proc'[p].todo = proc[p].todo
    BY <1>0, <2>1, GotoKeeps
  <2>3. RecordOK(proc[p])'
    BY <1>0, <1>1, <2>1, <2>2
       DEF RecordOK, RefreshesLeaf, Queued, Draining, Finishing, InTrain
  <2>4. Recording(proc[p]) => Recording(proc'[p])
    BY <1>0, <2>1, <2>2 DEF Recording, RecordOK, Finishing, InTrain
  <2> QED BY <1>1, <2>3, <2>4, UncoverQuiet
<1>10. CASE CleanUpSchemas(p) \/ EnsureLeafVersionSchema(p)
  BY <1>4, <1>5, <1>10 DEF CleanUpSchemas, EnsureLeafVersionSchema, At
<1>11. CASE DropVersionSchema(p)
  <2>1. proc[p].at = "dropVersion" /\ Goto(p, "undo")
    BY <1>11 DEF DropVersionSchema, At
  <2>2. proc'[p].at = "undo" /\ ~InTrain(proc'[p])
    BY <1>0, <2>1, GotoKeeps DEF RecordOK, InTrain
  <2>3. RecordOK(proc[p])'
    BY <2>2, RecordRests
  <2> QED BY <1>3, <1>5, <2>1, <2>3 DEF At
<1> QED BY <1>6, <1>7, <1>8, <1>9, <1>10, <1>11

(***************************************************************************)
(* The seals.  The first one makes the queue sealed; after the others only *)
(* the newest row that is done may still be uncovered.                     *)
(***************************************************************************)
LEMMA SealKeepsUncover ==
  ASSUME OneAtATime, UncoverInv, CoverInv', NEW p \in Procs,
         SealBeforeDrain(p) \/ SealAfterComplete(p) \/ SealOpenWindow(p)
  PROVE  UncoverInv'
<1>0. /\ UncoversFaithful /\ RecordOK(proc[p]) /\ NothingElse /\ ProcsOK /\ StateOK
      /\ DeployedTable(migrations) /\ SerialOK(proc[p]) /\ CarefulOK(proc[p])
      /\ RowsConsistent(migrations) /\ \A k \in DOMAIN migrations : migrations[k] \in Row
  BY UncoverFacts
<1>1. /\ UNCHANGED <<snapshot, phys>> /\ migrations' = MarkedSealed(migrations)
      /\ proc[p].at \in {"seal", "reseal", "stamp"}
  BY DEF SealBeforeDrain, SealAfterComplete, SealOpenWindow, At
<1>2. /\ DOMAIN migrations' = DOMAIN migrations
      /\ \A k \in DOMAIN migrations :
           /\ migrations'[k].done = migrations[k].done
           /\ migrations'[k].deferred = migrations[k].deferred
           /\ migrations'[k].sealed = (migrations[k].sealed \/ migrations[k].done)
           /\ migrations'[k].parent = migrations[k].parent
           /\ migrations'[k].created = migrations[k].created
  BY <1>0, <1>1, SealedRows
<1>3. \A k \in DOMAIN migrations : Below(k)' = Below(k)
  BY <1>2 DEF Below
<1>4. Leaves(migrations') = Leaves(migrations)
  BY <1>2, LatestKept
<1>5. ASSUME ~HasSealedDeferred(migrations') PROVE ~HasSealedDeferred(migrations)
  BY <1>2, <1>5 DEF HasSealedDeferred
<1>6. CASE SealBeforeDrain(p)
  <2>1. \E step \in {"drain", "dropOld", "dropLive"} : Goto(p, step)
    BY <1>6 DEF SealBeforeDrain
  <2>2. proc[p].at = "seal"
    BY <1>6 DEF SealBeforeDrain, At
  <2>3. HasSealedDeferred(migrations')
    <3>1. PICK k \in DOMAIN proc[p].queue : k \in DeferredCompletes(migrations)
      BY <1>0, <2>2 DEF SerialOK, DrainOK, CarefulOK, QueueOK, Queued
    <3> QED BY <1>0, <1>2, <3>1 DEF HasSealedDeferred, DeferredCompletes, RowsConsistent
  <2>4. /\ proc'[p].at \in {"drain", "dropOld", "dropLive"} /\ proc'[p].cur = proc[p].cur
        /\ proc'[p].verb = proc[p].verb /\ proc'[p].todo = proc[p].todo
    BY <1>0, <2>1, GotoKeeps
  <2>5. RecordOK(proc[p])'
    BY <1>0, <1>4, <2>2, <2>4
       DEF RecordOK, RefreshesLeaf, Queued, Draining, Finishing, InTrain
  <2>6. UncoversFaithful'
    BY <2>3 DEF UncoversFaithful
  <2> QED BY <2>5, <2>6, UncoverStep
<1>7. CASE SealAfterComplete(p)
  <2>1. proc[p].at = "reseal" /\ Return(p)
    BY <1>7 DEF SealAfterComplete, At
  <2>2. /\ \A k \in DOMAIN migrations : migrations[k].done
        /\ \A k \in Leaves(migrations) : snapshot[k] = phys
    BY <1>0, <2>1 DEF RecordOK, IsActiveMigrationPeriod, ActiveMigrations
  <2>3. ASSUME NEW k \in DOMAIN migrations', Uncoverable(k)' PROVE Faithful(k)'
    <3>1. \A j \in DOMAIN migrations : j \in Below(k)
      <4>1. \A j \in DOMAIN migrations : migrations'[j].sealed
        BY <1>2, <2>2
      <4>2. \A j \in DOMAIN migrations' : migrations'[j].sealed => j \in Below(k)'
        BY <1>2, <2>3, <4>1 DEF Uncoverable
      <4> QED BY <1>2, <1>3, <4>1, <4>2
    <3>2. k \in Leaves(migrations)
      <4> DEFINE live == LatestMigration(migrations)
      <4>1. /\ live \in Leaves(migrations) /\ live \in DOMAIN migrations
            /\ migrations[k].created <= migrations[live].created
        BY <1>0, <1>2, LatestIsNewest
      <4> HIDE DEF live
      <4>2. migrations[live].created <= migrations[k].created
        BY <3>1, <4>1 DEF Below
      <4>3. migrations[k].created \in Nat /\ migrations[live].created \in Nat
        BY <1>0, <1>2, <4>1, TimestampsAssumption DEF Row
      <4>4. migrations[k].created = migrations[live].created
        BY <4>1, <4>2, <4>3
      <4>5. k = live
        BY <1>0, <1>2, <4>1, <4>4 DEF DeployedTable, TableOK, InChainOrder, DistinctTimes
      <4> QED BY <4>1, <4>5
    <3>3. snapshot[k] = [j \in Names |-> IF j \in Below(k) THEN phys[j] ELSE "absent"]
      BY <1>0, <2>2, <3>2, NewestSchema
    <3> QED BY <1>1, <1>2, <1>3, <3>3 DEF Faithful
  <2>4. UncoversFaithful'
    BY <2>3 DEF UncoversFaithful
  <2> QED BY <1>0, <2>1, <2>4, RecordMoves, UncoverStep
<1>8. CASE SealOpenWindow(p)
  <2>1. proc[p].at = "stamp" /\ (Return(p) \/ Goto(p, "cleanup"))
    BY <1>8 DEF SealOpenWindow, At
  <2>2. ASSUME NEW k \in DOMAIN migrations', Uncoverable(k)' PROVE Uncoverable(k)
    BY <1>0, <1>2, <1>3, <2>2 DEF Uncoverable, RowsConsistent
  <2>3. ~Recording(proc[p])
    BY <2>1 DEF Recording
  <2>4. UncoversFaithful'
    BY <1>0, <1>1, <1>2, <1>3, <1>5, <2>2, <2>3, FaithfulKept
  <2>5. CASE Goto(p, "cleanup")
    <3>1. proc'[p].at = "cleanup" /\ ~InTrain(proc'[p])
      BY <1>0, <2>1, <2>5, GotoKeeps DEF RecordOK, InTrain
    <3>2. RecordOK(proc[p])'
      BY <3>1, RecordRests
    <3> QED BY <2>4, <3>2, UncoverStep
  <2> QED BY <1>0, <2>1, <2>4, <2>5, RecordMoves, UncoverStep
<1> QED BY <1>6, <1>7, <1>8

(***************************************************************************)
(* A migration is done: its snapshot is the schema.                        *)
(***************************************************************************)
LEMMA DoneKeepsUncover ==
  ASSUME OneAtATime, UncoverInv, CoverInv', NEW p \in Procs,
         MarkCompleteDeferred(p) \/ Complete(p)
  PROVE  UncoverInv'
<1>0. /\ UncoversFaithful /\ RecordOK(proc[p]) /\ NothingElse /\ ProcsOK /\ StateOK
      /\ DeployedTable(migrations) /\ SerialOK(proc[p]) /\ DOMAIN migrations \subseteq Names
      /\ RowsConsistent(migrations) /\ \A k \in DOMAIN migrations : migrations[k] \in Row
  BY UncoverFacts
<1>1. PICK n \in ActiveMigrations(migrations) : n = proc[p].cur /\ n \in DOMAIN migrations
  BY <1>0 DEF MarkCompleteDeferred, Complete, At, SerialOK, ForwardOK, OnActive,
              ActiveMigrations
<1>2. /\ migrations' \in {MarkedDeferred(migrations, n), Completed(migrations, n)}
      /\ UNCHANGED phys /\ snapshot' = [snapshot EXCEPT ![n] = phys]
      /\ \/ NextMigration(p) /\ ~Recording(proc[p])
         \/ ~InTrain(proc[p]) /\ Goto(p, "reseal")
  BY <1>1 DEF MarkCompleteDeferred, Complete, At, Recording, Intermediate, InTrain
<1>3. /\ DOMAIN migrations' = DOMAIN migrations
      /\ \A k \in DOMAIN migrations \ {n} : migrations'[k] = migrations[k]
      /\ migrations'[n].done /\ migrations'[n].parent = migrations[n].parent
      /\ migrations'[n].sealed = migrations[n].sealed
      /\ migrations'[n].created = migrations[n].created
  BY <1>0, <1>1, <1>2, UpdatedRows
<1>4. \A k \in DOMAIN migrations : Below(k)' = Below(k)
  BY <1>3 DEF Below
<1>5. Leaves(migrations') = {n} /\ Leaves(migrations) = {n}
  <2>1. Leaves(migrations) = {n}
    BY <1>0, <1>1, LatestIsNewest
  <2> QED BY <1>3, <2>1, LatestKept
<1>6. UncoversFaithful'
  <2>1. CASE Goto(p, "reseal")
    BY <1>0, <2>1, GotoKeeps DEF UncoversFaithful, Recording
  <2>2. CASE NextMigration(p) /\ ~Recording(proc[p])
    <3>1. ASSUME ~HasSealedDeferred(migrations') PROVE ~HasSealedDeferred(migrations)
      BY <1>0, <1>1, <1>3, <3>1 DEF HasSealedDeferred, RowsConsistent, ActiveMigrations
    <3>2. Faithful(n)'
      <4>1. phys = [j \in Names |-> IF j \in Below(n) THEN phys[j] ELSE "absent"]
        BY <1>0, <1>5, NewestSchema
      <4>2. snapshot'[n] = phys
        BY <1>0, <1>1, <1>2 DEF StateOK
      <4> QED BY <1>1, <1>2, <1>4, <4>1, <4>2 DEF Faithful
    <3>3. ASSUME NEW k \in DOMAIN migrations', k # n, Uncoverable(k)'
          PROVE  /\ k \in DOMAIN migrations /\ Uncoverable(k) /\ Below(k)' = Below(k)
                 /\ snapshot'[k] = snapshot[k]
      <4>1. k \in DOMAIN migrations /\ Below(k)' = Below(k) /\ snapshot'[k] = snapshot[k]
        BY <1>0, <1>2, <1>3, <1>4, <3>3 DEF StateOK
      <4>2. Uncoverable(k)
        BY <1>1, <1>3, <3>3, <4>1 DEF Uncoverable
      <4> QED BY <4>1, <4>2
    <3> QED BY <1>0, <1>2, <2>2, <3>1, <3>2, <3>3, FaithfulKept
  <2> QED BY <1>2, <2>1, <2>2
<1>7. RecordOK(proc[p])'
  <2>1. CASE Goto(p, "reseal") /\ ~InTrain(proc[p])
    <3>1. proc'[p].at = "reseal" /\ ~InTrain(proc'[p])
      BY <1>0, <2>1, GotoKeeps DEF InTrain
    <3>2. ~IsActiveMigrationPeriod(migrations')
      BY <1>0, <1>1, <1>3
         DEF IsActiveMigrationPeriod, ActiveMigrations, RowsConsistent, OnlyOneActive
    <3>3. \A k \in Leaves(migrations') : snapshot'[k] = phys'
      BY <1>0, <1>1, <1>2, <1>5 DEF StateOK
    <3> QED BY <3>1, <3>2, <3>3 DEF RecordOK, RefreshesLeaf, Queued, Draining
  <2> QED BY <1>0, <1>2, <2>1, NextKeeps, RecordMoves, RecordRests
<1> QED BY <1>6, <1>7, UncoverStep


(***************************************************************************)
(* The Complete operations: those of the queue run while it is not empty,  *)
(* those of the active migration touch no snapshot.                        *)
(***************************************************************************)
LEMMA ContractKeepsUncover ==
  ASSUME OneAtATime, UncoverInv, CoverInv', NEW p \in Procs,
         ApplyDeferredComplete(p) \/ CompleteOperations(p)
  PROVE  UncoverInv'
<1>0. /\ UncoversFaithful /\ RecordOK(proc[p]) /\ ProcsOK /\ StateOK
      /\ DeployedTable(migrations) /\ proc[p] \in Process /\ QueueBounded(proc[p].queue)
      /\ SerialOK(proc[p]) /\ CarefulOK(proc[p])
      /\ RowsConsistent(migrations) /\ DOMAIN migrations \subseteq Names
  BY UncoverFacts
<1>1. UNCHANGED <<migrations, snapshot>>
  BY DEF ApplyDeferredComplete, CompleteOperations
<1>2. CASE ApplyDeferredComplete(p)
  <2> DEFINE n == Oldest(proc[p].queue)
             last == proc[p].verb = "finish" /\ DOMAIN proc[p].queue = {n}
             step == IF last THEN "refresh" ELSE "clear"
  <2>1. proc[p].at = "drain" /\ Contract(p, n, step) /\ ~InTrain(proc[p])
    BY <1>0, <1>2 DEF ApplyDeferredComplete, At, RecordOK
  <2>2. /\ DOMAIN proc[p].queue # {} /\ Settled
        /\ DOMAIN proc[p].queue \subseteq DeferredCompletes(migrations)
        /\ \A k \in DeferredCompletes(migrations) : migrations[k].sealed
    BY <1>0, <2>1 DEF SerialOK, DrainOK, Draining, CarefulOK, QueueOK, Queued, Forward
  <2>3. n \in DOMAIN proc[p].queue /\ n \in Names
    BY <1>0, <2>2, NewestOK DEF Process
  <2>4. /\ n \in DOMAIN migrations /\ phys[n] \in Materialized
        /\ HasSealedDeferred(migrations)
    BY <1>0, <2>2, <2>3 DEF Settled, DeferredCompletes, RowsConsistent, HasSealedDeferred
  <2>5. UNCHANGED proc \/ Goto(p, step)
    BY <1>0, <2>1, <2>3, <2>4, Contracts
  <2>6. UncoversFaithful'
    BY <1>1, <2>4 DEF UncoversFaithful
  <2>7. /\ proc'[p].at \in {"drain", step} /\ proc'[p].cur = proc[p].cur
        /\ proc'[p].verb = proc[p].verb /\ proc'[p].queue = proc[p].queue
        /\ proc'[p].todo = proc[p].todo
    BY <1>0, <2>1, <2>5, GotoKeeps
  <2>8. RecordOK(proc[p])'
    BY <1>0, <1>1, <2>1, <2>7
       DEF RecordOK, RefreshesLeaf, Queued, Draining, Finishing, Last, InTrain
  <2> QED BY <2>6, <2>8, UncoverStep
<1>3. CASE CompleteOperations(p)
  <2> DEFINE recreate == /\ versionSchemas /\ ~Intermediate(p)
                         /\ proc[p].dropLive \/ proc[p].cur \in RawSQL
             step == IF recreate THEN "reproject" ELSE "done"
  <2>1. /\ proc[p].at = "own" /\ Contract(p, proc[p].cur, step)
        /\ step \in {"reproject", "done"} /\ (step = "reproject" => ~InTrain(proc[p]))
    BY <1>3 DEF CompleteOperations, At, Intermediate, InTrain
  <2> HIDE DEF step
  <2>2. PICK n \in ActiveMigrations(migrations) : n = proc[p].cur /\ n \in DOMAIN migrations
    BY <1>0, <2>1 DEF SerialOK, ForwardOK, OnActive, ActiveMigrations
  <2>3. phys[n] \in Materialized /\ ~Finishing(proc[p])
    BY <1>0, <2>1, <2>2 DEF SerialOK, ForwardOK, CarefulOK, ExpandOK, Completing
  <2>4. /\ \A k \in Names \ {n} : phys'[k] = phys[k]
        /\ UNCHANGED proc \/ Goto(p, step)
    BY <1>0, <2>1, <2>2, <2>3, Contracts
  <2>5. /\ proc'[p].at \in {"own", step} /\ proc'[p].verb = proc[p].verb
        /\ proc'[p].todo = proc[p].todo
    BY <1>0, <2>1, <2>4, GotoKeeps
  <2>6. /\ ~Finishing(proc'[p]) /\ (InTrain(proc'[p]) <=> InTrain(proc[p]))
    BY <2>3, <2>5 DEF Finishing, InTrain
  <2>7. Recording(proc[p]) => Recording(proc'[p])
    BY <2>1, <2>5, <2>6 DEF Recording
  <2>8. UncoversFaithful'
    BY <1>0, <1>1, <2>2, <2>4, <2>7, ActivePhase
  <2>9. RecordOK(proc[p])'
    BY <2>1, <2>5, <2>6, RecordRests
  <2> QED BY <2>8, <2>9, UncoverStep
<1> QED BY <1>2, <1>3

(***************************************************************************)
(* The drain ends in the steps that record it.                             *)
(***************************************************************************)
LEMMA DrainKeepsUncover ==
  ASSUME OneAtATime, UncoverInv, CoverInv', NEW p \in Procs,
         ClearCompleteDeferred(p) \/ RefreshResultingSchema(p)
  PROVE  UncoverInv'
<1> DEFINE n == Oldest(proc[p].queue)
<1>0. /\ UncoversFaithful /\ RecordOK(proc[p]) /\ ProcsOK /\ StateOK
      /\ DeployedTable(migrations) /\ proc[p] \in Process /\ QueueBounded(proc[p].queue)
      /\ SerialOK(proc[p]) /\ CarefulOK(proc[p]) /\ DOMAIN migrations \subseteq Names
      /\ \A k \in DOMAIN migrations : migrations[k] \in Row
  BY UncoverFacts
<1>1. UNCHANGED phys /\ proc[p].at \in {"clear", "refresh"} /\ ~InTrain(proc[p])
  BY <1>0 DEF ClearCompleteDeferred, RefreshResultingSchema, At, RecordOK
<1>2. /\ DOMAIN proc[p].queue # {} /\ proc[p].cur \in DOMAIN migrations
      /\ DOMAIN proc[p].queue \subseteq DeferredCompletes(migrations)
      /\ \A k \in DeferredCompletes(migrations) : migrations[k].sealed
  BY <1>0, <1>1 DEF SerialOK, DrainOK, Draining, CarefulOK, QueueOK, Queued
<1>3. n \in DOMAIN proc[p].queue /\ n \in DOMAIN migrations
  BY <1>0, <1>2, NewestOK DEF Process, DeferredCompletes
<1>4. CASE RefreshResultingSchema(p)
  <2>1. /\ UNCHANGED migrations /\ proc[p].at = "refresh"
        /\ snapshot' = [snapshot EXCEPT ![proc[p].cur] = phys]
        /\ Goto(p, IF versionSchemas /\ proc[p].dropLive THEN "reproject" ELSE "clear")
    BY <1>2, <1>4 DEF RefreshResultingSchema, At
  <2>2. \A k \in Leaves(migrations) : snapshot'[k] = phys
    <3>1. proc[p].cur \in Leaves(migrations)
      BY <1>0, <2>1 DEF RecordOK, RefreshesLeaf, Queued, Draining, SerialOK, ViewsOK
    <3>2. \A k \in Leaves(migrations) : k = proc[p].cur
      BY <1>0, <1>2, <3>1, LatestIsNewest
    <3> QED BY <1>0, <1>2, <2>1, <3>2 DEF StateOK
  <2>3. HasSealedDeferred(migrations')
    BY <1>2, <1>3, <2>1 DEF HasSealedDeferred, DeferredCompletes
  <2>4. UncoversFaithful'
    BY <2>3 DEF UncoversFaithful
  <2>5. /\ proc'[p].at \in {"reproject", "clear"} /\ proc'[p].cur = proc[p].cur
        /\ proc'[p].verb = proc[p].verb /\ proc'[p].todo = proc[p].todo
    BY <1>0, <2>1, GotoKeeps
  <2>6. RecordOK(proc[p])'
    BY <1>0, <1>1, <2>1, <2>2, <2>5
       DEF RecordOK, RefreshesLeaf, Queued, Draining, Finishing, InTrain
  <2> QED BY <2>4, <2>6, UncoverStep
<1>5. CASE ClearCompleteDeferred(p)
  <2> DEFINE rest == Restrict(proc[p].queue, DOMAIN proc[p].queue \ {n})
             at == IF DOMAIN rest # {} THEN "drain"
                   ELSE IF proc[p].verb = "finish" THEN "reseal" ELSE "own"
  <2>1. /\ proc[p].at = "clear" /\ UNCHANGED snapshot
        /\ migrations' = DeferredCleared(migrations, n)
        /\ Become(p, [proc[p] EXCEPT !.queue = rest, !.at = at])
    BY <1>3, <1>5 DEF ClearCompleteDeferred, At
  <2>2. DOMAIN rest = DOMAIN proc[p].queue \ {n}
    BY DEF Restrict
  <2>3. /\ at = "drain" => DOMAIN rest # {}
        /\ at = "reseal" => DOMAIN rest = {} /\ proc[p].verb = "finish"
        /\ at \in {"drain", "reseal", "own"}
    OBVIOUS
  <2> HIDE DEF rest, at
  <2>4. /\ proc'[p].at = at /\ proc'[p].cur = proc[p].cur /\ proc'[p].verb = proc[p].verb
        /\ proc'[p].queue = rest /\ proc'[p].todo = proc[p].todo
    BY <1>0, <2>1 DEF Become, ProcsOK, Process
  <2>5. /\ DOMAIN migrations' = DOMAIN migrations
        /\ \A k \in DOMAIN migrations \ {n} : migrations'[k] = migrations[k]
        /\ migrations'[n].done = migrations[n].done
        /\ migrations'[n].parent = migrations[n].parent
    BY <1>0, <1>3, <2>1, UpdatedRows
  <2>6. Leaves(migrations') = Leaves(migrations)
    BY <1>3, <2>5, LatestKept
  <2>7. ~InTrain(proc'[p])
    BY <1>1, <2>4 DEF InTrain
  <2>8. CASE at = "drain"
    <3>1. PICK k \in DOMAIN proc[p].queue : k # n
      BY <2>2, <2>3, <2>8
    <3>2. HasSealedDeferred(migrations')
      BY <1>2, <2>5, <3>1 DEF HasSealedDeferred, DeferredCompletes
    <3>3. UncoversFaithful'
      BY <3>2 DEF UncoversFaithful
    <3>4. RecordOK(proc[p])'
      BY <1>0, <2>1, <2>4, <2>6, <2>7, <2>8
         DEF RecordOK, RefreshesLeaf, Queued, Draining, Finishing
    <3> QED BY <3>3, <3>4, UncoverStep
  <2>9. CASE at = "reseal"
    <3>1. Finishing(proc[p]) /\ Last(proc[p].queue)
      BY <1>3, <2>2, <2>3, <2>9 DEF Finishing, Last
    <3>2. \A k \in Leaves(migrations) : snapshot[k] = phys
      BY <1>0, <2>1, <3>1 DEF RecordOK, RefreshesLeaf
    <3>3. ActiveMigrations(migrations) = {}
      BY <1>0, <2>1, <3>1 DEF CarefulOK, QueueOK, Queued, Draining
    <3>4. ~IsActiveMigrationPeriod(migrations')
      BY <1>3, <2>5, <3>3 DEF IsActiveMigrationPeriod, ActiveMigrations
    <3>5. RecordOK(proc[p])'
      BY <1>1, <2>1, <2>4, <2>6, <2>7, <2>9, <3>2, <3>4
         DEF RecordOK, RefreshesLeaf, Queued, Draining
    <3>6. UncoversFaithful'
      BY <2>4, <2>9 DEF UncoversFaithful, Recording
    <3> QED BY <3>5, <3>6, UncoverStep
  <2>10. CASE at = "own"
    <3>1. RecordOK(proc[p])'
      BY <2>4, <2>10, RecordRests
    <3>2. UncoversFaithful'
      BY <2>4, <2>7, <2>10 DEF UncoversFaithful, Recording
    <3> QED BY <3>1, <3>2, UncoverStep
  <2> QED BY <2>3, <2>8, <2>9, <2>10
<1> QED BY <1>4, <1>5


(***************************************************************************)
(* A rollback or a revert undoes a row before it deletes it, newest first: *)
(* what it uncovers was recorded without it.                               *)
(***************************************************************************)
LEMMA UndoKeepsUncover ==
  ASSUME OneAtATime, UncoverInv, CoverInv', NEW p \in Procs,
         RollbackOperations(p) \/ DeleteMigration(p)
  PROVE  UncoverInv'
<1>0. /\ UncoversFaithful /\ RecordOK(proc[p]) /\ ProcsOK /\ StateOK
      /\ DeployedTable(migrations) /\ proc[p] \in Process /\ SerialOK(proc[p])
      /\ CarefulOK(proc[p]) /\ RowsConsistent(migrations) /\ DOMAIN migrations \subseteq Names
      /\ \A k \in DOMAIN migrations : migrations[k] \in Row
  BY UncoverFacts
<1>1. /\ proc[p].at \in {"undo", "delete"} /\ ~Recording(proc[p]) /\ ~InTrain(proc[p])
  BY <1>0 DEF RollbackOperations, DeleteMigration, At, Recording, RecordOK
<1>2. PICK n \in Names : n = proc[p].cur
  BY <1>1, UncoverFacts DEF Working, Steps
<1>3. CASE RollbackOperations(p)
  <2> DEFINE from == IF n \notin proc[p].applied THEN {"expanded", "filling", "ready"}
                     ELSE IF n \in Destructive THEN {} ELSE {"contracted"}
  <2>1. /\ UNCHANGED <<migrations, snapshot>>
        /\ \/ phys' = [phys EXCEPT ![n] = "expanding"] /\ UNCHANGED proc
           \/ /\ phys' = [phys EXCEPT ![n] = IF @ \in {"absent", "expanding"} THEN "absent"
                                             ELSE "damaged"]
              /\ Goto(p, "delete")
    BY <1>2, <1>3 DEF RollbackOperations
  <2>2. /\ \A k \in Names \ {n} : phys'[k] = phys[k]
        /\ phys'[n] \notin Materialized
    BY <1>0, <2>1 DEF StateOK, Materialized
  <2>3. ASSUME NEW k \in DOMAIN migrations', Uncoverable(k)', Intact(k)'
        PROVE  /\ k \in DOMAIN migrations /\ Uncoverable(k) /\ Below(k)' = Below(k)
               /\ snapshot'[k] = snapshot[k] /\ \A j \in Below(k) : phys'[j] = phys[j]
    <3>1. k \in DOMAIN migrations /\ Uncoverable(k) /\ Below(k)' = Below(k)
      BY <2>1, <2>3 DEF Uncoverable, Below
    <3>2. n \notin Below(k)
      BY <2>2, <2>3, <3>1 DEF Intact
    <3>3. \A j \in Below(k) : phys'[j] = phys[j]
      BY <1>0, <2>2, <3>2 DEF Below
    <3> QED BY <2>1, <3>1, <3>3
  <2>4. UncoversFaithful'
    BY <1>0, <1>1, <2>1, <2>3, FaithfulKept
  <2>5. proc'[p].at \in {"undo", "delete"} /\ proc'[p].todo = proc[p].todo
    BY <1>0, <1>1, <2>1, GotoKeeps
  <2>6. RecordOK(proc[p])'
    <3>1. ~InTrain(proc'[p])
      BY <1>1, <2>5 DEF InTrain
    <3> QED BY <2>5, <3>1, RecordRests
  <2> QED BY <2>4, <2>6, UncoverStep
<1>4. CASE DeleteMigration(p)
  <2> DEFINE rest == Restrict(proc[p].queue, DOMAIN proc[p].queue \ {n})
             s == [proc[p] EXCEPT !.at = "dropVersion", !.cur = Newest(rest), !.queue = rest]
  <2>1. UNCHANGED phys /\ proc[p].at = "delete"
    BY <1>4 DEF DeleteMigration, At
  <2>2. CASE UNCHANGED <<migrations, snapshot>> /\ Return(p)
    BY <1>0, <1>1, <2>1, <2>2, RecordMoves, UncoverQuiet
  <2>3. CASE /\ n \in DOMAIN migrations /\ ~HasChild(migrations, n)
             /\ proc[p].verb = "rollback" => ~migrations[n].done
             /\ migrations' = Deleted(migrations, n)
             /\ snapshot' = [snapshot EXCEPT ![n] = [k \in Names |-> "absent"]]
             /\ Return(p) \/ Goto(p, "leaf") \/ Become(p, s)
    <3>1. /\ DOMAIN migrations' = DOMAIN migrations \ {n}
          /\ \A k \in DOMAIN migrations' : migrations'[k] = migrations[k]
      BY <2>3 DEF Deleted, Restrict
    <3>2. ~migrations[n].sealed
      BY <1>0, <1>2, <2>1, <2>3
         DEF SerialOK, UndoOK, Undoing, RowsConsistent
    <3>3. ASSUME NEW k \in DOMAIN migrations' PROVE n \notin Below(k)
      <4>1. k \in DOMAIN migrations /\ k # n
        BY <3>1
      <4>2. migrations[k].created <= migrations[n].created
        BY <1>0, <2>3, <4>1, LeafIsLast DEF DeployedTable, TableOK
      <4>3. migrations[k].created # migrations[n].created
        BY <1>0, <2>3, <4>1 DEF DeployedTable, TableOK, InChainOrder, DistinctTimes
      <4>4. migrations[k].created \in Nat /\ migrations[n].created \in Nat
        BY <1>0, <2>3, <4>1, TimestampsAssumption DEF Row
      <4> QED BY <4>2, <4>3, <4>4 DEF Below
    <3>4. ASSUME NEW k \in DOMAIN migrations', Uncoverable(k)'
          PROVE  /\ k \in DOMAIN migrations /\ Uncoverable(k) /\ Below(k)' = Below(k)
                 /\ snapshot'[k] = snapshot[k]
      <4>1. k \in DOMAIN migrations /\ k # n
        BY <3>1
      <4>2. Below(k)' = Below(k)
        BY <3>1, <3>3 DEF Below
      <4>3. Uncoverable(k)
        BY <3>1, <3>2, <3>4, <4>1, <4>2 DEF Uncoverable
      <4>4. snapshot'[k] = snapshot[k]
        BY <1>0, <2>3, <4>1 DEF StateOK
      <4> QED BY <4>1, <4>2, <4>3, <4>4
    <3>5. HasSealedDeferred(migrations') <=> HasSealedDeferred(migrations)
      BY <3>1, <3>2 DEF HasSealedDeferred
    <3>6. UncoversFaithful'
      BY <1>0, <1>1, <2>1, <3>4, <3>5, FaithfulKept
    <3>7. CASE Return(p)
      BY <1>0, <3>6, <3>7, RecordMoves, UncoverStep
    <3>8. CASE Goto(p, "leaf") \/ Become(p, s)
      <4>1. s.at = "dropVersion" /\ s.todo = proc[p].todo
        BY <1>0 DEF Process
      <4> HIDE DEF s
      <4>2. proc'[p].at \in {"leaf", "dropVersion"} /\ proc'[p].todo = proc[p].todo
        BY <1>0, <3>8, <4>1, GotoKeeps, Becomes
      <4>3. ~InTrain(proc'[p])
        BY <1>1, <4>2 DEF InTrain
      <4>4. RecordOK(proc[p])'
        BY <4>2, <4>3, RecordRests
      <4> QED BY <3>6, <4>4, UncoverStep
    <3> QED BY <2>3, <3>7, <3>8
  <2> QED BY <1>2, <1>4, <2>2, <2>3 DEF DeleteMigration
<1> QED BY <1>3, <1>4

(***************************************************************************)
(* The inductive invariant holds in every reachable state.                 *)
(***************************************************************************)
THEOREM UncoverInvariant ==
  ASSUME OneAtATime, RecordsAndSeals
  PROVE  Spec => []UncoverInv
<1>0. RecordsCompletes
  BY DEF RecordsAndSeals
<1>1. ASSUME Init, CoverInv PROVE UncoverInv
  <2>1. DOMAIN migrations = {} /\ \A p \in Procs : proc[p].at = "idle" /\ proc[p].todo = {}
    BY <1>1 DEF Init, EmptyTable, Idle
  <2> QED BY <1>1, <2>1
             DEF UncoverInv, UncoversFaithful, RecordOK, RefreshesLeaf, Queued, Draining,
                 InTrain
<1>2. ASSUME UncoverInv, CoverInv', [Next]_vars PROVE UncoverInv'
  <2>1. ASSUME UNCHANGED <<migrations, snapshot, phys, proc>> PROVE UncoverInv'
    <3>1. UncoversFaithful' /\ \A p \in Procs : RecordOK(proc[p])'
      BY <1>2, <2>1
         DEF UncoverInv, UncoversFaithful, Uncoverable, Intact, Faithful, Below, RecordOK,
             RefreshesLeaf
    <3> QED BY <1>2, <3>1 DEF UncoverInv
  <2>2. ASSUME NEW s \in Names \cup {NoName}, Repin(s) PROVE UncoverInv'
    BY <2>1, <2>2 DEF Repin, db
  <2>3. ASSUME NEW p \in Procs, Command(p) \/ StartFails(p) \/ Crash(p) PROVE UncoverInv'
    BY <1>2, <2>3, CommandKeepsUncover
  <2>4. ASSUME NEW p \in Procs, Step(p) PROVE UncoverInv'
    BY <1>2, <2>4, StartKeepsUncover, MoveKeepsUncover, SealKeepsUncover,
       DoneKeepsUncover, ContractKeepsUncover, DrainKeepsUncover, UndoKeepsUncover
       DEF Step
  <2>5. CASE UNCHANGED vars
    BY <2>1, <2>5 DEF vars
  <2> QED BY <1>2, <2>2, <2>3, <2>4, <2>5 DEF Next
<1> QED BY <1>0, <1>1, <1>2, CoverInvariant, PTL DEF Spec

(***************************************************************************)
(* With every command at hand, a revert or a rollback uncovers a row whose *)
(* resulting_schema is the schema that it leaves.                          *)
(***************************************************************************)
THEOREM UncoveredSnapshotIsSchema ==
  ASSUME OneAtATime, RecordsAndSeals
  PROVE  Spec => []BoundarySnapshotClean
<1>1. UncoverInv => BoundarySnapshotClean
  <2>1. SUFFICES ASSUME UncoverInv, AllIdle, ~IsActiveMigrationPeriod(migrations),
                        DeferredCompletes(migrations) = {}, Settled,
                        NEW n \in Leaves(migrations)
                 PROVE  snapshot[n] = phys
    BY DEF BoundarySnapshotClean, Contracted
  <2>2. UncoversFaithful /\ NothingElse /\ StateOK /\ DeployedTable(migrations)
    BY <2>1 DEF UncoverInv, CoverInv, CarefulInv, SerialInv, IInv
  <2>3. /\ n \in DOMAIN migrations /\ Below(n) = DOMAIN migrations
        /\ phys = [k \in Names |-> IF k \in Below(n) THEN phys[k] ELSE "absent"]
    BY <2>1, <2>2, NewestSchema DEF Leaves
  <2>4. \A k \in DOMAIN migrations : migrations[k].done
    BY <2>1 DEF IsActiveMigrationPeriod, ActiveMigrations
  <2>5. Uncoverable(n) /\ Intact(n)
    BY <2>1, <2>3, <2>4 DEF Uncoverable, Intact, Settled
  <2>6. ~HasSealedDeferred(migrations) /\ \A q \in Procs : ~Recording(proc[q])
    BY <2>1 DEF HasSealedDeferred, DeferredCompletes, AllIdle, At, Recording
  <2>7. Faithful(n)
    BY <2>2, <2>3, <2>5, <2>6 DEF UncoversFaithful
  <2> QED BY <2>3, <2>7 DEF Faithful
<1> QED BY <1>1, UncoverInvariant, PTL
=============================================================================
