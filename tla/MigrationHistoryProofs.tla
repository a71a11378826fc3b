----------------------- MODULE MigrationHistoryProofs -----------------------
(***************************************************************************)
(* Proofs about MigrationHistory, for any names, timestamps and processes. *)
(***************************************************************************)
EXTENDS MigrationHistory, MigrationsTableProofs

----------------------------------------------------------------------------
(***************************************************************************)
(* The inductive invariant: the table, and every copy Prune holds of it,   *)
(* is in chain order with consistent flags, and a stamp never has its own  *)
(* parent still to insert (a row whose parent is itself would satisfy the  *)
(* foreign key).                                                           *)
(***************************************************************************)
PendingOK(o) == /\ o.parent \notin o.names
                /\ o.at = "stamp" => o.names # {}

CopiesOK(c) == DOMAIN c = Procs /\ \A p \in Procs : TableOK(c[p])

IInv == /\ TableOK(migrations)
        /\ op \in [Procs -> Operation]
        /\ \A p \in Procs : PendingOK(op[p])
        /\ CopiesOK(copy)

(***************************************************************************)
(* A process with nothing pending satisfies the invariant.                 *)
(***************************************************************************)
LEMMA IdleOK == Idle \in Operation /\ PendingOK(Idle)
BY DEF Idle, Operation, Stages, Types, PendingOK

(***************************************************************************)
(* What an operation keeps of its first read satisfies the invariant.      *)
(***************************************************************************)
LEMMA ReadingOK ==
  ASSUME NEW at \in Stages, NEW names \in SUBSET Names,
         at = "stamp" => names # {}
  PROVE  Reading(at, names) \in Operation /\ PendingOK(Reading(at, names))
<1>1. NoName \notin names
  BY NamesAssumption DEF NoName
<1> QED BY <1>1 DEF Reading, Idle, Operation, Types, PendingOK

(***************************************************************************)
(* A step that leaves a sound table and sound copies, and moves one        *)
(* process to a sound pending operation, keeps the invariant.              *)
(***************************************************************************)
LEMMA PendingStep ==
  ASSUME IInv, NEW p \in Procs, NEW o \in Operation, PendingOK(o),
         op' = [op EXCEPT ![p] = o],
         CopiesOK(copy'), TableOK(migrations')
  PROVE  IInv'
<1>1. op' \in [Procs -> Operation]
  BY DEF IInv
<1>2. \A q \in Procs : PendingOK(op'[q])
  BY DEF IInv
<1> QED BY <1>1, <1>2 DEF IInv, PendingOK, TableOK, CopiesOK

(***************************************************************************)
(* A single statement that leaves a sound table keeps the invariant.       *)
(***************************************************************************)
LEMMA TableStep ==
  ASSUME IInv, UNCHANGED <<op, copy>>, TableOK(migrations')
  PROVE  IInv'
BY DEF IInv, PendingOK, TableOK, CopiesOK

(***************************************************************************)
(* Replacing one process's temporary table by a sound one keeps all of     *)
(* them sound.                                                             *)
(***************************************************************************)
LEMMA CopyStep ==
  ASSUME CopiesOK(copy), NEW p \in Procs, NEW t, TableOK(t)
  PROVE  CopiesOK([copy EXCEPT ![p] = t])
BY DEF CopiesOK

----------------------------------------------------------------------------
(***************************************************************************)
(* Every step keeps the invariant: the statements that change flags or     *)
(* delete a leaf, the reads that open an operation, the inserts, and the   *)
(* three steps of prune and rebaseline.                                    *)
(***************************************************************************)
LEMMA StatementKeepsInv ==
  ASSUME IInv, NEW p \in Procs, NEW n \in Names,
         \/ Complete(p, n)
         \/ MarkCompleteDeferred(p, n)
         \/ ClearCompleteDeferred(p, n)
         \/ Rollback(p, n)
         \/ DeleteMigration(p, n)
  PROVE  IInv'
<1>0. TableOK(migrations)
  BY DEF IInv
<1>1. CASE Complete(p, n)
  BY <1>0, <1>1, FlagWritesOK, TableStep DEF Complete, ActiveMigrations
<1>2. CASE MarkCompleteDeferred(p, n)
  BY <1>0, <1>2, FlagWritesOK, TableStep DEF MarkCompleteDeferred, ActiveMigrations
<1>3. CASE ClearCompleteDeferred(p, n)
  BY <1>0, <1>3, FlagWritesOK, TableStep DEF ClearCompleteDeferred, DeferredCompletes
<1>4. CASE Rollback(p, n)
  BY <1>0, <1>4, DeleteOK, TableStep DEF Rollback
<1>5. CASE DeleteMigration(p, n)
  BY <1>0, <1>5, DeleteOK, TableStep DEF DeleteMigration
<1> QED BY <1>1, <1>2, <1>3, <1>4, <1>5

(***************************************************************************)
(* MarkSealed keeps the invariant: it seals only rows that are done.       *)
(***************************************************************************)
LEMMA SealKeepsInv ==
  ASSUME IInv, NEW p \in Procs, MarkSealed(p)
  PROVE  IInv'
<1>0. TableOK(migrations)
  BY DEF IInv
<1>1. PICK k \in DOMAIN migrations : TRUE
  BY DEF MarkSealed, UnsealedMigrations
<1> QED BY <1>0, <1>1, FlagWritesOK, TableStep DEF MarkSealed

(***************************************************************************)
(* The reads that open Start, CreateBaseline, Stamp, Prune and Rebaseline  *)
(* keep the invariant; a stamp's parent is recorded and so is none of the  *)
(* names it will insert.                                                   *)
(***************************************************************************)
LEMMA BeginKeepsInv ==
  ASSUME IInv, NEW p \in Procs,
         \/ \E n \in Names : \/ StartBegin(p, n)
                             \/ BaselineBegin(p, n)
                             \/ RebaselineBegin(p, n)
         \/ \E names \in SUBSET Names :
               \/ PruneBegin(p, names)
               \/ \E type \in StampTypes : StampBegin(p, names, type)
  PROVE  IInv'
<1>0. TableOK(migrations) /\ IsTable(migrations) /\ CopiesOK(copy)
  BY DEF IInv, TableOK
<1>1. ASSUME NEW n \in Names, StartBegin(p, n) PROVE IInv'
  <2>1. Reading("start", {n}) \in Operation /\ PendingOK(Reading("start", {n}))
    BY ReadingOK DEF Stages
  <2> QED BY <1>0, <1>1, <2>1, PendingStep DEF StartBegin
<1>2. ASSUME NEW n \in Names, BaselineBegin(p, n) PROVE IInv'
  <2>1. Reading("baseline", {n}) \in Operation /\ PendingOK(Reading("baseline", {n}))
    BY ReadingOK DEF Stages
  <2> QED BY <1>0, <1>2, <2>1, PendingStep DEF BaselineBegin
<1>3. ASSUME NEW n \in Names, RebaselineBegin(p, n) PROVE IInv'
  <2>1. Reading("rebaseline", {n}) \in Operation /\ PendingOK(Reading("rebaseline", {n}))
    BY ReadingOK DEF Stages
  <2> QED BY <1>0, <1>3, <2>1, PendingStep DEF RebaselineBegin
<1>4. ASSUME NEW names \in SUBSET Names, PruneBegin(p, names) PROVE IInv'
  <2>1. Reading("prune", names) \in Operation /\ PendingOK(Reading("prune", names))
    BY ReadingOK DEF Stages
  <2> QED BY <1>0, <1>4, <2>1, PendingStep DEF PruneBegin
<1>5. ASSUME NEW names \in SUBSET Names, NEW type \in StampTypes,
             StampBegin(p, names, type)
      PROVE  IInv'
  <2> DEFINE todo == names \ DOMAIN migrations
             o == [Reading("stamp", todo) EXCEPT
                     !.parent = LatestMigration(migrations), !.type = type]
  <2>1. LatestMigration(migrations) = NoName \/ LatestMigration(migrations) \in DOMAIN migrations
    BY <1>0, LatestInTable
  <2>2. LatestMigration(migrations) \in Names \cup {NoName}
    BY <1>0, <2>1 DEF IsTable
  <2>3. LatestMigration(migrations) \notin todo
    BY <2>1, NamesAssumption DEF NoName
  <2>4. Reading("stamp", todo) \in Operation /\ PendingOK(Reading("stamp", todo))
    BY <1>5, ReadingOK DEF Stages, StampBegin
  <2>5. type \in Types
    BY StampAssumption
  <2>6. o.names = todo /\ todo # {} /\ o.parent = LatestMigration(migrations)
    BY <1>5 DEF Reading, Idle, StampBegin
  <2>7. o \in Operation
    BY <2>2, <2>4, <2>5 DEF Operation
  <2>8. PendingOK(o)
    BY <2>3, <2>4, <2>6 DEF PendingOK
  <2>9. op' = [op EXCEPT ![p] = o]
    BY <1>5 DEF StampBegin
  <2>10. UNCHANGED <<migrations, copy>>
    BY <1>5 DEF StampBegin
  <2> HIDE DEF o
  <2> QED BY <1>0, <2>7, <2>8, <2>9, <2>10, PendingStep
<1> QED BY <1>1, <1>2, <1>3, <1>4, <1>5

(***************************************************************************)
(* A process that stops between two statements leaves a sound table        *)
(* behind.                                                                 *)
(***************************************************************************)
LEMMA StopKeepsInv ==
  ASSUME IInv, NEW p \in Procs, Stop(p)
  PROVE  IInv'
<1>1. CopiesOK(copy') /\ TableOK(migrations')
  BY EmptyTableOK, CopyStep DEF Stop, IInv
<1> QED BY <1>1, IdleOK, PendingStep DEF Stop

(***************************************************************************)
(* The INSERTs of Start and CreateBaseline keep the invariant, also when   *)
(* the leaf has moved since the operation began.                           *)
(***************************************************************************)
LEMMA StartKeepsInv ==
  ASSUME IInv, NEW p \in Procs, Start(p) \/ CreateBaseline(p)
  PROVE  IInv'
<1>0. TableOK(migrations) /\ IsTable(migrations) /\ CopiesOK(copy)
  BY DEF IInv, TableOK
<1>1. op[p].names \in SUBSET Names
  BY DEF IInv, Operation
<1>2. op' = [op EXCEPT ![p] = Idle] /\ UNCHANGED copy
  BY DEF Start, CreateBaseline
<1>3. PICK n \in op[p].names, ts \in Later(migrations) :
        \/ InsertOrFail(n, StartedRow(LatestMigration(migrations), ts))
        \/ InsertOrFail(n, StampedRow(LatestMigration(migrations), "baseline", ts))
  BY DEF Start, CreateBaseline
<1>4. PICK row \in Row :
        /\ InsertOrFail(n, row)
        /\ row.parent = LatestMigration(migrations)
        /\ row.created = ts
        /\ row.sealed \/ row.deferred => row.done
  <2>1. LatestMigration(migrations) \in Names \cup {NoName} /\ ts \in Timestamps
    BY <1>0, LatestInTable DEF IsTable, Later
  <2>2. CASE InsertOrFail(n, StartedRow(LatestMigration(migrations), ts))
    <3> DEFINE r == StartedRow(LatestMigration(migrations), ts)
    <3>1. r \in Row /\ r.parent = LatestMigration(migrations) /\ r.created = ts
          /\ (r.sealed \/ r.deferred => r.done)
      BY <2>1 DEF Row, StartedRow, Types
    <3> QED BY <2>2, <3>1
  <2>3. CASE InsertOrFail(n, StampedRow(LatestMigration(migrations), "baseline", ts))
    <3> DEFINE r == StampedRow(LatestMigration(migrations), "baseline", ts)
    <3>1. r \in Row /\ r.parent = LatestMigration(migrations) /\ r.created = ts
          /\ (r.sealed \/ r.deferred => r.done)
      BY <2>1 DEF Row, StampedRow, Types
    <3> QED BY <2>3, <3>1
  <2> QED BY <1>3, <2>2, <2>3
<1>5. TableOK(migrations')
  <2>1. CASE n \notin DOMAIN migrations /\ Constraints(Inserted(migrations, n, row))
    <3>1. row.parent # n
      BY <1>0, <1>1, <1>4, <2>1, LatestInTable, NamesAssumption DEF NoName
    <3>2. TableOK(Inserted(migrations, n, row))
      BY <1>0, <1>1, <1>3, <1>4, <2>1, <3>1, InsertOK
    <3> QED BY <2>1, <3>2, <1>4 DEF InsertOrFail
  <2>2. CASE ~ (n \notin DOMAIN migrations /\ Constraints(Inserted(migrations, n, row)))
    BY <2>2, <1>0, <1>4 DEF InsertOrFail
  <2> QED BY <2>1, <2>2
<1> QED BY <1>0, <1>2, <1>5, IdleOK, PendingStep

(***************************************************************************)
(* The next name a stamp inserts is one of the names it still has.         *)
(***************************************************************************)
LEMMA FirstIsMember ==
  ASSUME NEW names \in SUBSET Names, names # {}
  PROVE  First(names) \in names
<1>1. \E x \in names : \A y \in names : x <= y
  BY LeastNat, NamesAssumption
<1> QED BY <1>1 DEF First

(***************************************************************************)
(* One INSERT of a stamp keeps the invariant although its parent was read  *)
(* earlier: it is refused, or the parent is still the leaf.                *)
(***************************************************************************)
LEMMA StampKeepsInv ==
  ASSUME IInv, NEW p \in Procs, Stamp(p)
  PROVE  IInv'
<1> DEFINE n == First(op[p].names)
           type == IF n \in BaselineFiles THEN "baseline" ELSE op[p].type
           parent == IF op[p].parent = NoName THEN LatestMigration(migrations)
                     ELSE op[p].parent
<1>0. TableOK(migrations) /\ IsTable(migrations) /\ CopiesOK(copy)
  BY DEF IInv, TableOK
<1>1. op[p] \in Operation /\ PendingOK(op[p])
  BY DEF IInv
<1>2. n \in op[p].names /\ n \in Names /\ op[p].names \in SUBSET Names
  BY <1>1, FirstIsMember DEF Operation, PendingOK, Stamp
<1>3. PICK ts \in Later(migrations) :
        LET new == Inserted(migrations, n, StampedRow(parent, type, ts))
        IN  \/ /\ n \notin DOMAIN migrations /\ Constraints(new)
               /\ migrations' = new
               /\ op' = [op EXCEPT ![p] =
                    IF op[p].names = {n} THEN Idle
                    ELSE [op[p] EXCEPT !.names = @ \ {n}, !.parent = n]]
            \/ /\ op' = [op EXCEPT ![p] = Idle]
               /\ UNCHANGED migrations
  BY Zenon DEF Stamp
<1> DEFINE row == StampedRow(parent, type, ts)
           rest == [op[p] EXCEPT !.names = op[p].names \ {n}, !.parent = n]
<1>4. parent \in Names \cup {NoName} /\ type \in Types /\ ts \in Timestamps
  BY <1>0, <1>1, LatestInTable DEF Operation, IsTable, Later, Types
<1>5. /\ row \in Row /\ row.parent = parent /\ row.created = ts
      /\ (row.sealed \/ row.deferred => row.done)
  BY <1>4 DEF Row, StampedRow
<1>6. op[p].names # {n} => rest \in Operation /\ PendingOK(rest)
  <2>1. rest \in Operation
    BY <1>1, <1>2 DEF Operation
  <2>2. rest.parent = n /\ rest.names = op[p].names \ {n}
    BY <1>1 DEF Operation
  <2> QED BY <2>1, <2>2, <1>1, <1>2 DEF PendingOK
<1>9. CopiesOK(copy')
  BY <1>0 DEF Stamp
<1> HIDE DEF n, type, parent, row, rest
<1>7. CASE /\ n \notin DOMAIN migrations
           /\ Constraints(Inserted(migrations, n, row))
           /\ migrations' = Inserted(migrations, n, row)
           /\ op' = [op EXCEPT ![p] = IF op[p].names = {n} THEN Idle ELSE rest]
  <2>1. parent # n
    <3>1. op[p].parent # n
      BY <1>1, <1>2 DEF PendingOK
    <3>2. LatestMigration(migrations) # n
      BY <1>0, <1>2, <1>7, LatestInTable, NamesAssumption DEF NoName
    <3> QED BY <3>1, <3>2 DEF parent
  <2>2. TableOK(migrations')
    BY <1>0, <1>2, <1>3, <1>5, <1>7, <2>1, InsertOK
  <2>3. CASE op[p].names = {n}
    BY <1>7, <1>9, <2>2, <2>3, IdleOK, PendingStep
  <2>4. CASE op[p].names # {n}
    BY <1>7, <1>9, <2>2, <2>4, <1>6, PendingStep
  <2> QED BY <2>3, <2>4
<1>8. CASE op' = [op EXCEPT ![p] = Idle] /\ UNCHANGED migrations
  BY <1>8, <1>9, <1>0, IdleOK, PendingStep
<1> QED BY <1>3, <1>7, <1>8 DEF row, rest

(***************************************************************************)
(* The two halves of Prune's transaction keep the invariant, also when     *)
(* rows were committed in between.                                         *)
(***************************************************************************)
LEMMA PruneKeepsInv ==
  ASSUME IInv, NEW p \in Procs, PruneCopy(p) \/ PruneSwap(p)
  PROVE  IInv'
<1>0. TableOK(migrations) /\ CopiesOK(copy)
  BY DEF IInv
<1>1. op[p] \in Operation /\ PendingOK(op[p])
  BY DEF IInv
<1>2. CASE PruneCopy(p) /\ ~(op[p].names \subseteq DOMAIN migrations)
  BY <1>0, <1>2, IdleOK, PendingStep DEF PruneCopy
<1>3. CASE PruneCopy(p) /\ op[p].names \subseteq DOMAIN migrations
  <2> DEFINE o == [op[p] EXCEPT !.at = "swap"]
  <2>1. TableOK(Keepers(migrations, op[p].names))
    BY <1>0, KeepersOK
  <2>2. CopiesOK(copy')
    BY <1>0, <1>3, <2>1, CopyStep DEF PruneCopy
  <2>3. o \in Operation /\ PendingOK(o)
    BY <1>1 DEF Operation, Stages, PendingOK
  <2>4. op' = [op EXCEPT ![p] = o]
    BY <1>3 DEF PruneCopy
  <2>5. UNCHANGED migrations
    BY <1>3 DEF PruneCopy
  <2> HIDE DEF o
  <2> QED BY <1>0, <2>2, <2>3, <2>4, <2>5, PendingStep
<1>4. CASE PruneSwap(p)
  <2>1. TableOK(copy[p])
    BY <1>0 DEF CopiesOK
  <2>2. CopiesOK(copy')
    BY <1>0, <1>4, EmptyTableOK, CopyStep DEF PruneSwap
  <2> QED BY <1>4, <2>1, <2>2, IdleOK, PendingStep DEF PruneSwap
<1> QED BY <1>2, <1>3, <1>4

(***************************************************************************)
(* Rebaseline's conversion of the anchor keeps the invariant.              *)
(***************************************************************************)
LEMMA ConvertKeepsInv ==
  ASSUME IInv, NEW p \in Procs, ConvertMigrationToBaseline(p)
  PROVE  IInv'
<1>0. TableOK(migrations) /\ IsTable(migrations) /\ CopiesOK(copy)
  BY DEF IInv, TableOK
<1>1. PICK n \in op[p].names : migrations' = ConvertedToBaseline(migrations, n)
  BY DEF ConvertMigrationToBaseline
<1>2. TableOK(migrations')
  <2>1. CASE n \in DOMAIN migrations
    BY <1>0, <1>1, <2>1, FlagWritesOK
  <2>2. CASE n \notin DOMAIN migrations
    BY <1>0, <1>1, <2>2 DEF ConvertedToBaseline, IsTable
  <2> QED BY <2>1, <2>2
<1> QED BY <1>0, <1>2, IdleOK, PendingStep DEF ConvertMigrationToBaseline

----------------------------------------------------------------------------
(***************************************************************************)
(* Every step of the system keeps the invariant.                           *)
(***************************************************************************)
LEMMA NextKeepsInv == IInv /\ [Next]_vars => IInv'
<1> SUFFICES ASSUME IInv, [Next]_vars PROVE IInv'
  OBVIOUS
<1>1. CASE UNCHANGED vars
  BY <1>1 DEF vars, IInv, TableOK, PendingOK, CopiesOK
<1>2. CASE Next
  <2>1. PICK p \in Procs :
          \/ \E n \in Names : \/ Complete(p, n)
                              \/ MarkCompleteDeferred(p, n)
                              \/ ClearCompleteDeferred(p, n)
                              \/ Rollback(p, n)
                              \/ DeleteMigration(p, n)
          \/ \E n \in Names : \/ StartBegin(p, n)
                              \/ BaselineBegin(p, n)
                              \/ RebaselineBegin(p, n)
          \/ \E names \in SUBSET Names :
                \/ PruneBegin(p, names)
                \/ \E type \in StampTypes : StampBegin(p, names, type)
          \/ MarkSealed(p)
          \/ Start(p) \/ CreateBaseline(p)
          \/ Stamp(p)
          \/ PruneCopy(p) \/ PruneSwap(p)
          \/ ConvertMigrationToBaseline(p)
          \/ Stop(p)
    BY <1>2, Zenon DEF Next
  <2>2. CASE \E n \in Names : \/ Complete(p, n)
                              \/ MarkCompleteDeferred(p, n)
                              \/ ClearCompleteDeferred(p, n)
                              \/ Rollback(p, n)
                              \/ DeleteMigration(p, n)
    BY <2>2, StatementKeepsInv
  <2>3. CASE \E n \in Names : \/ StartBegin(p, n)
                              \/ BaselineBegin(p, n)
                              \/ RebaselineBegin(p, n)
    BY <2>3, BeginKeepsInv
  <2>4. CASE \E names \in SUBSET Names :
                \/ PruneBegin(p, names)
                \/ \E type \in StampTypes : StampBegin(p, names, type)
    BY <2>4, BeginKeepsInv
  <2>5. CASE MarkSealed(p)
    BY <2>5, SealKeepsInv
  <2>6. CASE Start(p) \/ CreateBaseline(p)
    BY <2>6, StartKeepsInv
  <2>7. CASE Stamp(p)
    BY <2>7, StampKeepsInv
  <2>8. CASE PruneCopy(p) \/ PruneSwap(p)
    BY <2>8, PruneKeepsInv
  <2>9. CASE ConvertMigrationToBaseline(p)
    BY <2>9, ConvertKeepsInv
  <2>10. CASE Stop(p)
    BY <2>10, StopKeepsInv
  <2> QED BY <2>1, <2>2, <2>3, <2>4, <2>5, <2>6, <2>7, <2>8, <2>9, <2>10
<1> QED BY <1>1, <1>2

(***************************************************************************)
(* The invariant holds in every reachable state, for any set of names,     *)
(* timestamps and processes.                                               *)
(***************************************************************************)
THEOREM InductiveInvariant == Spec => []IInv
<1>1. Init => IInv
  <2>1. ASSUME Init PROVE IInv
    <3>1. op \in [Procs -> Operation] /\ \A p \in Procs : PendingOK(op[p])
      BY <2>1, IdleOK DEF Init
    <3>2. CopiesOK(copy)
      BY <2>1, EmptyTableOK DEF Init, CopiesOK
    <3> QED BY <2>1, <3>1, <3>2, EmptyTableOK DEF Init, IInv
  <2> QED BY <2>1
<1> QED BY <1>1, NextKeepsInv, PTL DEF Spec

(***************************************************************************)
(* The table and the pending operations keep their types.                  *)
(***************************************************************************)
THEOREM TypeCorrect == Spec => []TypeOK
<1>1. IInv => TypeOK
  BY DEF IInv, TypeOK, TableOK, CopiesOK
<1> QED BY <1>1, InductiveInvariant, PTL

(***************************************************************************)
(* The parent chain and the order of created_at agree, whatever the        *)
(* processes interleave: reads that order by created_at see chain order.   *)
(***************************************************************************)
THEOREM HistoryStaysLinear == Spec => []LinearHistory
<1>1. IInv => LinearHistory
  BY DEF IInv, TableOK, LinearHistory
<1> QED BY <1>1, InductiveInvariant, PTL

(***************************************************************************)
(* At most one migration is active, and none that is active is sealed or   *)
(* queued for contraction, also when processes race.                       *)
(***************************************************************************)
THEOREM OneActiveMigration == Spec => []SingleActive
<1>1. IInv => SingleActive
  BY DEF IInv, TableOK, SingleActive
<1> QED BY <1>1, InductiveInvariant, PTL

(***************************************************************************)
(* latest_migration() is well defined: it never has two rows to choose     *)
(* from.                                                                   *)
(***************************************************************************)
THEOREM LatestMigrationIsUnique ==
  Spec => [](\A m, n \in Leaves(migrations) : m = n)
<1>1. IInv => \A m, n \in Leaves(migrations) : m = n
  BY OneLeaf DEF IInv, TableOK
<1> QED BY <1>1, InductiveInvariant, PTL

----------------------------------------------------------------------------
(* With one pgroll process at a time.  Stamp, CreateBaseline, Prune and    *)
(* Rebaseline check in one statement what another relies on, and no lock   *)
(* is held between the two (rebaseline excepted): with a second process    *)
(* what was read can be stale, so these theorems state OneAtATime.         *)

OneAtATime == \A p, q \in Procs : p = q

\* What was read is still true when it is used.
FreshOK(o, c) ==
  /\ o.at \in {"baseline", "stamp", "prune", "swap", "rebaseline"}
       => ~IsActiveMigrationPeriod(migrations)
  /\ o.at = "swap" => c = Keepers(migrations, o.names)
  /\ o.at = "rebaseline" => \E n : o.names = {n} /\ RebaselineAudit(migrations, n)

SerialInv == IInv /\ ActiveIsLeaf /\ \A p \in Procs : FreshOK(op[p], copy[p])

(***************************************************************************)
(* An inserted row is a leaf, and every other row keeps its children.      *)
(***************************************************************************)
LEMMA InsertedLeaf ==
  ASSUME NEW t, TableOK(t), NEW n \in Names, n \notin DOMAIN t, NEW row, row.parent # n,
         ~row.done, OnlyOneActive(Inserted(t, n, row))
  PROVE  \A k \in ActiveMigrations(Inserted(t, n, row)) : ~HasChild(Inserted(t, n, row), k)
<1> DEFINE new == Inserted(t, n, row)
<1>1. /\ DOMAIN new = DOMAIN t \cup {n} /\ new[n] = row
      /\ \A k \in DOMAIN t : new[k] = t[k] /\ k # n
  BY DEF Inserted
<1>2. \A k \in DOMAIN t : t[k].parent # n
  <2>1. n # NoName
    BY NamesAssumption DEF NoName
  <2> QED BY <2>1 DEF TableOK, InChainOrder, FollowsPredecessor, IsLag
<1> HIDE DEF new
<1>3. ASSUME NEW k \in ActiveMigrations(new) PROVE k = n
  BY <1>1, <1>3 DEF ActiveMigrations, OnlyOneActive, new
<1> QED BY <1>1, <1>2, <1>3 DEF HasChild, new

(***************************************************************************)
(* With one process, a step leaves the invariant when it leaves it for the *)
(* process that takes it.                                                  *)
(***************************************************************************)
LEMMA SerialStep ==
  ASSUME OneAtATime, NEW p \in Procs, IInv', ActiveIsLeaf', FreshOK(op[p], copy[p])'
  PROVE  SerialInv'
<1>1. \A q \in Procs : q = p
  BY DEF OneAtATime
<1> QED BY <1>1 DEF SerialInv

(***************************************************************************)
(* A process with nothing pending relies on nothing.                       *)
(***************************************************************************)
LEMMA IdleIsFresh ==
  ASSUME NEW p \in Procs, op'[p].at \in {"idle", "start"}
  PROVE  FreshOK(op[p], copy[p])'
BY DEF FreshOK

(***************************************************************************)
(* Statements of a process that has nothing pending.                       *)
(***************************************************************************)
LEMMA StatementKeepsSerial ==
  ASSUME OneAtATime, SerialInv, IInv', NEW p \in Procs,
         \/ \E n \in Names : \/ Complete(p, n) \/ MarkCompleteDeferred(p, n)
                             \/ ClearCompleteDeferred(p, n) \/ Rollback(p, n)
                             \/ DeleteMigration(p, n)
         \/ MarkSealed(p)
  PROVE  SerialInv'
<1>0. ActiveIsLeaf /\ \A k \in DOMAIN migrations : migrations[k] \in Row
  BY DEF SerialInv, IInv, TableOK, IsTable
<1>1. op' = op /\ op[p].at = "idle"
  BY DEF Complete, MarkCompleteDeferred, ClearCompleteDeferred, Rollback,
         DeleteMigration, MarkSealed
<1>2. /\ DOMAIN migrations' \subseteq DOMAIN migrations
      /\ \A k \in DOMAIN migrations' : /\ migrations'[k].parent = migrations[k].parent
                                       /\ migrations[k].done => migrations'[k].done
  <2>1. ASSUME NEW n \in Names, Rollback(p, n) \/ DeleteMigration(p, n)
        PROVE  /\ DOMAIN migrations' \subseteq DOMAIN migrations
               /\ \A k \in DOMAIN migrations' : migrations'[k] = migrations[k]
    BY <2>1 DEF Rollback, DeleteMigration, Deleted, Restrict
  <2>2. ASSUME NEW n \in Names, \/ Complete(p, n) \/ MarkCompleteDeferred(p, n)
                                \/ ClearCompleteDeferred(p, n)
        PROVE  /\ DOMAIN migrations' = DOMAIN migrations
               /\ \A k \in DOMAIN migrations' : /\ migrations'[k].parent = migrations[k].parent
                                                /\ migrations[k].done => migrations'[k].done
    BY <1>0, <2>2
       DEF Complete, MarkCompleteDeferred, ClearCompleteDeferred, Completed,
           MarkedDeferred, DeferredCleared, Row, ActiveMigrations, DeferredCompletes
  <2>3. ASSUME MarkSealed(p)
        PROVE  /\ DOMAIN migrations' = DOMAIN migrations
               /\ \A k \in DOMAIN migrations' : /\ migrations'[k].parent = migrations[k].parent
                                                /\ migrations[k].done => migrations'[k].done
    BY <1>0, <2>3 DEF MarkSealed, MarkedSealed, Row
  <2> QED BY <2>1, <2>2, <2>3
<1>3. ActiveIsLeaf'
  BY <1>0, <1>2 DEF ActiveIsLeaf, ActiveMigrations, HasChild
<1> QED BY <1>1, <1>3, IdleIsFresh, SerialStep

(***************************************************************************)
(* The reads that open an operation, and Stop.                             *)
(***************************************************************************)
LEMMA BeginKeepsSerial ==
  ASSUME OneAtATime, SerialInv, IInv', NEW p \in Procs,
         \/ \E n \in Names : StartBegin(p, n) \/ BaselineBegin(p, n) \/ RebaselineBegin(p, n)
         \/ \E names \in SUBSET Names : \/ PruneBegin(p, names)
                                        \/ \E type \in StampTypes : StampBegin(p, names, type)
         \/ Stop(p)
  PROVE  SerialInv'
<1>0. /\ ActiveIsLeaf /\ op \in [Procs -> Operation] /\ Idle.at = "idle"
      /\ UNCHANGED migrations
  BY DEF SerialInv, IInv, Idle, StartBegin, BaselineBegin, RebaselineBegin, PruneBegin,
         StampBegin, Stop
<1>1. ActiveIsLeaf'
  BY <1>0 DEF ActiveIsLeaf, ActiveMigrations
<1>2. \A at, names : Reading(at, names).at = at /\ Reading(at, names).names = names
  BY DEF Reading, Idle
<1>3. ASSUME NEW n \in Names, StartBegin(p, n) \/ BaselineBegin(p, n) \/ RebaselineBegin(p, n)
      PROVE  FreshOK(op[p], copy[p])'
  <2>1. CASE StartBegin(p, n)
    BY <1>0, <1>2, <2>1, IdleIsFresh DEF StartBegin
  <2>2. CASE BaselineBegin(p, n)
    BY <1>0, <1>2, <2>2 DEF BaselineBegin, FreshOK, IsActiveMigrationPeriod, ActiveMigrations
  <2>3. CASE RebaselineBegin(p, n)
    <3>1. op'[p].at = "rebaseline" /\ op'[p].names = {n}
      BY <1>0, <1>2, <2>3 DEF RebaselineBegin
    <3>2. RebaselineAudit(migrations', n)
      BY <1>0, <2>3 DEF RebaselineBegin
    <3>3. ~IsActiveMigrationPeriod(migrations')
      BY <3>2 DEF RebaselineAudit
    <3> QED BY <3>1, <3>2, <3>3 DEF FreshOK
  <2> QED BY <1>3, <2>1, <2>2, <2>3
<1>4. ASSUME NEW names \in SUBSET Names, PruneBegin(p, names)
      PROVE  FreshOK(op[p], copy[p])'
  <2>1. op'[p].at = "prune" /\ ~IsActiveMigrationPeriod(migrations')
    BY <1>0, <1>2, <1>4 DEF PruneBegin
  <2> QED BY <2>1 DEF FreshOK
<1>5. ASSUME NEW names \in SUBSET Names, NEW type \in StampTypes, StampBegin(p, names, type)
      PROVE  FreshOK(op[p], copy[p])'
  <2>1. \A k, parent : [Reading("stamp", k) EXCEPT !.parent = parent, !.type = type].at = "stamp"
    BY DEF Reading, Idle
  <2>2. op'[p].at = "stamp" /\ ~IsActiveMigrationPeriod(migrations')
    BY <1>0, <1>5, <2>1 DEF StampBegin
  <2> QED BY <2>2 DEF FreshOK
<1>6. ASSUME Stop(p) PROVE FreshOK(op[p], copy[p])'
  BY <1>0, <1>6, IdleIsFresh DEF Stop
<1>7. FreshOK(op[p], copy[p])'
  BY <1>3, <1>4, <1>5, <1>6
<1> QED BY <1>1, <1>7, SerialStep

(***************************************************************************)
(* The INSERT of Start puts the active row at the end; CreateBaseline and  *)
(* Stamp insert while nothing is active, and leave nothing active.         *)
(***************************************************************************)
LEMMA InsertKeepsSerial ==
  ASSUME OneAtATime, SerialInv, IInv', NEW p \in Procs,
         Start(p) \/ CreateBaseline(p) \/ Stamp(p)
  PROVE  SerialInv'
<1>0. /\ ActiveIsLeaf /\ op \in [Procs -> Operation] /\ Idle.at = "idle"
      /\ FreshOK(op[p], copy[p]) /\ TableOK(migrations) /\ IsTable(migrations)
      /\ op[p] \in Operation
  BY DEF SerialInv, IInv, Idle, TableOK
<1>1. ASSUME UNCHANGED migrations PROVE ActiveIsLeaf'
  BY <1>0, <1>1 DEF ActiveIsLeaf, ActiveMigrations
<1>2. CASE Start(p)
  <2>1. op'[p].at = "idle"
    BY <1>0, <1>2 DEF Start
  <2>2. PICK n \in op[p].names, ts \in Later(migrations) :
          InsertOrFail(n, StartedRow(LatestMigration(migrations), ts))
    BY <1>2 DEF Start
  <2> DEFINE row == StartedRow(LatestMigration(migrations), ts)
  <2>3. n \in Names /\ ~row.done /\ row.parent = LatestMigration(migrations)
    BY <1>0 DEF Operation, StartedRow
  <2>4. ASSUME n \notin DOMAIN migrations, Constraints(Inserted(migrations, n, row)),
               migrations' = Inserted(migrations, n, row)
        PROVE  ActiveIsLeaf'
    <3>1. row.parent # n
      BY <1>0, <2>3, <2>4, LatestInTable, NamesAssumption DEF NoName
    <3>2. OnlyOneActive(Inserted(migrations, n, row))
      BY <2>4 DEF Constraints
    <3> HIDE DEF row
    <3>3. \A k \in ActiveMigrations(migrations') : ~HasChild(migrations', k)
      BY <1>0, <2>3, <2>4, <3>1, <3>2, InsertedLeaf
    <3> QED BY <3>3 DEF ActiveIsLeaf
  <2>5. ActiveIsLeaf'
    BY <1>1, <2>2, <2>4 DEF InsertOrFail
  <2> QED BY <2>1, <2>5, IdleIsFresh, SerialStep
<1>3. ASSUME NEW n, NEW row, row.done, migrations' = Inserted(migrations, n, row),
             ~IsActiveMigrationPeriod(migrations)
      PROVE  ~IsActiveMigrationPeriod(migrations') /\ ActiveIsLeaf'
  <2>1. \A k \in DOMAIN migrations' : migrations'[k].done
    BY <1>3 DEF Inserted, IsActiveMigrationPeriod, ActiveMigrations
  <2> QED BY <2>1 DEF IsActiveMigrationPeriod, ActiveMigrations, ActiveIsLeaf
<1>4. \A parent, type, ts : StampedRow(parent, type, ts).done
  BY DEF StampedRow
<1>5. CASE CreateBaseline(p)
  <2>1. op'[p].at = "idle" /\ ~IsActiveMigrationPeriod(migrations)
    BY <1>0, <1>5 DEF CreateBaseline, FreshOK
  <2>2. PICK n \in op[p].names, ts \in Later(migrations) :
          InsertOrFail(n, StampedRow(LatestMigration(migrations), "baseline", ts))
    BY <1>5 DEF CreateBaseline
  <2>3. ActiveIsLeaf'
    BY <1>1, <1>3, <1>4, <2>1, <2>2 DEF InsertOrFail
  <2> QED BY <2>1, <2>3, IdleIsFresh, SerialStep
<1>6. CASE Stamp(p)
  <2> DEFINE n == First(op[p].names)
             type == IF n \in BaselineFiles THEN "baseline" ELSE op[p].type
             parent == IF op[p].parent = NoName THEN LatestMigration(migrations)
                       ELSE op[p].parent
             next == IF op[p].names = {n} THEN Idle
                     ELSE [op[p] EXCEPT !.names = @ \ {n}, !.parent = n]
  <2>1. op[p].at = "stamp" /\ ~IsActiveMigrationPeriod(migrations)
    BY <1>0, <1>6 DEF Stamp, FreshOK
  <2>2. PICK ts \in Later(migrations) :
          \/ /\ migrations' = Inserted(migrations, n, StampedRow(parent, type, ts))
             /\ op' = [op EXCEPT ![p] = next]
          \/ op' = [op EXCEPT ![p] = Idle] /\ UNCHANGED migrations
    BY <1>6 DEF Stamp
  <2>3. next.at \in {"stamp", "idle"}
    BY <1>0, <2>1 DEF Operation
  <2> HIDE DEF next, n, parent, type
  <2>4. CASE op' = [op EXCEPT ![p] = Idle] /\ UNCHANGED migrations
    BY <1>0, <1>1, <2>4, IdleIsFresh, SerialStep
  <2>5. CASE /\ migrations' = Inserted(migrations, n, StampedRow(parent, type, ts))
             /\ op' = [op EXCEPT ![p] = next]
    <3>1. ~IsActiveMigrationPeriod(migrations') /\ ActiveIsLeaf'
      BY <1>3, <1>4, <2>1, <2>5
    <3>2. op'[p].at \in {"stamp", "idle"}
      BY <1>0, <2>3, <2>5
    <3>3. FreshOK(op[p], copy[p])'
      BY <3>1, <3>2 DEF FreshOK
    <3> QED BY <3>1, <3>3, SerialStep
  <2> QED BY <2>2, <2>4, <2>5
<1> QED BY <1>2, <1>5, <1>6

(***************************************************************************)
(* What Keepers leaves of a table: the other rows, with another parent.    *)
(***************************************************************************)
LEMMA KeepersFacts ==
  ASSUME NEW t, IsTable(t), NEW names
  PROVE  /\ DOMAIN Keepers(t, names) = DOMAIN t \ names
         /\ \A n \in DOMAIN t \ names :
              Keepers(t, names)[n] =
                [t[n] EXCEPT !.parent = Lag(Restrict(t, DOMAIN t \ names), n)]
<1> DEFINE kept == Restrict(t, DOMAIN t \ names)
<1>1. DOMAIN kept = DOMAIN t \ names /\ \A n \in DOMAIN kept : kept[n] = t[n]
  BY DEF Restrict
<1> HIDE DEF kept
<1>2. /\ DOMAIN Rewired(kept) = DOMAIN kept
      /\ \A n \in DOMAIN kept : Rewired(kept)[n] = [kept[n] EXCEPT !.parent = Lag(kept, n)]
  BY DEF Rewired
<1> QED BY <1>1, <1>2 DEF Keepers, kept

(***************************************************************************)
(* Prune and rebaseline.                                                   *)
(***************************************************************************)
LEMMA SurgeryKeepsSerial ==
  ASSUME OneAtATime, SerialInv, IInv', NEW p \in Procs,
         PruneCopy(p) \/ PruneSwap(p) \/ ConvertMigrationToBaseline(p)
  PROVE  SerialInv'
<1>0. /\ ActiveIsLeaf /\ op \in [Procs -> Operation] /\ Idle.at = "idle"
      /\ FreshOK(op[p], copy[p]) /\ IsTable(migrations) /\ DOMAIN copy = Procs
      /\ op[p] \in Operation /\ \A k \in DOMAIN migrations : migrations[k] \in Row
  BY DEF SerialInv, IInv, Idle, TableOK, IsTable, CopiesOK
<1>1. ~IsActiveMigrationPeriod(migrations)
  BY <1>0 DEF FreshOK, PruneCopy, PruneSwap, ConvertMigrationToBaseline
<1>2. CASE PruneCopy(p)
  <2>1. ActiveIsLeaf' /\ ~IsActiveMigrationPeriod(migrations')
    BY <1>0, <1>1, <1>2 DEF PruneCopy, ActiveIsLeaf, ActiveMigrations
  <2>2. CASE op' = [op EXCEPT ![p] = Idle]
    BY <1>0, <2>1, <2>2, IdleIsFresh, SerialStep
  <2>3. CASE /\ op' = [op EXCEPT ![p].at = "swap"]
             /\ copy' = [copy EXCEPT ![p] = Keepers(migrations, op[p].names)]
    <3>1. /\ op'[p].at = "swap" /\ op'[p].names = op[p].names
          /\ copy'[p] = Keepers(migrations, op[p].names)
      BY <1>0, <2>3 DEF Operation
    <3>2. migrations' = migrations
      BY <1>2 DEF PruneCopy
    <3>3. copy'[p] = Keepers(migrations', op'[p].names)
      BY <3>1, <3>2
    <3>4. FreshOK(op[p], copy[p])'
      BY <2>1, <3>1, <3>3 DEF FreshOK
    <3> QED BY <2>1, <3>4, SerialStep
  <2> QED BY <1>2, <2>2, <2>3 DEF PruneCopy
<1>3. CASE PruneSwap(p) \/ ConvertMigrationToBaseline(p)
  <2>1. op'[p].at = "idle"
    BY <1>0, <1>3 DEF PruneSwap, ConvertMigrationToBaseline
  <2>2. \A n \in DOMAIN migrations' : migrations'[n].done
    <3>0. \A n \in DOMAIN migrations : migrations[n].done
      BY <1>1 DEF IsActiveMigrationPeriod, ActiveMigrations
    <3>1. CASE PruneSwap(p)
      <4>1. migrations' = Keepers(migrations, op[p].names)
        BY <1>0, <3>1 DEF PruneSwap, FreshOK
      <4>2. SUFFICES ASSUME NEW n \in DOMAIN migrations' PROVE migrations'[n].done
        OBVIOUS
      <4>3. DOMAIN migrations' = DOMAIN migrations \ op[p].names
        BY <1>0, <4>1, KeepersFacts
      <4>4. migrations'[n] =
              [migrations[n] EXCEPT
                 !.parent = Lag(Restrict(migrations, DOMAIN migrations \ op[p].names), n)]
        BY <1>0, <4>1, <4>2, <4>3, KeepersFacts
      <4> QED BY <1>0, <3>0, <4>2, <4>3, <4>4 DEF Row
    <3>2. CASE ConvertMigrationToBaseline(p)
      BY <1>0, <3>0, <3>2 DEF ConvertMigrationToBaseline, ConvertedToBaseline, Row
    <3> QED BY <1>3, <3>1, <3>2
  <2>3. ActiveIsLeaf'
    BY <2>2 DEF ActiveIsLeaf, ActiveMigrations
  <2> QED BY <2>1, <2>3, IdleIsFresh, SerialStep
<1> QED BY <1>2, <1>3

(***************************************************************************)
(* Who takes a step, and which.                                            *)
(***************************************************************************)
LEMMA SomeProcess ==
  ASSUME Next
  PROVE  \E p \in Procs :
           \/ \/ \E n \in Names : \/ Complete(p, n) \/ MarkCompleteDeferred(p, n)
                                  \/ ClearCompleteDeferred(p, n) \/ Rollback(p, n)
                                  \/ DeleteMigration(p, n)
              \/ MarkSealed(p)
           \/ \/ \E n \in Names : \/ StartBegin(p, n) \/ BaselineBegin(p, n)
                                  \/ RebaselineBegin(p, n)
              \/ \E names \in SUBSET Names :
                    \/ PruneBegin(p, names)
                    \/ \E type \in StampTypes : StampBegin(p, names, type)
              \/ Stop(p)
           \/ Start(p) \/ CreateBaseline(p) \/ Stamp(p)
           \/ PruneCopy(p) \/ PruneSwap(p) \/ ConvertMigrationToBaseline(p)
BY Zenon DEF Next

(***************************************************************************)
(* With one process at a time the active row is a leaf, and what a process *)
(* has read stays true until it has acted on it.                           *)
(***************************************************************************)
THEOREM SerialInvariant ==
  ASSUME OneAtATime
  PROVE  Spec => []SerialInv
<1>1. ASSUME Init, IInv PROVE SerialInv
  <2>1. ActiveIsLeaf
    BY <1>1 DEF Init, EmptyTable, ActiveIsLeaf, ActiveMigrations
  <2>2. \A p \in Procs : op[p].at = "idle"
    BY <1>1 DEF Init, Idle
  <2>3. \A p \in Procs : FreshOK(op[p], copy[p])
    BY <2>2 DEF FreshOK
  <2> QED BY <1>1, <2>1, <2>3 DEF SerialInv
<1>2. ASSUME SerialInv, [Next]_vars, IInv' PROVE SerialInv'
  <2>1. CASE UNCHANGED vars
    <3>1. migrations' = migrations /\ op' = op /\ copy' = copy
      BY <2>1 DEF vars
    <3>2. ActiveIsLeaf'
      BY <1>2, <3>1 DEF SerialInv, ActiveIsLeaf, ActiveMigrations
    <3>3. \A p \in Procs : FreshOK(op[p], copy[p])'
      BY <1>2, <3>1 DEF SerialInv, FreshOK
    <3> QED BY <1>2, <3>2, <3>3 DEF SerialInv
  <2>2. CASE Next
    BY <1>2, <2>2, SomeProcess, StatementKeepsSerial, BeginKeepsSerial,
       InsertKeepsSerial, SurgeryKeepsSerial
  <2> QED BY <1>2, <2>1, <2>2
<1> QED BY <1>1, <1>2, InductiveInvariant, PTL DEF Spec

(***************************************************************************)
(* With one process at a time the active migration is the leaf, the row    *)
(* Rollback and revert remove, whatever baseline, stamp and prune did.     *)
(***************************************************************************)
THEOREM ActiveStaysLeaf ==
  ASSUME OneAtATime
  PROVE  Spec => []ActiveIsLeaf
<1>1. SerialInv => ActiveIsLeaf
  BY DEF SerialInv
<1> QED BY <1>1, SerialInvariant, PTL

(***************************************************************************)
(* With one process at a time prune deletes the named migrations and only  *)
(* those: its copy was made from the table it replaces.                    *)
(***************************************************************************)
THEOREM PruneIsExact ==
  ASSUME OneAtATime
  PROVE  Spec => PruneExact
<1> DEFINE A == \A p \in Procs :
                  op[p].at = "swap" /\ migrations' # migrations /\ op'[p].at = "idle" =>
                    /\ DOMAIN migrations' = DOMAIN migrations \ op[p].names
                    /\ \A n \in DOMAIN migrations' :
                         SameButParent(migrations[n], migrations'[n])
<1>1. ASSUME SerialInv, [Next]_vars PROVE [A]_vars
  <2>1. SUFFICES ASSUME Next, NEW p \in Procs, op[p].at = "swap", migrations' # migrations
                 PROVE  /\ DOMAIN migrations' = DOMAIN migrations \ op[p].names
                        /\ \A n \in DOMAIN migrations' :
                             SameButParent(migrations[n], migrations'[n])
    BY <1>1
  <2>2. PruneSwap(p)
    <3>1. \A q \in Procs : q = p
      BY OneAtATime DEF OneAtATime
    <3> QED BY <2>1, <3>1, SomeProcess
            DEF Complete, MarkCompleteDeferred, ClearCompleteDeferred, Rollback,
                DeleteMigration, MarkSealed, StartBegin, BaselineBegin, RebaselineBegin,
                PruneBegin, StampBegin, Stop, Start, CreateBaseline, Stamp, PruneCopy,
                ConvertMigrationToBaseline
  <2>3. IsTable(migrations) /\ \A n \in DOMAIN migrations : migrations[n] \in Row
    BY <1>1 DEF SerialInv, IInv, TableOK, IsTable
  <2>4. migrations' = Keepers(migrations, op[p].names)
    BY <1>1, <2>2 DEF SerialInv, FreshOK, PruneSwap
  <2>5. DOMAIN migrations' = DOMAIN migrations \ op[p].names
    BY <2>3, <2>4, KeepersFacts
  <2>6. ASSUME NEW n \in DOMAIN migrations' PROVE SameButParent(migrations[n], migrations'[n])
    <3>1. migrations'[n] =
            [migrations[n] EXCEPT
               !.parent = Lag(Restrict(migrations, DOMAIN migrations \ op[p].names), n)]
      BY <2>3, <2>4, <2>5, <2>6, KeepersFacts
    <3> QED BY <2>3, <2>5, <2>6, <3>1 DEF SameButParent, Row
  <2> QED BY <2>5, <2>6
<1> QED BY <1>1, SerialInvariant, PTL DEF Spec, PruneExact

(***************************************************************************)
(* latest_baseline of a table whose baselines were all created no later    *)
(* than a row b that is one of them.                                       *)
(***************************************************************************)
LEMMA LatestIs ==
  ASSUME NEW t, IsTable(t), DistinctTimes(t), NEW b \in Baselines(t),
         \A k \in Baselines(t) : t[k].created <= t[b].created
  PROVE  LatestBaseline(t) = b
<1>0. \A k \in DOMAIN t : t[k].created \in Nat
  BY TimestampsAssumption DEF IsTable, Row
<1>1. ASSUME NEW c \in Baselines(t), \A k \in Baselines(t) : t[k].created <= t[c].created
      PROVE  c = b
  <2>1. t[c].created <= t[b].created /\ t[b].created <= t[c].created
    BY <1>1
  <2>2. c \in DOMAIN t /\ b \in DOMAIN t
    BY DEF Baselines
  <2>3. t[c].created = t[b].created
    BY <1>0, <2>1, <2>2
  <2> QED BY <2>2, <2>3 DEF DistinctTimes
<1>2. LatestBaseline(t) = CHOOSE c \in Baselines(t) :
                            \A k \in Baselines(t) : t[k].created <= t[c].created
  BY DEF LatestBaseline
<1> QED BY <1>1, <1>2

(***************************************************************************)
(* The latest baseline of a table the audit accepts sorts before the       *)
(* anchor: the audit makes every baseline older than the anchor, and what  *)
(* is older sorts before it.                                               *)
(***************************************************************************)
LEMMA AuditedBaseline ==
  ASSUME NEW t, IsTable(t), NEW n, RebaselineAudit(t, n)
  PROVE  LatestBaseline(t) \in Nat /\ LatestBaseline(t) < n
<1>0. /\ \A k \in DOMAIN t : t[k].created \in Nat /\ k \in Nat
      /\ n \in DOMAIN t /\ n \in Nat /\ 0 < n
  BY NamesAssumption, TimestampsAssumption DEF IsTable, Row, RebaselineAudit
<1>1. CASE Baselines(t) = {}
  BY <1>0, <1>1 DEF LatestBaseline, NoName
<1>2. CASE Baselines(t) # {}
  <2> DEFINE S == {t[b].created : b \in Baselines(t)}
  <2>1. S \in SUBSET Nat /\ S # {} /\ t[n].created \in Nat
    BY <1>0, <1>2 DEF Baselines
  <2>2. \A x \in S : x <= t[n].created
    BY <1>0 DEF RebaselineAudit, Baselines
  <2>3. PICK x \in S : \A y \in S : y <= x
    BY <2>1, <2>2, GreatestNat
  <2>4. PICK b \in Baselines(t) : x = t[b].created
    BY <2>3
  <2>5. \A k \in Baselines(t) : t[k].created <= t[b].created
    BY <2>3, <2>4
  <2>6. LatestBaseline(t) \in Baselines(t)
    BY <1>2, <2>5 DEF LatestBaseline
  <2>7. \A k \in Baselines(t) : k \in Nat /\ k < n
    BY <1>0 DEF RebaselineAudit, Baselines
  <2> QED BY <2>6, <2>7
<1> QED BY <1>1, <1>2

(***************************************************************************)
(* Converting an audited anchor leaves as the schema history the part of   *)
(* it that sorts after the anchor.                                         *)
(***************************************************************************)
LEMMA ConvertedHistory ==
  ASSUME NEW t, IsTable(t), DistinctTimes(t), NEW n, RebaselineAudit(t, n)
  PROVE  /\ LatestBaseline(ConvertedToBaseline(t, n)) = n
         /\ n \in SchemaHistory(t)
         /\ SchemaHistory(t) \subseteq Names
         /\ SchemaHistory(ConvertedToBaseline(t, n)) = {k \in SchemaHistory(t) : k > n}
<1> DEFINE new == ConvertedToBaseline(t, n)
<1>0. /\ \A k \in DOMAIN t : /\ t[k].created \in Nat /\ k \in Nat /\ k \in Names
                             /\ t[k] \in Row
      /\ n \in DOMAIN t /\ t[n].type = "pgroll"
  BY NamesAssumption, TimestampsAssumption DEF IsTable, Row, RebaselineAudit
<1>1. /\ DOMAIN new = DOMAIN t
      /\ \A k \in DOMAIN t : new[k].created = t[k].created
      /\ \A k \in DOMAIN t : new[k].type = IF k = n THEN "baseline" ELSE t[k].type
  BY <1>0 DEF ConvertedToBaseline, Row
<1>2. IsTable(new)
  BY <1>0 DEF ConvertedToBaseline, IsTable, Row, Types
<1>3. DistinctTimes(new)
  BY <1>1 DEF DistinctTimes
<1> HIDE DEF new
<1>4. Baselines(new) = Baselines(t) \cup {n}
  BY <1>0, <1>1 DEF Baselines
<1>5. \A b \in Baselines(t) : b \in DOMAIN t /\ t[b].created < t[n].created
  BY DEF RebaselineAudit, Baselines
<1>6. LatestBaseline(new) = n
  <2>1. \A b \in Baselines(new) : new[b].created <= new[n].created
    BY <1>0, <1>1, <1>4, <1>5
  <2> QED BY <1>2, <1>3, <1>4, <2>1, LatestIs
<1>7. n \in SchemaHistory(t) /\ SchemaHistory(t) \subseteq Names
  BY <1>0, <1>5 DEF SchemaHistory
<1>8. ASSUME NEW k \in DOMAIN t
      PROVE  k \in SchemaHistory(new) <=> k \in SchemaHistory(t) /\ k > n
  <2>1. CASE k = n
    BY <1>0, <1>1, <1>4, <2>1 DEF SchemaHistory
  <2>2. CASE k # n /\ t[k].type = "inferred"
    BY <1>0, <1>1, <2>2 DEF SchemaHistory
  <2>3. CASE k # n /\ t[k].type # "inferred"
    <3>1. t[k].created <= t[n].created <=> k < n
      BY <2>3 DEF RebaselineAudit
    <3>2. k > n <=> t[n].created < t[k].created
      BY <1>0, <2>3, <3>1
    <3>3. k \in SchemaHistory(new) <=> t[n].created < t[k].created
      <4>1. k \in SchemaHistory(new) <=> \A b \in Baselines(new) : new[b].created < new[k].created
        BY <1>1, <2>3 DEF SchemaHistory
      <4>2. \A b \in Baselines(new) : new[b].created = t[b].created
        BY <1>0, <1>1, <1>4, <1>5
      <4>3. (\A b \in Baselines(new) : new[b].created < new[k].created)
              <=> t[n].created < t[k].created
        BY <1>0, <1>1, <1>4, <1>5, <4>2
      <4> QED BY <4>1, <4>3
    <3>4. t[n].created < t[k].created => k \in SchemaHistory(t)
      BY <1>0, <1>5, <2>3 DEF SchemaHistory
    <3> QED BY <3>2, <3>3, <3>4
  <2> QED BY <2>1, <2>2, <2>3
<1>9. SchemaHistory(new) \subseteq DOMAIN t /\ SchemaHistory(t) \subseteq DOMAIN t
  BY <1>1 DEF SchemaHistory
<1> QED BY <1>6, <1>7, <1>8, <1>9 DEF new

(***************************************************************************)
(* Only the UPDATE of rebaseline changes the type of a row that stays.     *)
(***************************************************************************)
LEMMA TypesKept ==
  ASSUME SerialInv, Next, ~\E p \in Procs : ConvertMigrationToBaseline(p)
  PROVE  \A n \in DOMAIN migrations \cap DOMAIN migrations' :
           migrations'[n].type = migrations[n].type
<1>0. /\ IsTable(migrations) /\ \A k \in DOMAIN migrations : migrations[k] \in Row
      /\ \A p \in Procs : FreshOK(op[p], copy[p])
  BY DEF SerialInv, IInv, TableOK, IsTable
<1>1. ASSUME NEW n, NEW row, n \notin DOMAIN migrations,
             migrations' = Inserted(migrations, n, row)
      PROVE  \A k \in DOMAIN migrations : migrations'[k] = migrations[k]
  BY <1>1 DEF Inserted
<1>2. ASSUME NEW p \in Procs, Start(p)
      PROVE  \A k \in DOMAIN migrations : migrations'[k] = migrations[k]
  <2>1. PICK n \in op[p].names, ts \in Later(migrations) :
          InsertOrFail(n, StartedRow(LatestMigration(migrations), ts))
    BY <1>2 DEF Start
  <2> QED BY <1>1, <2>1 DEF InsertOrFail
<1>3. ASSUME NEW p \in Procs, CreateBaseline(p)
      PROVE  \A k \in DOMAIN migrations : migrations'[k] = migrations[k]
  <2>1. PICK n \in op[p].names, ts \in Later(migrations) :
          InsertOrFail(n, StampedRow(LatestMigration(migrations), "baseline", ts))
    BY <1>3 DEF CreateBaseline
  <2> QED BY <1>1, <2>1 DEF InsertOrFail
<1>4. ASSUME NEW p \in Procs, Stamp(p)
      PROVE  \A k \in DOMAIN migrations : migrations'[k] = migrations[k]
  <2>1. \/ UNCHANGED migrations
        \/ \E n, row : n \notin DOMAIN migrations /\ migrations' = Inserted(migrations, n, row)
    BY <1>4 DEF Stamp
  <2> QED BY <1>1, <2>1
<1>5. ASSUME NEW p \in Procs, PruneSwap(p)
      PROVE  \A k \in DOMAIN migrations' : migrations'[k].type = migrations[k].type
  <2>1. migrations' = Keepers(migrations, op[p].names)
    BY <1>0, <1>5 DEF PruneSwap, FreshOK
  <2>2. DOMAIN migrations' = DOMAIN migrations \ op[p].names
    BY <1>0, <2>1, KeepersFacts
  <2>3. ASSUME NEW k \in DOMAIN migrations' PROVE migrations'[k].type = migrations[k].type
    <3>1. migrations'[k] =
            [migrations[k] EXCEPT
               !.parent = Lag(Restrict(migrations, DOMAIN migrations \ op[p].names), k)]
      BY <1>0, <2>1, <2>2, <2>3, KeepersFacts
    <3> QED BY <1>0, <2>2, <2>3, <3>1 DEF Row
  <2> QED BY <2>3
<1>6. ASSUME NEW p \in Procs, NEW n \in Names,
             \/ Complete(p, n) \/ MarkCompleteDeferred(p, n) \/ ClearCompleteDeferred(p, n)
      PROVE  \A k \in DOMAIN migrations' : migrations'[k].type = migrations[k].type
  BY <1>0, <1>6 DEF Complete, MarkCompleteDeferred, ClearCompleteDeferred, Completed,
                    MarkedDeferred, DeferredCleared, Row, ActiveMigrations, DeferredCompletes
<1>7. ASSUME NEW p \in Procs, NEW n \in Names, Rollback(p, n) \/ DeleteMigration(p, n)
      PROVE  \A k \in DOMAIN migrations' : migrations'[k] = migrations[k]
  BY <1>7 DEF Rollback, DeleteMigration, Deleted, Restrict
<1>8. ASSUME NEW p \in Procs, MarkSealed(p)
      PROVE  \A k \in DOMAIN migrations' : migrations'[k].type = migrations[k].type
  BY <1>0, <1>8 DEF MarkSealed, MarkedSealed, Row
<1>9. ASSUME NEW p \in Procs,
             \/ \E n \in Names : \/ StartBegin(p, n) \/ BaselineBegin(p, n)
                                 \/ RebaselineBegin(p, n)
             \/ \E names \in SUBSET Names :
                   \/ PruneBegin(p, names)
                   \/ \E type \in StampTypes : StampBegin(p, names, type)
             \/ Stop(p) \/ PruneCopy(p)
      PROVE  migrations' = migrations
  BY <1>9 DEF StartBegin, BaselineBegin, RebaselineBegin, PruneBegin, StampBegin, Stop,
              PruneCopy
<1> QED BY <1>2, <1>3, <1>4, <1>5, <1>6, <1>7, <1>8, <1>9, SomeProcess

(***************************************************************************)
(* With one process at a time, converting a migration to a baseline does   *)
(* not change what migrate would do with a directory truncated at it.      *)
(***************************************************************************)
THEOREM RebaseliningKeepsPlan ==
  ASSUME OneAtATime
  PROVE  Spec => RebaselineKeepsPlan
<1> DEFINE SamePlan(n, files) ==
             /\ Unapplied(migrations', files \cup {n}) = Unapplied(migrations, files \cup {n})
             /\ Unbacked(migrations', files \cup {n}) =
                  Unbacked(migrations, files \cup {n}) \ {k \in Names : k < n}
           A == \A n \in DOMAIN migrations \cap DOMAIN migrations' :
                  migrations[n].type # "baseline" /\ migrations'[n].type = "baseline" =>
                    LET After == {k \in Names : k > n}
                    IN  \A files \in SUBSET After : SamePlan(n, files)
<1>1. ASSUME SerialInv, [Next]_vars PROVE [A]_vars
  <2>1. SUFFICES ASSUME Next, NEW n \in DOMAIN migrations \cap DOMAIN migrations',
                        migrations[n].type # "baseline", migrations'[n].type = "baseline",
                        NEW files \in SUBSET {k \in Names : k > n}
                 PROVE  SamePlan(n, files)
    BY <1>1
  <2>2. PICK p \in Procs : ConvertMigrationToBaseline(p)
    BY <1>1, <2>1, TypesKept
  <2>3. /\ IsTable(migrations) /\ DistinctTimes(migrations) /\ FreshOK(op[p], copy[p])
        /\ n \in Names /\ n \in Nat /\ Names \subseteq Nat
    BY <1>1, NamesAssumption DEF SerialInv, IInv, TableOK, IsTable, InChainOrder
  <2>4. PICK m : op[p].names = {m} /\ RebaselineAudit(migrations, m)
    BY <2>2, <2>3 DEF ConvertMigrationToBaseline, FreshOK
  <2>5. migrations' = ConvertedToBaseline(migrations, m)
    BY <2>2, <2>4 DEF ConvertMigrationToBaseline
  <2>6. m = n
    BY <2>1, <2>5 DEF ConvertedToBaseline
  <2>7. /\ LatestBaseline(migrations') = n
        /\ n \in SchemaHistory(migrations) /\ SchemaHistory(migrations) \subseteq Names
        /\ SchemaHistory(migrations') = {k \in SchemaHistory(migrations) : k > n}
    BY <2>3, <2>4, <2>5, <2>6, ConvertedHistory
  <2>8. LatestBaseline(migrations) \in Nat /\ LatestBaseline(migrations) < n
    BY <2>3, <2>4, <2>6, AuditedBaseline
  <2>9. {f \in files \cup {n} : f > LatestBaseline(migrations)} = files \cup {n}
    <3>1. \A f \in files \cup {n} : f > LatestBaseline(migrations)
      <4>1. \A f \in files : f \in Nat /\ f > n
        BY <2>3
      <4> QED BY <2>3, <2>8, <4>1
    <3> QED BY <3>1
  <2>10. {f \in files \cup {n} : f > LatestBaseline(migrations')} = files
    <3>1. ~(n > n)
      BY <2>3
    <3>2. \A f \in files : f > n
      OBVIOUS
    <3> QED BY <2>7, <3>1, <3>2
  <2>11. Unapplied(migrations', files \cup {n}) = Unapplied(migrations, files \cup {n})
    BY <2>3, <2>7, <2>9, <2>10 DEF Unapplied
  <2>12. Unbacked(migrations', files \cup {n}) =
           Unbacked(migrations, files \cup {n}) \ {k \in Names : k < n}
    <3>1. \A k \in Names : k > n <=> k # n /\ ~(k < n)
      BY <2>3
    <3> QED BY <2>7, <2>9, <2>10, <3>1 DEF Unbacked
  <2> QED BY <2>11, <2>12
<1> QED BY <1>1, SerialInvariant, PTL DEF Spec, RebaselineKeepsPlan
=============================================================================
