-------------------------- MODULE DeploymentProofs --------------------------
(***************************************************************************)
(* Proofs about Deployment, for any names, timestamps, processes, classes  *)
(* of migrations, commands and interruptions.                              *)
(***************************************************************************)
EXTENDS Deployment, MigrationsTableProofs

----------------------------------------------------------------------------
(* The history as deployments leave it.                                    *)

\* The active migration is the newest row.
ActiveLast(t) == \A n \in ActiveMigrations(t), k \in DOMAIN t : t[k].created <= t[n].created

\* The rows that are not sealed are the newest.
WindowOK(t) ==
  \A n \in UnsealedMigrations(t), k \in DOMAIN t : t[k].sealed => t[k].created < t[n].created

\* No row is later than some timestamp, so that there is a newest row.
TableBounded(t) == \E b \in Nat : \A n \in DOMAIN t : t[n].created <= b

DeployedTable(t) == TableOK(t) /\ ActiveLast(t) /\ WindowOK(t) /\ TableBounded(t)

(***************************************************************************)
(* In a table that is not empty latest_migration() finds a row.            *)
(***************************************************************************)
LEMMA LatestExists ==
  ASSUME NEW t, IsTable(t), InChainOrder(t), TableBounded(t), DOMAIN t # {}
  PROVE  LatestMigration(t) \in DOMAIN t /\ LatestMigration(t) \in Names
<1> DEFINE T == {t[k].created : k \in DOMAIN t}
<1>0. \A k \in DOMAIN t : t[k].created \in Nat
  BY TimestampsAssumption DEF IsTable, Row
<1>1. PICK b \in Nat : \A x \in T : x <= b
  BY DEF TableBounded
<1>2. T \in SUBSET Nat /\ T # {}
  BY <1>0
<1>3. PICK x \in T : \A y \in T : y <= x
  BY <1>1, <1>2, GreatestNat
<1>4. PICK n \in DOMAIN t : t[n].created = x
  BY <1>3
<1>5. ~HasChild(t, n)
  <2> SUFFICES ASSUME NEW c \in DOMAIN t, t[c].parent = n PROVE FALSE
    BY DEF HasChild
  <2>1. n # NoName
    BY NamesAssumption DEF NoName, IsTable
  <2>2. t[n].created < t[c].created
    BY <2>1 DEF InChainOrder, FollowsPredecessor, IsLag
  <2> QED BY <2>2, <1>0, <1>3, <1>4
<1>6. Leaves(t) # {}
  BY <1>5 DEF Leaves
<1> QED BY <1>6 DEF LatestMigration, Leaves, IsTable

(***************************************************************************)
(* The INSERT of Start: the partial index on active rows refuses it while  *)
(* another migration is active, so the new row is the only active one.     *)
(***************************************************************************)
LEMMA StartedOK ==
  ASSUME NEW t, DeployedTable(t), NEW n \in Names, n \notin DOMAIN t,
         NEW ts \in Later(t),
         Constraints(Inserted(t, n, StartedRow(LatestMigration(t), ts)))
  PROVE  DeployedTable(Inserted(t, n, StartedRow(LatestMigration(t), ts)))
<1> DEFINE row == StartedRow(LatestMigration(t), ts)
           new == Inserted(t, n, row)
<1>0. IsTable(t) /\ \A k \in DOMAIN t : t[k].created \in Nat
  BY TimestampsAssumption DEF DeployedTable, TableOK, IsTable, Row
<1>1. ts \in Timestamps /\ ts \in Nat /\ \A k \in DOMAIN t : t[k].created < ts
  BY TimestampsAssumption DEF Later
<1>2. LatestMigration(t) \in Names \cup {NoName} /\ LatestMigration(t) # n
  BY <1>0, LatestInTable, NamesAssumption DEF IsTable, NoName
<1>3. /\ row \in Row /\ row.parent = LatestMigration(t) /\ row.created = ts
      /\ ~row.sealed /\ ~row.deferred /\ ~row.done
  BY <1>1, <1>2 DEF Row, StartedRow, Types
<1>4. /\ DOMAIN new = DOMAIN t \cup {n} /\ new[n] = row
      /\ \A k \in DOMAIN t : new[k] = t[k] /\ k # n
  BY DEF Inserted
<1>5. TableOK(new)
  BY <1>1, <1>2, <1>3, InsertOK DEF DeployedTable
<1> HIDE DEF row, new
<1>6. ActiveLast(new)
  <2>1. \A k \in DOMAIN t : t[k].done
    BY <1>3, <1>4 DEF Constraints, OnlyOneActive, new, row
  <2> QED BY <2>1, <1>0, <1>1, <1>3, <1>4 DEF ActiveLast, ActiveMigrations
<1>7. WindowOK(new)
  BY <1>0, <1>1, <1>3, <1>4 DEF DeployedTable, WindowOK, UnsealedMigrations
<1>8. TableBounded(new)
  BY <1>0, <1>1, <1>3, <1>4 DEF TableBounded
<1> QED BY <1>5, <1>6, <1>7, <1>8 DEF DeployedTable, new, row

(***************************************************************************)
(* The DELETE of a leaf.                                                   *)
(***************************************************************************)
LEMMA DeletedOK ==
  ASSUME NEW t, DeployedTable(t), NEW n, ~HasChild(t, n)
  PROVE  DeployedTable(Deleted(t, n))
<1>1. TableOK(Deleted(t, n))
  BY DeleteOK DEF DeployedTable
<1>2. /\ DOMAIN Deleted(t, n) = DOMAIN t \ {n}
      /\ \A k \in DOMAIN Deleted(t, n) : Deleted(t, n)[k] = t[k]
  BY DEF Deleted, Restrict
<1> QED BY <1>1, <1>2 DEF DeployedTable, ActiveLast, ActiveMigrations, WindowOK,
                          UnsealedMigrations, TableBounded

(***************************************************************************)
(* The UPDATEs of Complete, MarkCompleteDeferred and ClearCompleteDeferred *)
(* leave the window alone; MarkSealed seals all of it but the active row,  *)
(* which is the newest.                                                    *)
(***************************************************************************)
LEMMA FlagsOK ==
  ASSUME NEW t, DeployedTable(t), NEW n \in DOMAIN t
  PROVE  /\ DeployedTable(Completed(t, n))
         /\ DeployedTable(MarkedDeferred(t, n))
         /\ DeployedTable(DeferredCleared(t, n))
<1>0. TableOK(t) /\ \A k \in DOMAIN t : t[k] \in Row
  BY DEF DeployedTable, TableOK, IsTable
<1>1. ASSUME NEW u, TableOK(u), DOMAIN u = DOMAIN t,
             \A k \in DOMAIN t : /\ u[k].created = t[k].created
                                 /\ u[k].sealed = t[k].sealed
                                 /\ t[k].done => u[k].done
      PROVE  DeployedTable(u)
  BY <1>1 DEF DeployedTable, ActiveLast, ActiveMigrations, WindowOK,
              UnsealedMigrations, TableBounded
<1>2. DeployedTable(Completed(t, n))
  <2> DEFINE u == Completed(t, n)
  <2>1. /\ DOMAIN u = DOMAIN t
        /\ \A k \in DOMAIN t : /\ u[k].created = t[k].created
                               /\ u[k].sealed = t[k].sealed
                               /\ t[k].done => u[k].done
    BY <1>0 DEF Completed, Row
  <2>2. TableOK(u)
    BY <1>0, FlagWritesOK
  <2> HIDE DEF u
  <2> QED BY <2>1, <2>2, <1>1 DEF u
<1>3. DeployedTable(MarkedDeferred(t, n))
  <2> DEFINE u == MarkedDeferred(t, n)
  <2>1. /\ DOMAIN u = DOMAIN t
        /\ \A k \in DOMAIN t : /\ u[k].created = t[k].created
                               /\ u[k].sealed = t[k].sealed
                               /\ t[k].done => u[k].done
    BY <1>0 DEF MarkedDeferred, Row
  <2>2. TableOK(u)
    BY <1>0, FlagWritesOK
  <2> HIDE DEF u
  <2> QED BY <2>1, <2>2, <1>1 DEF u
<1>4. DeployedTable(DeferredCleared(t, n))
  <2> DEFINE u == DeferredCleared(t, n)
  <2>1. /\ DOMAIN u = DOMAIN t
        /\ \A k \in DOMAIN t : /\ u[k].created = t[k].created
                               /\ u[k].sealed = t[k].sealed
                               /\ t[k].done => u[k].done
    BY <1>0 DEF DeferredCleared, Row
  <2>2. TableOK(u)
    BY <1>0, FlagWritesOK
  <2> HIDE DEF u
  <2> QED BY <2>1, <2>2, <1>1 DEF u
<1> QED BY <1>2, <1>3, <1>4

(***************************************************************************)
(* MarkSealed seals all of the window but the active row, which is the     *)
(* newest: no hole is left in what revert walks.                           *)
(***************************************************************************)
LEMMA SealedOK ==
  ASSUME NEW t, DeployedTable(t)
  PROVE  DeployedTable(MarkedSealed(t))
<1> DEFINE u == MarkedSealed(t)
<1>0. /\ TableOK(t) /\ \A k \in DOMAIN t : t[k] \in Row
      /\ \A k \in DOMAIN t : t[k].created \in Nat
  BY TimestampsAssumption DEF DeployedTable, TableOK, IsTable, Row
<1>1. /\ DOMAIN u = DOMAIN t
      /\ \A k \in DOMAIN t : /\ u[k].created = t[k].created
                             /\ u[k].done = t[k].done
                             /\ u[k].sealed <=> t[k].sealed \/ t[k].done
  BY <1>0 DEF MarkedSealed, Row
<1>2. TableOK(u)
  <2>1. CASE DOMAIN t = {}
    <3>1. u = t
      BY <1>0, <2>1 DEF MarkedSealed, TableOK, IsTable
    <3> QED BY <3>1, <1>0
  <2>2. CASE DOMAIN t # {}
    BY <1>0, <2>2, FlagWritesOK
  <2> QED BY <2>1, <2>2
<1> HIDE DEF u
<1>3. ActiveLast(u)
  BY <1>0, <1>1 DEF DeployedTable, ActiveLast, ActiveMigrations
<1>4. WindowOK(u)
  <2> SUFFICES ASSUME NEW n \in UnsealedMigrations(u), NEW k \in DOMAIN u, u[k].sealed
               PROVE  u[k].created < u[n].created
    BY DEF WindowOK
  <2>1. n \in DOMAIN t /\ ~t[n].done /\ k \in DOMAIN t
    BY <1>1 DEF UnsealedMigrations
  <2>2. t[k].done /\ k # n
    BY <2>1, <1>0, <1>1 DEF TableOK, RowsConsistent
  <2>3. t[k].created <= t[n].created
    BY <2>1 DEF DeployedTable, ActiveLast, ActiveMigrations
  <2>4. t[k].created # t[n].created
    BY <2>1, <2>2, <1>0 DEF TableOK, InChainOrder, DistinctTimes
  <2> QED BY <2>1, <2>3, <2>4, <1>0, <1>1
<1>5. TableBounded(u)
  BY <1>1 DEF DeployedTable, TableBounded
<1> QED BY <1>2, <1>3, <1>4, <1>5 DEF DeployedTable, u

----------------------------------------------------------------------------
(* The processes.                                                          *)

\* The steps that work on the migration `cur`.
Working == Steps \ {"active", "stamp", "cleanup"}

QueueBounded(q) == \E b \in Nat : \A n \in DOMAIN q : q[n] <= b

ProcOK(s) == /\ s \in Process
             /\ s.at \in Working => s.cur \in Names
             /\ QueueBounded(s.queue)

StateOK == /\ phys \in [Names -> Phases]
           /\ snapshot \in [Names -> [Names -> Phases]]
           /\ marker \subseteq Names /\ schemas \subseteq Names
           /\ fleet \in Names \cup {NoName}
           /\ versionSchemas \in BOOLEAN

ProcsOK == /\ proc \in [Procs -> Process]
           /\ \A p \in Procs : ProcOK(proc[p])

(***************************************************************************)
(* The inductive invariant: the history is one chain whose unsealed rows   *)
(* are the newest, and every process that works on a migration works on    *)
(* one that has a name.                                                    *)
(***************************************************************************)
IInv == DeployedTable(migrations) /\ StateOK /\ ProcsOK

(***************************************************************************)
(* A process that runs no command satisfies the invariant.                 *)
(***************************************************************************)
LEMMA IdleOK == ProcOK(Idle) /\ Idle.at = "idle" /\ Idle.todo = {} /\ Idle.cur = NoName
<1>1. NoQueue \in UNION {[S -> Timestamps] : S \in SUBSET Names} /\ DOMAIN NoQueue = {}
  <2>1. NoQueue \in [{} -> Timestamps] /\ {} \in SUBSET Names /\ DOMAIN NoQueue = {}
    BY DEF NoQueue
  <2> QED BY <2>1
<1>2. Idle \in Process
  BY <1>1 DEF Idle, Process, Steps
<1>3. QueueBounded(Idle.queue)
  BY <1>1 DEF Idle, QueueBounded
<1> QED BY <1>2, <1>3 DEF ProcOK, Idle, Working, Steps

(***************************************************************************)
(* A process that takes a sound state leaves every process sound; so does  *)
(* one that moves to a step it has the migration for, and one that ends.   *)
(***************************************************************************)
LEMMA BecomeOK ==
  ASSUME ProcsOK, NEW p \in Procs, NEW s, ProcOK(s), Become(p, s)
  PROVE  ProcsOK'
<1>1. proc' \in [Procs -> Process]
  BY DEF ProcsOK, Become, ProcOK
<1>2. \A q \in Procs : ProcOK(proc'[q])
  BY DEF ProcsOK, Become
<1> QED BY <1>1, <1>2 DEF ProcsOK, ProcOK, QueueBounded, Process

(***************************************************************************)
(* A process moves to a step it has the migration for.                     *)
(***************************************************************************)
LEMMA GotoOK ==
  ASSUME ProcsOK, NEW p \in Procs, NEW step \in Steps, Goto(p, step),
         step \in Working => proc[p].cur \in Names
  PROVE  ProcsOK'
<1>1. ProcOK([proc[p] EXCEPT !.at = step])
  BY DEF ProcsOK, ProcOK, Process
<1> QED BY <1>1, BecomeOK DEF Goto

(***************************************************************************)
(* A process ends its command.                                             *)
(***************************************************************************)
LEMMA ReturnOK ==
  ASSUME ProcsOK, NEW p \in Procs, Return(p)
  PROVE  ProcsOK'
BY IdleOK, BecomeOK DEF Return

(***************************************************************************)
(* The queue a command reads from the table.                               *)
(***************************************************************************)
LEMMA ByCreationOK ==
  ASSUME DeployedTable(migrations), NEW S \in SUBSET DOMAIN migrations
  PROVE  /\ ByCreation(S) \in UNION {[T -> Timestamps] : T \in SUBSET Names}
         /\ DOMAIN ByCreation(S) = S
         /\ QueueBounded(ByCreation(S))
<1>1. \A n \in DOMAIN migrations : migrations[n].created \in Timestamps
  BY DEF DeployedTable, TableOK, IsTable, Row
<1>2. DOMAIN migrations \subseteq Names
  BY DEF DeployedTable, TableOK, IsTable
<1>3. ByCreation(S) \in [S -> Timestamps] /\ S \in SUBSET Names
  BY <1>1, <1>2 DEF ByCreation
<1>4. QueueBounded(ByCreation(S))
  BY DEF DeployedTable, TableBounded, QueueBounded, ByCreation
<1> QED BY <1>3, <1>4

(***************************************************************************)
(* A queue without one of its rows.                                        *)
(***************************************************************************)
LEMMA RestOK ==
  ASSUME NEW q \in UNION {[T -> Timestamps] : T \in SUBSET Names}, QueueBounded(q), NEW n
  PROVE  LET rest == Restrict(q, DOMAIN q \ {n})
         IN  /\ rest \in UNION {[T -> Timestamps] : T \in SUBSET Names}
             /\ DOMAIN rest = DOMAIN q \ {n}
             /\ QueueBounded(rest)
<1> DEFINE rest == Restrict(q, DOMAIN q \ {n})
<1>1. DOMAIN q \in SUBSET Names /\ q \in [DOMAIN q -> Timestamps]
  OBVIOUS
<1>2. rest \in [DOMAIN q \ {n} -> Timestamps] /\ DOMAIN q \ {n} \in SUBSET Names
  BY <1>1 DEF Restrict
<1>3. QueueBounded(rest)
  BY DEF QueueBounded, Restrict
<1> QED BY <1>2, <1>3

(***************************************************************************)
(* A queue that is not empty has a newest row and an oldest one.           *)
(***************************************************************************)
LEMMA NewestOK ==
  ASSUME NEW q \in UNION {[T -> Timestamps] : T \in SUBSET Names}, QueueBounded(q),
         DOMAIN q # {}
  PROVE  /\ Newest(q) \in DOMAIN q /\ Newest(q) \in Names
         /\ Oldest(q) \in DOMAIN q /\ Oldest(q) \in Names
<1> DEFINE T == {q[k] : k \in DOMAIN q}
<1>0. DOMAIN q \in SUBSET Names /\ \A k \in DOMAIN q : q[k] \in Nat
  BY TimestampsAssumption
<1>1. PICK b \in Nat : \A x \in T : x <= b
  BY DEF QueueBounded
<1>2. T \in SUBSET Nat /\ T # {}
  BY <1>0
<1>3. PICK x \in T : \A y \in T : y <= x
  BY <1>1, <1>2, GreatestNat
<1>4. PICK n \in DOMAIN q : q[n] = x
  BY <1>3
<1>5. \A k \in DOMAIN q : q[k] <= q[n]
  BY <1>3, <1>4
<1>6. PICK y \in T : \A x1 \in T : y <= x1
  BY <1>2, LeastNat
<1>7. PICK o \in DOMAIN q : \A k \in DOMAIN q : q[o] <= q[k]
  BY <1>6
<1> QED BY <1>0, <1>5, <1>7 DEF Newest, Oldest

(***************************************************************************)
(* The first migration of a train is one of it.                            *)
(***************************************************************************)
LEMMA FirstOK ==
  ASSUME NEW names \in SUBSET Names, names # {}
  PROVE  First(names) \in names /\ First(names) \in Names
<1>1. \E x \in names : \A y \in names : x <= y
  BY LeastNat, NamesAssumption
<1> QED BY <1>1 DEF First

(***************************************************************************)
(* The ends of the steps of a migrate: on to Complete, to the next         *)
(* migration of the train, or back.                                        *)
(***************************************************************************)
LEMMA TrainOK ==
  ASSUME ProcsOK, NEW p \in Procs, proc[p].cur \in Names,
         AfterStart(p) \/ AfterViews(p) \/ NextMigration(p)
  PROVE  ProcsOK'
<1>1. CASE AfterStart(p)
  BY <1>1, GotoOK, ReturnOK DEF AfterStart, Steps
<1>2. CASE AfterViews(p)
  BY <1>1, <1>2, GotoOK, ReturnOK DEF AfterViews, AfterStart, Steps
<1>3. CASE NextMigration(p) /\ Intermediate(p)
  <2> DEFINE rest == proc[p].todo \ {First(proc[p].todo)}
             s == [proc[p] EXCEPT !.at = "start", !.cur = First(rest), !.todo = rest]
  <2>1. proc[p] \in Process /\ QueueBounded(proc[p].queue)
    BY DEF ProcsOK, ProcOK
  <2>2. proc[p].todo \in SUBSET Names /\ proc[p].todo # {}
    BY <1>3, <2>1 DEF Process, Intermediate
  <2>3. rest \in SUBSET Names /\ rest # {}
    BY <1>3, <2>2, FirstOK DEF Intermediate
  <2>4. First(rest) \in Names
    BY <2>3, FirstOK
  <2>5. ProcOK(s)
    BY <2>1, <2>3, <2>4 DEF ProcOK, Process, Steps
  <2>6. Become(p, s)
    BY <1>3 DEF NextMigration
  <2> QED BY <2>5, <2>6, BecomeOK
<1>4. CASE NextMigration(p) /\ ~Intermediate(p)
  BY <1>4, ReturnOK DEF NextMigration
<1> QED BY <1>1, <1>2, <1>3, <1>4

----------------------------------------------------------------------------
(* Every step keeps the invariant.                                         *)

(***************************************************************************)
(* A step that leaves the database alone and the processes sound.          *)
(***************************************************************************)
LEMMA QuietStep ==
  ASSUME IInv, UNCHANGED <<db, env>>, ProcsOK'
  PROVE  IInv'
BY DEF IInv, StateOK, db, env

(***************************************************************************)
(* A command begins: it works on a migration the table holds, or on the    *)
(* first one of its train.                                                 *)
(***************************************************************************)
LEMMA CommandKeepsInv ==
  ASSUME IInv, NEW p \in Procs, Command(p)
  PROVE  IInv'
<1>0. /\ ProcsOK /\ DeployedTable(migrations) /\ DOMAIN migrations \subseteq Names
      /\ ActiveMigrations(migrations) \subseteq DOMAIN migrations
      /\ ProcOK(Idle) /\ Idle \in Process
      /\ Idle.at = "idle" /\ QueueBounded(Idle.queue)
  BY IdleOK DEF IInv, DeployedTable, TableOK, IsTable, ActiveMigrations, ProcOK
<1>1. ASSUME NEW names \in SUBSET Names, NEW converge \in BOOLEAN,
             MigrateBegin(p, names, converge)
      PROVE  IInv'
  <2> DEFINE s == [Idle EXCEPT !.at = "start", !.verb = "migrate",
                               !.cur = First(names), !.todo = names,
                               !.converge = converge]
  <2>1. First(names) \in Names
    BY <1>1, FirstOK DEF MigrateBegin
  <2>2. ProcOK(s)
    BY <1>0, <2>1 DEF ProcOK, Process, Steps
  <2>3. Become(p, s)
    BY <1>1 DEF MigrateBegin
  <2> QED BY <1>0, <1>1, <2>2, <2>3, BecomeOK, QuietStep DEF MigrateBegin
<1>2. ASSUME NEW n \in Names, MigrateAwaiting(p, n) \/ CompleteBegin(p, n)
      PROVE  IInv'
  <2> DEFINE s == [Idle EXCEPT !.at = "active", !.verb = "complete"]
  <2>1. ProcOK(s)
    BY <1>0 DEF ProcOK, Process, Steps, Working
  <2>2. Become(p, s) /\ UNCHANGED <<db, env>>
    BY <1>2 DEF MigrateAwaiting, CompleteBegin
  <2> QED BY <1>0, <2>1, <2>2, BecomeOK, QuietStep
<1>3. ASSUME NEW n \in Names, RollbackBegin(p, n)
      PROVE  IInv'
  <2> DEFINE s == [Idle EXCEPT !.at = "dropVersion", !.verb = "rollback", !.cur = n]
  <2>1. ProcOK(s)
    BY <1>0 DEF ProcOK, Process, Steps
  <2>2. Become(p, s) /\ UNCHANGED <<db, env>>
    BY <1>3 DEF RollbackBegin
  <2> QED BY <1>0, <2>1, <2>2, BecomeOK, QuietStep
<1>4. ASSUME NEW n \in Names, RevertBegin(p, n)
      PROVE  IInv'
  <2> DEFINE window  == UnsealedMigrations(migrations)
             targets == {k \in window : migrations[k].created >= migrations[n].created}
             applied == {k \in targets : migrations[k].done /\ ~migrations[k].deferred}
             s == [Idle EXCEPT !.at = "dropVersion", !.verb = "revert",
                               !.cur = Newest(ByCreation(targets)),
                               !.queue = ByCreation(targets),
                               !.applied = applied]
  <2>1. n \in window /\ Become(p, s) /\ UNCHANGED <<db, env>>
    BY <1>4 DEF RevertBegin
  <2>2. targets \in SUBSET DOMAIN migrations /\ targets # {}
    <3>1. migrations[n].created \in Nat
      BY <1>0, <2>1, TimestampsAssumption
         DEF UnsealedMigrations, DeployedTable, TableOK, IsTable, Row
    <3> QED BY <2>1, <3>1 DEF UnsealedMigrations
  <2>3. applied \in SUBSET Names
    BY <1>0, <2>2
  <2> HIDE DEF applied, targets
  <2>4. /\ ByCreation(targets) \in UNION {[T -> Timestamps] : T \in SUBSET Names}
        /\ DOMAIN ByCreation(targets) # {}
        /\ QueueBounded(ByCreation(targets))
    BY <1>0, <2>2, ByCreationOK
  <2>5. Newest(ByCreation(targets)) \in Names
    BY <2>4, NewestOK
  <2>6. ProcOK(s)
    BY <1>0, <2>3, <2>4, <2>5 DEF ProcOK, Process, Steps
  <2> QED BY <1>0, <2>1, <2>6, BecomeOK, QuietStep
<1>5. ASSUME NEW force \in BOOLEAN, FinishBegin(p, force)
      PROVE  IInv'
  <2> DEFINE queue == ByCreation(DeferredCompletes(migrations))
             live  == LatestMigration(migrations)
             s1 == [Idle EXCEPT !.at = "stamp", !.verb = "finish"]
             s2 == [Idle EXCEPT !.at = "seal", !.verb = "finish", !.cur = live,
                                !.queue = queue,
                                !.dropLive = DOMAIN queue \cap OnCompleteSQL # {}]
  <2>1. ProcOK(s1)
    BY <1>0 DEF ProcOK, Process, Steps, Working
  <2>2. DeferredCompletes(migrations) \in SUBSET DOMAIN migrations
    BY DEF DeferredCompletes
  <2>3. /\ queue \in UNION {[T -> Timestamps] : T \in SUBSET Names}
        /\ DOMAIN queue = DeferredCompletes(migrations)
        /\ QueueBounded(queue)
    BY <1>0, <2>2, ByCreationOK
  <2>4. ASSUME DOMAIN queue # {} PROVE ProcOK(s2)
    <3>1. live \in Names
      BY <1>0, <2>2, <2>3, <2>4, LatestExists DEF DeployedTable, TableOK
    <3> HIDE DEF queue, live
    <3> QED BY <1>0, <2>3, <3>1 DEF ProcOK, Process, Steps
  <2>5. \/ Become(p, s1)
        \/ DOMAIN queue # {} /\ Become(p, s2)
    BY <1>5 DEF FinishBegin
  <2> HIDE DEF s1, s2, queue
  <2> QED BY <1>0, <1>5, <2>1, <2>4, <2>5, BecomeOK, QuietStep DEF FinishBegin
<1> QED BY <1>1, <1>2, <1>3, <1>4, <1>5 DEF Command

(***************************************************************************)
(* A process dies, fails in Start and rolls back, or the fleet moves.      *)
(***************************************************************************)
LEMMA InterruptionKeepsInv ==
  ASSUME IInv
  PROVE  /\ \A p \in Procs : Crash(p) \/ StartFails(p) => IInv'
         /\ \A s \in Names \cup {NoName} : Repin(s) => IInv'
<1>0. /\ ProcsOK /\ ActiveMigrations(migrations) \subseteq Names
      /\ ProcOK(Idle) /\ Idle \in Process
      /\ Idle.at = "idle" /\ QueueBounded(Idle.queue)
  BY IdleOK DEF IInv, DeployedTable, TableOK, IsTable, ActiveMigrations, ProcOK
<1>1. ASSUME NEW p \in Procs, Crash(p) PROVE IInv'
  BY <1>0, <1>1, ReturnOK, QuietStep DEF Crash
<1>2. ASSUME NEW p \in Procs, StartFails(p) PROVE IInv'
  <2>1. CASE Return(p)
    BY <1>0, <1>2, <2>1, ReturnOK, QuietStep DEF StartFails
  <2>2. ASSUME NEW n \in ActiveMigrations(migrations),
               Become(p, [Idle EXCEPT !.at = "dropVersion", !.verb = "rollback", !.cur = n])
        PROVE  IInv'
    <3> DEFINE s == [Idle EXCEPT !.at = "dropVersion", !.verb = "rollback", !.cur = n]
    <3>1. ProcOK(s)
      BY <1>0 DEF ProcOK, Process, Steps
    <3> QED BY <1>0, <1>2, <2>2, <3>1, BecomeOK, QuietStep DEF StartFails
  <2> QED BY <1>2, <2>1, <2>2 DEF StartFails
<1>3. ASSUME NEW s \in Names \cup {NoName}, Repin(s) PROVE IInv'
  BY <1>3 DEF Repin, IInv, StateOK, ProcsOK, db
<1> QED BY <1>1, <1>2, <1>3

(***************************************************************************)
(* The steps of Start.                                                     *)
(***************************************************************************)
LEMMA StartStepsKeepInv ==
  ASSUME IInv, NEW p \in Procs,
         \/ StartBegin(p) \/ Start(p) \/ StartOperations(p) \/ EnsureViews(p)
         \/ CreateTriggers(p) \/ Backfill(p)
  PROVE  IInv'
<1>0. ProcsOK /\ StateOK /\ DeployedTable(migrations)
  BY DEF IInv
<1>1. proc[p].cur \in Names
  <2>1. proc[p].at \in {"start", "insert", "ops", "views", "triggers", "backfill"}
    BY DEF StartBegin, Start, StartOperations, EnsureViews, CreateTriggers, Backfill, At
  <2> QED BY <1>0, <2>1 DEF ProcsOK, ProcOK, Working, Steps
<1>2. CASE StartBegin(p)
  <2>1. ProcsOK'
    BY <1>0, <1>1, <1>2, ReturnOK, GotoOK DEF StartBegin, Steps
  <2> QED BY <1>2, <2>1, QuietStep DEF StartBegin
<1>3. CASE Start(p)
  <2>1. StateOK'
    BY <1>0, <1>3 DEF Start, StateOK, env
  <2> DEFINE n == proc[p].cur
             new(ts) == Inserted(migrations, n, StartedRow(LatestMigration(migrations), ts))
  <2>2. PICK ts \in Later(migrations) :
          IF n \notin DOMAIN migrations /\ Constraints(new(ts))
          THEN migrations' = new(ts) /\ Goto(p, "ops")
          ELSE UNCHANGED migrations /\ Return(p)
    BY <1>3 DEF Start
  <2>3. ASSUME n \notin DOMAIN migrations, Constraints(new(ts))
        PROVE  DeployedTable(new(ts))
    BY <1>0, <1>1, <2>3, StartedOK
  <2> HIDE DEF new
  <2>4. DeployedTable(migrations')
    BY <1>0, <2>2, <2>3
  <2>5. ProcsOK'
    BY <1>0, <1>1, <2>2, GotoOK, ReturnOK DEF Steps
  <2> QED BY <2>1, <2>4, <2>5 DEF IInv
<1>4. CASE StartOperations(p)
  <2>1. StateOK'
    BY <1>0, <1>4 DEF StartOperations, StateOK, env, Phases
  <2>2. ProcsOK'
    <3>1. CASE UNCHANGED proc
      BY <1>0, <3>1 DEF ProcsOK
    <3>2. CASE Goto(p, "views")
      BY <1>0, <1>1, <3>2, GotoOK DEF Steps
    <3>3. CASE AfterViews(p)
      BY <1>0, <1>1, <3>3, TrainOK
    <3> QED BY <1>4, <3>1, <3>2, <3>3 DEF StartOperations
  <2> QED BY <1>0, <1>4, <2>1, <2>2 DEF IInv, StartOperations
<1>5. CASE EnsureViews(p)
  <2>1. StateOK'
    BY <1>0, <1>1, <1>5 DEF EnsureViews, StateOK, env
  <2>2. ProcsOK'
    BY <1>0, <1>1, <1>5, TrainOK DEF EnsureViews
  <2> QED BY <1>0, <1>5, <2>1, <2>2 DEF IInv, EnsureViews
<1>6. CASE CreateTriggers(p)
  <2>1. phys' \in [Names -> Phases] /\ marker' \subseteq Names
    BY <1>0, <1>1, <1>6 DEF CreateTriggers, StateOK, Phases
  <2>2. StateOK'
    BY <1>0, <1>6, <2>1 DEF CreateTriggers, StateOK, env
  <2>3. ProcsOK'
    BY <1>0, <1>1, <1>6, GotoOK, ReturnOK DEF CreateTriggers, Steps
  <2> QED BY <1>0, <1>6, <2>2, <2>3 DEF IInv, CreateTriggers
<1>7. CASE Backfill(p)
  <2>1. StateOK'
    BY <1>0, <1>1, <1>7 DEF Backfill, StateOK, env, Phases
  <2>2. ProcsOK'
    BY <1>0, <1>1, <1>7, TrainOK DEF Backfill
  <2> QED BY <1>0, <1>7, <2>1, <2>2 DEF IInv, Backfill
<1> QED BY <1>2, <1>3, <1>4, <1>5, <1>6, <1>7

(***************************************************************************)
(* The Complete operations of a migration.                                 *)
(***************************************************************************)
LEMMA ContractOK ==
  ASSUME StateOK, ProcsOK, NEW p \in Procs, NEW n, NEW step \in Steps,
         proc[p].cur \in Names, Contract(p, n, step)
  PROVE  /\ phys' \in [Names -> Phases] /\ marker' \subseteq Names
         /\ ProcsOK'
<1>1. phys' \in [Names -> Phases] /\ marker' \subseteq Names
  BY DEF Contract, StateOK, Phases
<1>2. ProcsOK'
  <2>1. CASE UNCHANGED proc
    BY <2>1 DEF ProcsOK
  <2>2. CASE Goto(p, step)
    BY <2>2, GotoOK
  <2>3. CASE Return(p)
    BY <2>3, ReturnOK
  <2> QED BY <2>1, <2>2, <2>3 DEF Contract
<1> QED BY <1>1, <1>2

(***************************************************************************)
(* The steps of Complete and FinishContraction that write no row.          *)
(***************************************************************************)
LEMMA ContractionStepsKeepInv ==
  ASSUME IInv, NEW p \in Procs,
         \/ GetActiveMigration(p) \/ DropOldSchemas(p) \/ ReadQueue(p)
         \/ DropLiveSchema(p) \/ ApplyDeferredComplete(p) \/ CompleteOperations(p)
         \/ RefreshResultingSchema(p) \/ Reproject(p) \/ CleanUpSchemas(p)
  PROVE  IInv'
<1>0. ProcsOK /\ StateOK /\ DeployedTable(migrations) /\ DOMAIN migrations \subseteq Names
  BY DEF IInv, DeployedTable, TableOK, IsTable
<1>1. /\ proc[p] \in Process /\ QueueBounded(proc[p].queue)
      /\ proc[p].at \in Working => proc[p].cur \in Names
  BY <1>0 DEF ProcsOK, ProcOK
<1>2. CASE GetActiveMigration(p)
  <2>1. CASE Return(p)
    BY <1>0, <1>2, <2>1, ReturnOK, QuietStep DEF GetActiveMigration
  <2>2. ASSUME NEW n \in ActiveMigrations(migrations), NEW at \in Steps,
               Become(p, [proc[p] EXCEPT !.cur = n, !.at = at])
        PROVE  ProcsOK'
    <3>1. n \in Names
      BY <1>0 DEF ActiveMigrations
    <3>2. ProcOK([proc[p] EXCEPT !.cur = n, !.at = at])
      BY <1>1, <3>1 DEF ProcOK, Process
    <3> QED BY <1>0, <2>2, <3>2, BecomeOK
  <2>3. ASSUME NEW n \in ActiveMigrations(migrations),
               Become(p, [proc[p] EXCEPT !.cur = n,
                 !.at = IF Intermediate(p)
                        THEN IF First(proc[p].todo) \in Destructive THEN "defer" ELSE "own"
                        ELSE IF versionSchemas THEN "dropOld" ELSE "queue"])
        PROVE  IInv'
    <3> DEFINE at == IF Intermediate(p)
                     THEN IF First(proc[p].todo) \in Destructive THEN "defer" ELSE "own"
                     ELSE IF versionSchemas THEN "dropOld" ELSE "queue"
    <3>1. at \in Steps
      BY DEF Steps
    <3>2. Become(p, [proc[p] EXCEPT !.cur = n, !.at = at])
      BY <2>3
    <3> HIDE DEF at
    <3>3. ProcsOK'
      BY <3>1, <3>2, <2>2
    <3> QED BY <1>2, <3>3, QuietStep DEF GetActiveMigration
  <2> QED BY <1>2, <2>1, <2>3 DEF GetActiveMigration
<1>3. CASE DropOldSchemas(p)
  <2>1. StateOK'
    BY <1>0, <1>3 DEF DropOldSchemas, StateOK, env
  <2>2. proc[p].cur \in Names
    BY <1>1, <1>3 DEF DropOldSchemas, At, Working, Steps
  <2>3. ProcsOK'
    BY <1>0, <1>3, <2>2, ReturnOK, GotoOK DEF DropOldSchemas, Steps
  <2> QED BY <1>0, <1>3, <2>1, <2>3 DEF IInv, DropOldSchemas
<1>4. CASE ReadQueue(p)
  <2> DEFINE queue == ByCreation(DeferredCompletes(migrations))
             drops == ({proc[p].cur} \cup DOMAIN queue) \cap OnCompleteSQL # {}
             at == IF DOMAIN queue = {} THEN "own" ELSE "seal"
             s == [proc[p] EXCEPT !.at = at, !.queue = queue, !.dropLive = drops]
  <2>1. /\ queue \in UNION {[T -> Timestamps] : T \in SUBSET Names}
        /\ QueueBounded(queue)
    BY <1>0, ByCreationOK DEF DeferredCompletes
  <2>2. proc[p].cur \in Names
    BY <1>1, <1>4 DEF ReadQueue, At, Working, Steps
  <2>3. Become(p, s)
    BY <1>4 DEF ReadQueue
  <2>4. drops \in BOOLEAN /\ at \in Steps
    BY DEF Steps
  <2> HIDE DEF queue, drops, at
  <2>5. ProcOK(s)
    BY <1>1, <2>1, <2>2, <2>4 DEF ProcOK, Process
  <2> QED BY <1>0, <1>4, <2>3, <2>5, BecomeOK, QuietStep DEF ReadQueue
<1>5. CASE DropLiveSchema(p)
  <2>1. StateOK'
    BY <1>0, <1>5 DEF DropLiveSchema, StateOK, env
  <2>2. ProcsOK'
    BY <1>0, <1>1, <1>5, GotoOK DEF DropLiveSchema, At, Working, Steps
  <2> QED BY <1>0, <1>5, <2>1, <2>2 DEF IInv, DropLiveSchema
<1>6. CASE ApplyDeferredComplete(p) \/ CompleteOperations(p)
  <2>1. proc[p].cur \in Names
    BY <1>1, <1>6 DEF ApplyDeferredComplete, CompleteOperations, At, Working, Steps
  <2>2. PICK n : \E step \in Steps : Contract(p, n, step)
    <3>1. CASE ApplyDeferredComplete(p)
      BY <3>1 DEF ApplyDeferredComplete, Steps
    <3>2. CASE CompleteOperations(p)
      BY <3>2 DEF CompleteOperations, Steps
    <3> QED BY <1>6, <3>1, <3>2
  <2>3. /\ phys' \in [Names -> Phases] /\ marker' \subseteq Names
        /\ ProcsOK'
    BY <1>0, <2>1, <2>2, ContractOK
  <2>4. UNCHANGED <<migrations, snapshot, schemas, env>>
    BY <1>6 DEF ApplyDeferredComplete, CompleteOperations
  <2> QED BY <1>0, <2>3, <2>4 DEF IInv, StateOK, env
<1>7. CASE RefreshResultingSchema(p)
  <2>1. StateOK'
    BY <1>0, <1>7 DEF RefreshResultingSchema, StateOK, env
  <2>2. proc[p].cur \in Names
    BY <1>1, <1>7 DEF RefreshResultingSchema, At, Working, Steps
  <2>3. ProcsOK'
    BY <1>0, <1>7, <2>2, GotoOK, ReturnOK DEF RefreshResultingSchema, Steps
  <2> QED BY <1>0, <1>7, <2>1, <2>3 DEF IInv, RefreshResultingSchema
<1>8. CASE Reproject(p)
  <2>1. proc[p].cur \in Names
    BY <1>1, <1>8 DEF Reproject, At, Working, Steps
  <2>2. StateOK'
    BY <1>0, <1>8, <2>1 DEF Reproject, StateOK, env
  <2>3. ProcsOK'
    BY <1>0, <1>8, <2>1, GotoOK DEF Reproject, Steps
  <2> QED BY <1>0, <1>8, <2>2, <2>3 DEF IInv, Reproject
<1>9. CASE CleanUpSchemas(p)
  <2>1. StateOK'
    BY <1>0, <1>9 DEF CleanUpSchemas, StateOK, env
  <2>2. ProcsOK'
    BY <1>0, <1>9, ReturnOK DEF CleanUpSchemas
  <2> QED BY <1>0, <1>9, <2>1, <2>2 DEF IInv, CleanUpSchemas
<1> QED BY <1>2, <1>3, <1>4, <1>5, <1>6, <1>7, <1>8, <1>9

(***************************************************************************)
(* The steps of Complete and FinishContraction that write the history.     *)
(***************************************************************************)
LEMMA FlagStepsKeepInv ==
  ASSUME IInv, NEW p \in Procs,
         \/ MarkCompleteDeferred(p) \/ SealBeforeDrain(p) \/ ClearCompleteDeferred(p)
         \/ Complete(p) \/ SealAfterComplete(p) \/ SealOpenWindow(p)
  PROVE  IInv'
<1>0. ProcsOK /\ StateOK /\ DeployedTable(migrations)
  BY DEF IInv
<1>1. /\ proc[p] \in Process /\ QueueBounded(proc[p].queue)
      /\ proc[p].at \in Working => proc[p].cur \in Names
  BY <1>0 DEF ProcsOK, ProcOK
<1>2. CASE MarkCompleteDeferred(p)
  <2>1. proc[p].cur \in Names
    BY <1>1, <1>2 DEF MarkCompleteDeferred, At, Working, Steps
  <2>2. StateOK'
    BY <1>0, <1>2 DEF MarkCompleteDeferred, StateOK, env
  <2>3. DeployedTable(migrations')
    BY <1>0, <1>2, FlagsOK DEF MarkCompleteDeferred, ActiveMigrations
  <2>4. ProcsOK'
    BY <1>0, <1>2, <2>1, TrainOK, ReturnOK DEF MarkCompleteDeferred
  <2> QED BY <2>2, <2>3, <2>4 DEF IInv
<1>3. CASE SealBeforeDrain(p)
  <2>1. proc[p].cur \in Names
    BY <1>1, <1>3 DEF SealBeforeDrain, At, Working, Steps
  <2>2. StateOK'
    BY <1>0, <1>3 DEF SealBeforeDrain, StateOK, env
  <2>3. DeployedTable(migrations')
    BY <1>0, <1>3, SealedOK DEF SealBeforeDrain
  <2>4. ProcsOK'
    BY <1>0, <1>3, <2>1, GotoOK DEF SealBeforeDrain, Steps
  <2> QED BY <2>2, <2>3, <2>4 DEF IInv
<1>4. CASE ClearCompleteDeferred(p)
  <2> DEFINE n == Oldest(proc[p].queue)
             rest == Restrict(proc[p].queue, DOMAIN proc[p].queue \ {n})
             at == IF DOMAIN rest # {} THEN "drain"
                   ELSE IF proc[p].verb = "finish" THEN "reseal" ELSE "own"
             s == [proc[p] EXCEPT !.queue = rest, !.at = at]
  <2>1. proc[p].cur \in Names
    BY <1>1, <1>4 DEF ClearCompleteDeferred, At, Working, Steps
  <2>2. StateOK'
    BY <1>0, <1>4 DEF ClearCompleteDeferred, StateOK, env
  <2>3. DeployedTable(migrations')
    BY <1>0, <1>4, FlagsOK DEF ClearCompleteDeferred
  <2>4. Become(p, s)
    BY <1>4 DEF ClearCompleteDeferred
  <2>5. /\ rest \in UNION {[T -> Timestamps] : T \in SUBSET Names}
        /\ QueueBounded(rest)
    BY <1>1, RestOK DEF Process
  <2>6. at \in Steps
    BY DEF Steps
  <2> HIDE DEF rest, at
  <2>7. ProcOK(s)
    BY <1>1, <2>1, <2>5, <2>6 DEF ProcOK, Process
  <2>8. ProcsOK'
    BY <1>0, <2>4, <2>7, BecomeOK
  <2> QED BY <2>2, <2>3, <2>8 DEF IInv
<1>5. CASE Complete(p)
  <2>1. proc[p].cur \in Names
    BY <1>1, <1>5 DEF Complete, At, Working, Steps
  <2>2. StateOK'
    BY <1>0, <1>5 DEF Complete, StateOK, env
  <2>3. DeployedTable(migrations')
    BY <1>0, <1>5, FlagsOK DEF Complete, ActiveMigrations
  <2>4. ProcsOK'
    BY <1>0, <1>5, <2>1, TrainOK, GotoOK, ReturnOK DEF Complete, Steps
  <2> QED BY <2>2, <2>3, <2>4 DEF IInv
<1>6. CASE SealAfterComplete(p) \/ SealOpenWindow(p)
  <2>1. StateOK'
    BY <1>0, <1>6 DEF SealAfterComplete, SealOpenWindow, StateOK, env
  <2>2. DeployedTable(migrations')
    BY <1>0, <1>6, SealedOK DEF SealAfterComplete, SealOpenWindow
  <2>3. ProcsOK'
    BY <1>0, <1>6, GotoOK, ReturnOK
       DEF SealAfterComplete, SealOpenWindow, Steps, Working
  <2> QED BY <2>1, <2>2, <2>3 DEF IInv
<1> QED BY <1>2, <1>3, <1>4, <1>5, <1>6

(***************************************************************************)
(* The steps of Rollback and Revert.                                       *)
(***************************************************************************)
LEMMA RevertStepsKeepInv ==
  ASSUME IInv, NEW p \in Procs,
         \/ DropVersionSchema(p) \/ RollbackOperations(p) \/ DeleteMigration(p)
         \/ EnsureLeafVersionSchema(p)
  PROVE  IInv'
<1>0. ProcsOK /\ StateOK /\ DeployedTable(migrations)
  BY DEF IInv
<1>1. /\ proc[p] \in Process /\ QueueBounded(proc[p].queue)
      /\ proc[p].cur \in Names
  <2>1. proc[p].at \in Working
    BY DEF DropVersionSchema, RollbackOperations, DeleteMigration,
           EnsureLeafVersionSchema, At, Working, Steps
  <2> QED BY <1>0, <2>1 DEF ProcsOK, ProcOK
<1>2. CASE DropVersionSchema(p)
  <2>1. StateOK'
    BY <1>0, <1>2 DEF DropVersionSchema, StateOK, env
  <2>2. ProcsOK'
    BY <1>0, <1>1, <1>2, GotoOK DEF DropVersionSchema, Steps
  <2> QED BY <1>0, <1>2, <2>1, <2>2 DEF IInv, DropVersionSchema
<1>3. CASE RollbackOperations(p)
  <2>1. StateOK'
    BY <1>0, <1>3 DEF RollbackOperations, StateOK, env, Phases
  <2>2. ProcsOK'
    <3>1. CASE UNCHANGED proc
      BY <1>0, <3>1 DEF ProcsOK
    <3>2. CASE Goto(p, "delete")
      BY <1>0, <1>1, <3>2, GotoOK DEF Steps
    <3> QED BY <1>3, <3>1, <3>2 DEF RollbackOperations
  <2> QED BY <1>0, <1>3, <2>1, <2>2 DEF IInv, RollbackOperations
<1>4. CASE DeleteMigration(p)
  <2> DEFINE n == proc[p].cur
             rest == Restrict(proc[p].queue, DOMAIN proc[p].queue \ {n})
             s == [proc[p] EXCEPT !.at = "dropVersion", !.cur = Newest(rest), !.queue = rest]
  <2>1. StateOK'
    <3>1. [k \in Names |-> "absent"] \in [Names -> Phases]
      BY DEF Phases
    <3> QED BY <1>0, <1>4, <3>1 DEF DeleteMigration, StateOK, env
  <2>2. DeployedTable(migrations')
    BY <1>0, <1>4, DeletedOK DEF DeleteMigration
  <2>3. /\ rest \in UNION {[T -> Timestamps] : T \in SUBSET Names}
        /\ QueueBounded(rest)
    BY <1>1, RestOK DEF Process
  <2>4. \/ Return(p) \/ Goto(p, "leaf")
        \/ DOMAIN rest # {} /\ Become(p, s)
    BY <1>4 DEF DeleteMigration
  <2> HIDE DEF rest
  <2>5. ASSUME DOMAIN rest # {} PROVE ProcOK(s)
    <3>1. Newest(rest) \in Names
      BY <2>3, <2>5, NewestOK
    <3> QED BY <1>1, <2>3, <3>1 DEF ProcOK, Process, Steps
  <2>6. ProcsOK'
    BY <1>0, <1>1, <2>4, <2>5, ReturnOK, GotoOK, BecomeOK DEF Steps
  <2> QED BY <2>1, <2>2, <2>6 DEF IInv
<1>5. CASE EnsureLeafVersionSchema(p)
  <2>1. ASSUME migrations # EmptyTable PROVE LatestMigration(migrations) \in Names
    <3>1. DOMAIN migrations # {}
      BY <1>0, <2>1 DEF DeployedTable, TableOK, IsTable, EmptyTable
    <3> QED BY <1>0, <3>1, LatestExists DEF DeployedTable, TableOK
  <2>2. StateOK'
    BY <1>0, <1>5, <2>1 DEF EnsureLeafVersionSchema, StateOK, env
  <2>3. ProcsOK'
    BY <1>0, <1>5, ReturnOK DEF EnsureLeafVersionSchema
  <2> QED BY <1>0, <1>5, <2>2, <2>3 DEF IInv, EnsureLeafVersionSchema
<1> QED BY <1>2, <1>3, <1>4, <1>5

(***************************************************************************)
(* Every step of the system keeps the invariant.                           *)
(***************************************************************************)
LEMMA NextKeepsInv == IInv /\ [Next]_vars => IInv'
<1> SUFFICES ASSUME IInv, [Next]_vars PROVE IInv'
  OBVIOUS
<1>1. ASSUME NEW s \in Names \cup {NoName}, Repin(s) PROVE IInv'
  BY <1>1, InterruptionKeepsInv
<1>2. ASSUME NEW p \in Procs, Command(p) PROVE IInv'
  BY <1>2, CommandKeepsInv
<1>3. ASSUME NEW p \in Procs, StartFails(p) \/ Crash(p) PROVE IInv'
  BY <1>3, InterruptionKeepsInv
<1>4. ASSUME NEW p \in Procs, Step(p) PROVE IInv'
  BY <1>4, StartStepsKeepInv, ContractionStepsKeepInv, FlagStepsKeepInv,
     RevertStepsKeepInv DEF Step
<1>5. CASE UNCHANGED vars
  BY <1>5 DEF vars, IInv, StateOK, ProcsOK
<1> QED BY <1>1, <1>2, <1>3, <1>4, <1>5 DEF Next

(***************************************************************************)
(* The empty database satisfies the invariant.                             *)
(***************************************************************************)
LEMMA InitOK == Init => IInv
<1> SUFFICES ASSUME Init PROVE IInv
  OBVIOUS
<1>1. DeployedTable(migrations)
  BY EmptyTableOK
     DEF Init, DeployedTable, ActiveLast, ActiveMigrations, WindowOK,
         UnsealedMigrations, TableBounded, EmptyTable
<1>2. StateOK
  BY ClassAssumption DEF Init, StateOK, Phases
<1>3. ProcsOK
  BY IdleOK DEF Init, ProcsOK, ProcOK
<1> QED BY <1>1, <1>2, <1>3 DEF IInv

----------------------------------------------------------------------------
(* What holds with any number of processes.                                *)

(***************************************************************************)
(* The inductive invariant holds in every reachable state.                 *)
(***************************************************************************)
THEOREM InductiveInvariant == Spec => []IInv
BY InitOK, NextKeepsInv, PTL DEF Spec

(***************************************************************************)
(* Every step of every command leaves values the code can read back: the   *)
(* phases, schemas and queues are of migrations that have a name.          *)
(***************************************************************************)
THEOREM TypeCorrect == Spec => []TypeOK
<1>1. IInv => TypeOK
  BY DEF IInv, DeployedTable, TableOK, StateOK, ProcsOK, TypeOK
<1> QED BY <1>1, InductiveInvariant, PTL

(***************************************************************************)
(* The revertible window is a suffix of the history however many pgroll    *)
(* processes deploy, and wherever they die: MarkSealed spares only the     *)
(* active migration, which is the newest row.                              *)
(***************************************************************************)
THEOREM WindowStaysSuffix == Spec => []WindowIsSuffix
<1>1. IInv => WindowIsSuffix
  BY DEF IInv, DeployedTable, WindowOK, WindowIsSuffix
<1> QED BY <1>1, InductiveInvariant, PTL

----------------------------------------------------------------------------
(* Deployments implement the migration history, for any number of pgroll   *)
(* processes.  A process of Deployment that is about to insert its row is  *)
(* one of MigrationHistory that has begun a Start, any other is idle       *)
(* there; every step of a deployment is one statement on the history, or   *)
(* none.                                                                   *)

\* What a process s of Deployment is in MigrationHistory.
OpOf(s) == [at     |-> IF s.at = "insert" THEN "start" ELSE "idle",
            names  |-> IF s.at = "insert" THEN {s.cur} ELSE {},
            parent |-> NoName, type |-> "pgroll"]

Ops == [p \in Procs |-> OpOf(proc[p])]

\* A step of p that neither begins nor ends a Start there.
Quiet(p) == /\ proc[p].at # "insert"
            /\ \/ UNCHANGED proc
               \/ \E s : s.at # "insert" /\ Become(p, s)

(***************************************************************************)
(* A quiet step leaves what MigrationHistory sees of the processes.        *)
(***************************************************************************)
LEMMA QuietKeepsOps ==
  ASSUME ProcsOK, NEW p \in Procs, Quiet(p)
  PROVE  Ops' = Ops /\ Ops[p].at = "idle"
<1>1. Ops[p].at = "idle"
  BY DEF Ops, OpOf, Quiet
<1>2. CASE UNCHANGED proc
  BY <1>1, <1>2 DEF Ops
<1>3. ASSUME NEW s, s.at # "insert", Become(p, s) PROVE Ops' = Ops
  <2>1. \A q \in Procs : OpOf(proc'[q]) = OpOf(proc[q])
    BY <1>3 DEF Become, ProcsOK, Quiet, OpOf
  <2> QED BY <2>1 DEF Ops
<1> QED BY <1>1, <1>2, <1>3 DEF Quiet

(***************************************************************************)
(* Every move of a process but the look for an active migration and the    *)
(* INSERT of Start is quiet.                                               *)
(***************************************************************************)
LEMMA MovesAreQuiet ==
  ASSUME ProcsOK, NEW p \in Procs, proc[p].at # "insert",
         \/ UNCHANGED proc
         \/ Return(p)
         \/ \E step \in Steps \ {"insert"} : Goto(p, step)
         \/ AfterStart(p) \/ AfterViews(p) \/ NextMigration(p)
  PROVE  Quiet(p)
<1>0. proc[p] \in Process
  BY DEF ProcsOK
<1>1. CASE UNCHANGED proc
  BY <1>1 DEF Quiet
<1>2. CASE Return(p)
  BY <1>2, IdleOK DEF Return, Quiet
<1>3. ASSUME NEW step \in Steps \ {"insert"}, Goto(p, step) PROVE Quiet(p)
  BY <1>0, <1>3 DEF Goto, Quiet, Process
<1>4. CASE AfterStart(p) \/ AfterViews(p)
  BY <1>2, <1>3, <1>4 DEF AfterStart, AfterViews, Steps
<1>5. CASE NextMigration(p)
  <2> DEFINE rest == proc[p].todo \ {First(proc[p].todo)}
             s == [proc[p] EXCEPT !.at = "start", !.cur = First(rest), !.todo = rest]
  <2>1. s.at # "insert"
    BY <1>0 DEF Process
  <2>2. CASE Become(p, s)
    BY <2>1, <2>2 DEF Quiet
  <2> QED BY <1>2, <1>5, <2>2 DEF NextMigration
<1> QED BY <1>1, <1>2, <1>3, <1>4, <1>5

(***************************************************************************)
(* A command that begins, or gives up in Start, writes no row.             *)
(***************************************************************************)
LEMMA CommandsAreQuiet ==
  ASSUME ProcsOK, NEW p \in Procs, Command(p) \/ StartFails(p)
  PROVE  Quiet(p) /\ UNCHANGED migrations
<1>0. Idle \in Process
  BY IdleOK DEF ProcOK
<1>1. ASSUME NEW names \in SUBSET Names, NEW converge \in BOOLEAN,
             MigrateBegin(p, names, converge)
      PROVE  Quiet(p) /\ UNCHANGED migrations
  BY <1>0, <1>1 DEF MigrateBegin, Free, At, Quiet, Process, db
<1>2. ASSUME NEW n \in Names,
             MigrateAwaiting(p, n) \/ CompleteBegin(p, n) \/ RollbackBegin(p, n)
      PROVE  Quiet(p) /\ UNCHANGED migrations
  BY <1>0, <1>2 DEF MigrateAwaiting, CompleteBegin, RollbackBegin, Free, At, Quiet,
                    Process, db
<1>3. ASSUME NEW n \in Names, RevertBegin(p, n)
      PROVE  Quiet(p) /\ UNCHANGED migrations
  <2>1. \E s : s.at = "dropVersion" /\ Become(p, s)
    <3>1. \A cur, queue, applied :
            [Idle EXCEPT !.at = "dropVersion", !.verb = "revert", !.cur = cur,
                         !.queue = queue, !.applied = applied].at = "dropVersion"
      BY DEF Idle
    <3> QED BY <1>3, <3>1 DEF RevertBegin
  <2> QED BY <1>3, <2>1 DEF RevertBegin, Free, At, Quiet, db
<1>4. ASSUME NEW force \in BOOLEAN, FinishBegin(p, force)
      PROVE  Quiet(p) /\ UNCHANGED migrations
  <2>1. \E s : s.at \in {"stamp", "seal"} /\ Become(p, s)
    <3>1. \A cur, queue, drops :
            [Idle EXCEPT !.at = "seal", !.verb = "finish", !.cur = cur,
                         !.queue = queue, !.dropLive = drops].at = "seal"
      BY DEF Idle
    <3>2. [Idle EXCEPT !.at = "stamp", !.verb = "finish"].at = "stamp"
      BY DEF Idle
    <3> DEFINE queue == ByCreation(DeferredCompletes(migrations))
               drops == DOMAIN queue \cap OnCompleteSQL # {}
               seal  == [Idle EXCEPT !.at = "seal", !.verb = "finish",
                           !.cur = LatestMigration(migrations), !.queue = queue,
                           !.dropLive = drops]
               stamp == [Idle EXCEPT !.at = "stamp", !.verb = "finish"]
    <3>3. Become(p, stamp) \/ Become(p, seal)
      BY <1>4 DEF FinishBegin
    <3>4. seal.at = "seal" /\ stamp.at = "stamp"
      BY <3>1, <3>2
    <3> HIDE DEF seal, stamp
    <3> QED BY <3>3, <3>4
  <2> QED BY <1>4, <2>1 DEF FinishBegin, Free, At, Quiet, db
<1>5. CASE StartFails(p)
  <2>1. CASE Return(p)
    BY <1>5, <2>1, MovesAreQuiet DEF StartFails, At, db
  <2>2. ASSUME NEW n \in ActiveMigrations(migrations),
               Become(p, [Idle EXCEPT !.at = "dropVersion", !.verb = "rollback", !.cur = n])
        PROVE  Quiet(p)
    BY <1>0, <1>5, <2>2 DEF StartFails, At, Quiet, Process
  <2> QED BY <1>5, <2>1, <2>2 DEF StartFails, db
<1> QED BY <1>1, <1>2, <1>3, <1>4, <1>5 DEF Command

(***************************************************************************)
(* The steps that write no row.                                            *)
(***************************************************************************)
LEMMA DDLIsQuiet ==
  ASSUME ProcsOK, NEW p \in Procs,
         \/ StartOperations(p) \/ EnsureViews(p) \/ CreateTriggers(p) \/ Backfill(p)
         \/ GetActiveMigration(p) \/ DropOldSchemas(p) \/ ReadQueue(p)
         \/ DropLiveSchema(p) \/ ApplyDeferredComplete(p) \/ RefreshResultingSchema(p)
         \/ CompleteOperations(p) \/ Reproject(p) \/ CleanUpSchemas(p)
         \/ DropVersionSchema(p) \/ RollbackOperations(p) \/ EnsureLeafVersionSchema(p)
  PROVE  Quiet(p) /\ UNCHANGED migrations
<1>0. proc[p] \in Process
  BY DEF ProcsOK
<1>1. CASE \/ StartOperations(p) \/ EnsureViews(p) \/ CreateTriggers(p) \/ Backfill(p)
           \/ Reproject(p) \/ CleanUpSchemas(p) \/ DropVersionSchema(p)
           \/ RollbackOperations(p) \/ EnsureLeafVersionSchema(p) \/ DropLiveSchema(p)
  BY <1>1, MovesAreQuiet
     DEF StartOperations, EnsureViews, CreateTriggers, Backfill, Reproject,
         CleanUpSchemas, DropVersionSchema, RollbackOperations,
         EnsureLeafVersionSchema, DropLiveSchema, At, Steps
<1>2. CASE DropOldSchemas(p) \/ RefreshResultingSchema(p)
  BY <1>2, MovesAreQuiet DEF DropOldSchemas, RefreshResultingSchema, At, Steps
<1>3. CASE ApplyDeferredComplete(p) \/ CompleteOperations(p)
  <2>1. proc[p].at # "insert" /\ UNCHANGED migrations
    BY <1>3 DEF ApplyDeferredComplete, CompleteOperations, At
  <2>2. ASSUME NEW n, NEW step \in Steps \ {"insert"}, Contract(p, n, step)
        PROVE  Quiet(p)
    BY <2>1, <2>2, MovesAreQuiet DEF Contract
  <2> QED BY <1>3, <2>1, <2>2 DEF ApplyDeferredComplete, CompleteOperations, Steps
<1>4. CASE GetActiveMigration(p)
  <2>1. CASE Return(p)
    BY <1>4, <2>1, MovesAreQuiet DEF GetActiveMigration, At, db
  <2>2. ASSUME NEW n \in ActiveMigrations(migrations),
               NEW at \in Steps \ {"insert"},
               Become(p, [proc[p] EXCEPT !.cur = n, !.at = at])
        PROVE  \E s : s.at # "insert" /\ Become(p, s)
    BY <1>0, <2>2 DEF Process
  <2>3. ASSUME NEW n \in ActiveMigrations(migrations),
               Become(p, [proc[p] EXCEPT !.cur = n,
                 !.at = IF Intermediate(p)
                        THEN IF First(proc[p].todo) \in Destructive THEN "defer" ELSE "own"
                        ELSE IF versionSchemas THEN "dropOld" ELSE "queue"])
        PROVE  \E s : s.at # "insert" /\ Become(p, s)
    <3> DEFINE at == IF Intermediate(p)
                     THEN IF First(proc[p].todo) \in Destructive THEN "defer" ELSE "own"
                     ELSE IF versionSchemas THEN "dropOld" ELSE "queue"
    <3>1. at \in Steps \ {"insert"} /\ Become(p, [proc[p] EXCEPT !.cur = n, !.at = at])
      BY <2>3 DEF Steps
    <3> HIDE DEF at
    <3> QED BY <3>1, <2>2
  <2> QED BY <1>4, <2>1, <2>3 DEF GetActiveMigration, At, Quiet, db
<1>5. CASE ReadQueue(p)
  <2>1. \A at, queue, drops :
          [proc[p] EXCEPT !.at = at, !.queue = queue, !.dropLive = drops].at = at
    BY <1>0 DEF Process
  <2>2. \E s : s.at \in {"own", "seal"} /\ Become(p, s)
    <3> DEFINE queue == ByCreation(DeferredCompletes(migrations))
               drops == ({proc[p].cur} \cup DOMAIN queue) \cap OnCompleteSQL # {}
               at == IF DOMAIN queue = {} THEN "own" ELSE "seal"
               s == [proc[p] EXCEPT !.at = at, !.queue = queue, !.dropLive = drops]
    <3>1. Become(p, s)
      BY <1>5 DEF ReadQueue
    <3>2. s.at = at /\ at \in {"own", "seal"}
      BY <2>1
    <3> HIDE DEF s, at
    <3> QED BY <3>1, <3>2
  <2> QED BY <1>5, <2>2 DEF ReadQueue, At, Quiet, db
<1> QED BY <1>1, <1>2, <1>3, <1>4, <1>5

(***************************************************************************)
(* MigrationHistory reads and writes the table with the same statements.   *)
(***************************************************************************)
LEMMA SameStatements ==
  ASSUME NEW t
  PROVE  /\ History!IsActiveMigrationPeriod(t) = IsActiveMigrationPeriod(t)
         /\ History!ActiveMigrations(t) = ActiveMigrations(t)
         /\ History!DeferredCompletes(t) = DeferredCompletes(t)
         /\ History!UnsealedMigrations(t) = UnsealedMigrations(t)
         /\ History!LatestMigration(t) = LatestMigration(t)
         /\ History!Later(t) = Later(t)
         /\ History!MarkedSealed(t) = MarkedSealed(t)
         /\ History!Constraints(t) = Constraints(t)
         /\ \A n : /\ History!HasChild(t, n) = HasChild(t, n)
                   /\ History!Completed(t, n) = Completed(t, n)
                   /\ History!MarkedDeferred(t, n) = MarkedDeferred(t, n)
                   /\ History!DeferredCleared(t, n) = DeferredCleared(t, n)
                   /\ History!Deleted(t, n) = Deleted(t, n)
         /\ \A n, row : History!Inserted(t, n, row) = Inserted(t, n, row)
         /\ \A n, ts : History!StartedRow(n, ts) = StartedRow(n, ts)
<1>1. /\ History!ActiveMigrations(t) = ActiveMigrations(t)
      /\ History!DeferredCompletes(t) = DeferredCompletes(t)
      /\ History!UnsealedMigrations(t) = UnsealedMigrations(t)
      /\ History!Later(t) = Later(t)
  BY DEF History!ActiveMigrations, ActiveMigrations,
         History!DeferredCompletes, DeferredCompletes,
         History!UnsealedMigrations, UnsealedMigrations, History!Later, Later
<1>2. History!IsActiveMigrationPeriod(t) = IsActiveMigrationPeriod(t)
  BY <1>1 DEF History!IsActiveMigrationPeriod, IsActiveMigrationPeriod
<1>3. \A n : History!HasChild(t, n) = HasChild(t, n)
  BY DEF History!HasChild, HasChild
<1>4. History!LatestMigration(t) = LatestMigration(t)
  <2>1. History!Leaves(t) = Leaves(t)
    BY <1>3 DEF History!Leaves, Leaves
  <2> QED BY <2>1 DEF History!LatestMigration, LatestMigration, History!NoName, NoName
<1>5. History!Constraints(t) = Constraints(t)
  BY DEF History!Constraints, Constraints, History!ParentForeignKey, ParentForeignKey,
         History!OnlyOneActive, OnlyOneActive,
         History!OnlyFirstMigrationWithoutParent, OnlyFirstMigrationWithoutParent,
         History!HistoryIsLinear, HistoryIsLinear, History!NoName, NoName
<1>6. /\ History!MarkedSealed(t) = MarkedSealed(t)
      /\ \A n : /\ History!Completed(t, n) = Completed(t, n)
                /\ History!MarkedDeferred(t, n) = MarkedDeferred(t, n)
                /\ History!DeferredCleared(t, n) = DeferredCleared(t, n)
  BY DEF History!MarkedSealed, MarkedSealed, History!Completed, Completed,
         History!MarkedDeferred, MarkedDeferred, History!DeferredCleared, DeferredCleared
<1>7. /\ \A n : History!Deleted(t, n) = Deleted(t, n)
      /\ \A n, row : History!Inserted(t, n, row) = Inserted(t, n, row)
      /\ \A n, ts : History!StartedRow(n, ts) = StartedRow(n, ts)
  BY DEF History!Deleted, Deleted, History!Restrict, Restrict, History!Inserted, Inserted,
         History!StartedRow, StartedRow
<1> QED BY <1>1, <1>2, <1>3, <1>4, <1>5, <1>6, <1>7

(***************************************************************************)
(* A single statement on the table by a process that is idle there.        *)
(***************************************************************************)
LEMMA StatementRefines ==
  ASSUME IInv, NEW p \in Procs, Quiet(p)
  PROVE  /\ UNCHANGED migrations => UNCHANGED History!vars
         /\ \A n \in ActiveMigrations(migrations) :
              /\ migrations' = Completed(migrations, n) => History!Complete(p, n)
              /\ migrations' = MarkedDeferred(migrations, n)
                   => History!MarkCompleteDeferred(p, n)
         /\ \A n \in DeferredCompletes(migrations) :
              migrations' = DeferredCleared(migrations, n)
                => History!ClearCompleteDeferred(p, n)
         /\ \A n \in DOMAIN migrations :
              ~HasChild(migrations, n) /\ migrations' = Deleted(migrations, n)
                => History!DeleteMigration(p, n)
         /\ (\E n \in UnsealedMigrations(migrations) : migrations[n].done)
            /\ migrations' = MarkedSealed(migrations) => History!MarkSealed(p)
<1>1. Ops' = Ops /\ Ops[p].at = "idle"
  BY QuietKeepsOps DEF IInv
<1>2. UNCHANGED migrations => UNCHANGED History!vars
  BY <1>1 DEF History!vars, Ops, OpOf, At
<1>3. ASSUME NEW n \in ActiveMigrations(migrations),
             migrations' = Completed(migrations, n)
      PROVE  History!Complete(p, n)
  BY <1>1, <1>3, SameStatements DEF History!Complete, Ops, OpOf, At
<1>4. ASSUME NEW n \in ActiveMigrations(migrations),
             migrations' = MarkedDeferred(migrations, n)
      PROVE  History!MarkCompleteDeferred(p, n)
  BY <1>1, <1>4, SameStatements DEF History!MarkCompleteDeferred, Ops, OpOf, At
<1>5. ASSUME NEW n \in DeferredCompletes(migrations),
             migrations' = DeferredCleared(migrations, n)
      PROVE  History!ClearCompleteDeferred(p, n)
  BY <1>1, <1>5, SameStatements DEF History!ClearCompleteDeferred, Ops, OpOf, At
<1>6. ASSUME NEW n \in DOMAIN migrations, ~HasChild(migrations, n),
             migrations' = Deleted(migrations, n)
      PROVE  History!DeleteMigration(p, n)
  <2>1. History!Locked = {}
    BY DEF History!Locked
  <2> QED BY <1>1, <1>6, <2>1, SameStatements DEF History!DeleteMigration, Ops, OpOf, At
<1>7. ASSUME NEW n \in UnsealedMigrations(migrations), migrations[n].done,
             migrations' = MarkedSealed(migrations)
      PROVE  History!MarkSealed(p)
  BY <1>1, <1>7, SameStatements DEF History!MarkSealed, Ops, OpOf, At
<1> QED BY <1>2, <1>3, <1>4, <1>5, <1>6, <1>7

(***************************************************************************)
(* The steps that write rows: Complete, MarkCompleteDeferred,              *)
(* ClearCompleteDeferred, MarkSealed and the DELETE of a revert.           *)
(***************************************************************************)
LEMMA WritesRefine ==
  ASSUME IInv, NEW p \in Procs,
         \/ MarkCompleteDeferred(p) \/ SealBeforeDrain(p) \/ ClearCompleteDeferred(p)
         \/ Complete(p) \/ SealAfterComplete(p) \/ SealOpenWindow(p)
         \/ DeleteMigration(p)
  PROVE  [History!Next]_(History!vars)
<1>0. /\ ProcsOK /\ proc[p] \in Process
      /\ DOMAIN migrations \subseteq Names
      /\ migrations \in [DOMAIN migrations -> Row]
  BY DEF IInv, ProcsOK, DeployedTable, TableOK, IsTable
<1>a. /\ ActiveMigrations(migrations) \subseteq Names
      /\ DeferredCompletes(migrations) \subseteq Names
  BY <1>0 DEF ActiveMigrations, DeferredCompletes
<1>b. ASSUME Quiet(p), migrations' = MarkedSealed(migrations)
      PROVE  [History!Next]_(History!vars)
  <2>1. CASE \E n \in UnsealedMigrations(migrations) : migrations[n].done
    BY <1>b, <2>1, StatementRefines DEF History!Next
  <2>2. CASE ~ \E n \in UnsealedMigrations(migrations) : migrations[n].done
    <3>1. \A n \in DOMAIN migrations :
            [migrations[n] EXCEPT !.sealed = migrations[n].sealed \/ migrations[n].done]
              = migrations[n]
      <4> SUFFICES ASSUME NEW n \in DOMAIN migrations
                   PROVE  [migrations[n] EXCEPT !.sealed = migrations[n].sealed \/ migrations[n].done]
                            = migrations[n]
        OBVIOUS
      <4>1. migrations[n] \in Row
        BY <1>0
      <4>2. (migrations[n].sealed \/ migrations[n].done) = migrations[n].sealed
        BY <2>2, <4>1 DEF UnsealedMigrations, Row
      <4> QED BY <4>1, <4>2 DEF Row
    <3>2. MarkedSealed(migrations) = migrations
      BY <1>0, <3>1 DEF MarkedSealed
    <3> QED BY <1>b, <3>2, StatementRefines
  <2> QED BY <2>1, <2>2
<1>1. CASE MarkCompleteDeferred(p)
  <2>1. Quiet(p)
    BY <1>0, <1>1, MovesAreQuiet DEF MarkCompleteDeferred, At
  <2> QED BY <1>1, <1>a, <2>1, StatementRefines DEF MarkCompleteDeferred, History!Next
<1>2. CASE SealBeforeDrain(p) \/ SealAfterComplete(p) \/ SealOpenWindow(p)
  <2>1. Quiet(p)
    BY <1>0, <1>2, MovesAreQuiet
       DEF SealBeforeDrain, SealAfterComplete, SealOpenWindow, At, Steps
  <2> QED BY <1>2, <1>b, <2>1 DEF SealBeforeDrain, SealAfterComplete, SealOpenWindow
<1>3. CASE ClearCompleteDeferred(p)
  <2> DEFINE n == Oldest(proc[p].queue)
             rest == Restrict(proc[p].queue, DOMAIN proc[p].queue \ {n})
             at == IF DOMAIN rest # {} THEN "drain"
                   ELSE IF proc[p].verb = "finish" THEN "reseal" ELSE "own"
             s == [proc[p] EXCEPT !.queue = rest, !.at = at]
  <2>1. Become(p, s) /\ proc[p].at = "clear"
    BY <1>3 DEF ClearCompleteDeferred, At
  <2>2. s.at = at /\ at # "insert"
    BY <1>0 DEF Process
  <2> HIDE DEF s, at
  <2>3. Quiet(p)
    BY <2>1, <2>2 DEF Quiet
  <2>4. CASE n \in DeferredCompletes(migrations)
    BY <1>3, <1>a, <2>3, <2>4, StatementRefines
       DEF ClearCompleteDeferred, DeferredCompletes, History!Next
  <2>5. CASE n \notin DeferredCompletes(migrations)
    <3>1. ASSUME n \in DOMAIN migrations PROVE DeferredCleared(migrations, n) = migrations
      <4>1. migrations[n] \in Row /\ ~migrations[n].deferred
        BY <1>0, <2>5, <3>1 DEF DeferredCompletes
      <4>2. [migrations[n] EXCEPT !.deferred = FALSE] = migrations[n]
        BY <4>1 DEF Row
      <4> QED BY <1>0, <3>1, <4>2 DEF DeferredCleared
    <3>2. UNCHANGED migrations
      BY <1>3, <3>1 DEF ClearCompleteDeferred
    <3> QED BY <2>3, <3>2, StatementRefines
  <2> QED BY <2>4, <2>5
<1>4. CASE Complete(p)
  <2>1. Quiet(p)
    BY <1>0, <1>4, MovesAreQuiet DEF Complete, At, Steps
  <2> QED BY <1>4, <1>a, <2>1, StatementRefines DEF Complete, History!Next
<1>5. CASE DeleteMigration(p)
  <2> DEFINE rest == Restrict(proc[p].queue, DOMAIN proc[p].queue \ {proc[p].cur})
             s == [proc[p] EXCEPT !.at = "dropVersion", !.cur = Newest(rest), !.queue = rest]
  <2>1. s.at = "dropVersion" /\ proc[p].at = "delete"
    BY <1>0, <1>5 DEF Process, DeleteMigration, At
  <2>2. Return(p) \/ Goto(p, "leaf") \/ Become(p, s)
    BY <1>5 DEF DeleteMigration
  <2> HIDE DEF s
  <2>3. Quiet(p)
    BY <1>0, <2>1, <2>2, MovesAreQuiet DEF Quiet, Steps
  <2> QED BY <1>5, <1>0, <2>3, StatementRefines DEF DeleteMigration, History!Next
<1> QED BY <1>1, <1>2, <1>3, <1>4, <1>5

(***************************************************************************)
(* Start: the look for an active migration and the INSERT are two steps,   *)
(* between which other processes write and the process may die.            *)
(***************************************************************************)
LEMMA StartRefines ==
  ASSUME IInv, NEW p \in Procs, StartBegin(p) \/ Start(p) \/ Crash(p)
  PROVE  [History!Next]_(History!vars)
<1>0. /\ ProcsOK /\ proc \in [Procs -> Process] /\ proc[p] \in Process
      /\ proc[p].at \in {"start", "insert"} => proc[p].cur \in Names
  BY DEF IInv, ProcsOK, ProcOK, Working, Steps
<1>a. ASSUME proc[p].at = "insert", Return(p)
      PROVE  Ops[p].at = "start" /\ Ops[p].names = {proc[p].cur}
             /\ Ops' = [Ops EXCEPT ![p] = History!Idle]
  <2>1. Ops[p].at = "start" /\ Ops[p].names = {proc[p].cur}
    BY <1>a DEF Ops, OpOf
  <2>2. OpOf(Idle) = History!Idle
    BY IdleOK DEF OpOf, History!Idle, History!NoName, NoName
  <2> QED BY <1>0, <1>a, <2>1, <2>2 DEF Ops, Return, Become
<1>1. CASE StartBegin(p) /\ Goto(p, "insert")
  <2>1. proc[p].at = "start" /\ ~IsActiveMigrationPeriod(migrations) /\ UNCHANGED migrations
    <3>1. ~Return(p)
      <4>1. [proc[p] EXCEPT !.at = "insert"].at = "insert" /\ Idle.at = "idle"
        BY <1>0, IdleOK DEF Process
      <4> QED BY <1>0, <1>1, <4>1 DEF Goto, Return, Become
    <3> QED BY <1>1, <3>1 DEF StartBegin, At, db
  <2>2. PICK n \in Names : n = proc[p].cur
    BY <1>0, <2>1
  <2>3. Ops[p].at = "idle"
    BY <2>1 DEF Ops, OpOf
  <2>4. OpOf([proc[p] EXCEPT !.at = "insert"]) = History!Reading("start", {n})
    <3> DEFINE s == [proc[p] EXCEPT !.at = "insert"]
               R == [at : {"start"}, names : {{n}}, parent : {NoName}, type : {"pgroll"}]
    <3>1. s.at = "insert" /\ s.cur = n
      BY <1>0, <2>2 DEF Process
    <3> HIDE DEF s
    <3>2. OpOf(s) \in R
      BY <3>1 DEF OpOf
    <3>3. History!Reading("start", {n}) \in R
      BY DEF History!Reading, History!Idle, History!NoName, NoName
    <3>4. \A x, y \in R : x = y
      OBVIOUS
    <3> QED BY <3>2, <3>3, <3>4 DEF s
  <2>5. Ops' = [Ops EXCEPT ![p] = History!Reading("start", {n})]
    BY <1>0, <1>1, <2>4 DEF Ops, Goto, Become
  <2>6. History!StartBegin(p, n)
    BY <2>1, <2>3, <2>5, SameStatements DEF History!StartBegin, Ops, OpOf, At
  <2> QED BY <2>6 DEF History!Next
<1>2. CASE StartBegin(p) /\ Return(p)
  <2>1. Quiet(p) /\ UNCHANGED migrations
    BY <1>0, <1>2, MovesAreQuiet DEF StartBegin, At, db
  <2> QED BY <2>1, StatementRefines
<1>3. CASE Start(p)
  <2> DEFINE n == proc[p].cur
             new(ts) == Inserted(migrations, n, StartedRow(LatestMigration(migrations), ts))
  <2>1. PICK ts \in Later(migrations) :
          IF n \notin DOMAIN migrations /\ Constraints(new(ts))
          THEN migrations' = new(ts) /\ Goto(p, "ops")
          ELSE UNCHANGED migrations /\ Return(p)
    BY <1>3 DEF Start
  <2>2. Ops[p].at = "start" /\ Ops[p].names = {n} /\ proc[p].at = "insert"
    BY <1>3 DEF Start, At, Ops, OpOf
  <2>3. OpOf([proc[p] EXCEPT !.at = "ops"]) = History!Idle /\ OpOf(Idle) = History!Idle
    BY <1>0, IdleOK DEF OpOf, History!Idle, History!NoName, NoName, Process
  <2>4. Ops' = [Ops EXCEPT ![p] = History!Idle]
    BY <1>0, <2>1, <2>3 DEF Ops, Goto, Return, Become
  <2>5. History!InsertOrFail(n, History!StartedRow(History!LatestMigration(migrations), ts))
    BY <2>1, SameStatements DEF History!InsertOrFail
  <2>6. History!Start(p)
    BY <2>2, <2>4, <2>5, SameStatements DEF History!Start, Ops, OpOf, At
  <2> QED BY <2>6 DEF History!Next
<1>4. CASE Crash(p)
  <2>1. CASE proc[p].at = "insert"
    <3>1. History!Stop(p)
      <4>1. [q \in Procs |-> EmptyTable] =
              [[q \in Procs |-> EmptyTable] EXCEPT ![p] = History!EmptyTable]
        BY DEF EmptyTable, History!EmptyTable, History!NoName, NoName
      <4> QED BY <1>4, <1>a, <2>1, <4>1 DEF Crash, History!Stop, Ops, OpOf, At, db
    <3> QED BY <3>1 DEF History!Next
  <2>2. CASE proc[p].at # "insert"
    <3>1. Quiet(p) /\ UNCHANGED migrations
      BY <1>0, <1>4, <2>2, MovesAreQuiet DEF Crash, db
    <3> QED BY <3>1, StatementRefines
  <2> QED BY <2>1, <2>2
<1> QED BY <1>1, <1>2, <1>3, <1>4 DEF StartBegin

(***************************************************************************)
(* Deployments implement MigrationHistory: what is proved there (chain     *)
(* order, one active migration, one leaf) holds of every history that      *)
(* migrate, complete, rollback and revert can write, in any interleaving   *)
(* of any number of processes, and wherever they die.                      *)
(***************************************************************************)
THEOREM DeploymentsImplementHistory == Spec => ImplementsHistory
<1>1. Init => History!Init
  <2> SUFFICES ASSUME Init PROVE History!Init
    OBVIOUS
  <2>1. EmptyTable = History!EmptyTable
    BY DEF EmptyTable, History!EmptyTable, History!NoName, NoName
  <2>2. \A p \in Procs : OpOf(proc[p]) = History!Idle
    BY IdleOK DEF Init, OpOf, History!Idle, History!NoName, NoName
  <2>3. Ops = [p \in Procs |-> History!Idle]
    BY <2>2 DEF Ops
  <2> QED BY <2>1, <2>3 DEF Init, History!Init, Ops, OpOf, At
<1>2. IInv /\ [Next]_vars => [History!Next]_(History!vars)
  <2> SUFFICES ASSUME IInv, [Next]_vars PROVE [History!Next]_(History!vars)
    OBVIOUS
  <2>0. ProcsOK
    BY DEF IInv
  <2>1. ASSUME NEW s \in Names \cup {NoName}, Repin(s)
        PROVE  UNCHANGED History!vars
    BY <2>1 DEF Repin, db, History!vars, At
  <2>2. ASSUME NEW p \in Procs, Command(p) \/ StartFails(p)
        PROVE  [History!Next]_(History!vars)
    BY <2>0, <2>2, CommandsAreQuiet, StatementRefines
  <2>3. ASSUME NEW p \in Procs, Step(p) \/ Crash(p)
        PROVE  [History!Next]_(History!vars)
    BY <2>0, <2>3, DDLIsQuiet, StatementRefines, WritesRefine, StartRefines DEF Step
  <2>4. CASE UNCHANGED vars
    BY <2>4 DEF vars, History!vars, At
  <2> QED BY <2>1, <2>2, <2>3, <2>4 DEF Next
<1> QED BY <1>1, <1>2, InductiveInvariant, PTL DEF Spec, ImplementsHistory, History!Spec
=============================================================================
