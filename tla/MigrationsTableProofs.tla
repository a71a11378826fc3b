----------------------- MODULE MigrationsTableProofs ------------------------
(***************************************************************************)
(* Lemmas about the statements on the table pgroll.migrations, which the   *)
(* proofs about MigrationHistory and Deployment share.                     *)
(***************************************************************************)
EXTENDS MigrationsTable, WellFoundedInduction, TLAPS

----------------------------------------------------------------------------
(* Least elements.                                                         *)

(***************************************************************************)
(* A nonempty set of natural numbers has a least element.                  *)
(***************************************************************************)
LEMMA LeastNat ==
  ASSUME NEW S \in SUBSET Nat, S # {}
  PROVE  \E x \in S : \A y \in S : x <= y
<1>1. \E x \in S : \A y \in S : ~ (<<y, x>> \in OpToRel(<, Nat))
  BY NatLessThanWellFounded, WFMin, Zenon
<1>2. PICK x \in S : \A y \in S : ~ (<<y, x>> \in OpToRel(<, Nat))
  BY <1>1
<1>3. ASSUME NEW y \in S PROVE ~ (y < x)
  BY <1>2 DEF OpToRel
<1> QED BY <1>3

(***************************************************************************)
(* A nonempty set of natural numbers that is bounded has a greatest one.   *)
(***************************************************************************)
LEMMA GreatestNat ==
  ASSUME NEW S \in SUBSET Nat, S # {}, NEW b \in Nat, \A x \in S : x <= b
  PROVE  \E x \in S : \A y \in S : y <= x
<1> DEFINE Gap == {b - x : x \in S}
<1>0. Gap # {}
  OBVIOUS
<1>1. Gap \in SUBSET Nat
  <2>1. \A x \in S : b - x \in Nat
    OBVIOUS
  <2> QED BY <2>1
<1>2. PICK g \in Gap : \A h \in Gap : g <= h
  BY <1>0, <1>1, LeastNat
<1>3. PICK x \in S : g = b - x
  BY <1>2
<1>4. ASSUME NEW y \in S PROVE y <= x
  <2>1. g <= b - y
    BY <1>2
  <2> QED BY <2>1, <1>3
<1> QED BY <1>4

(***************************************************************************)
(* Among some rows of a table one was created first.                       *)
(***************************************************************************)
LEMMA EarliestRow ==
  ASSUME NEW t, IsTable(t), NEW S \in SUBSET DOMAIN t, S # {}
  PROVE  \E x \in S : \A y \in S : t[x].created <= t[y].created
<1> DEFINE T == {t[k].created : k \in S}
<1>1. T \in SUBSET Nat
  BY TimestampsAssumption DEF IsTable, Row
<1>2. T # {}
  OBVIOUS
<1>3. PICK m \in T : \A y \in T : m <= y
  BY <1>1, <1>2, LeastNat
<1>4. PICK x \in S : m = t[x].created
  BY <1>3
<1> QED BY <1>3, <1>4

(***************************************************************************)
(* If some row is older than n, one of them is the youngest: the LAG of n  *)
(* in the order of created_at exists, so Prune's window function finds it. *)
(***************************************************************************)
LEMMA LagExists ==
  ASSUME NEW t, IsTable(t), NEW n \in DOMAIN t,
         \E k \in DOMAIN t : t[k].created < t[n].created
  PROVE  \E p \in DOMAIN t : IsLag(t, p, n)
<1> DEFINE Older == {k \in DOMAIN t : t[k].created < t[n].created}
           Gap == {t[n].created - t[k].created : k \in Older}
<1>0. \A k \in DOMAIN t : t[k].created \in Nat
  BY TimestampsAssumption DEF IsTable, Row
<1>1. Gap \in SUBSET Nat
  BY <1>0
<1>2. Gap # {}
  OBVIOUS
<1>3. PICK g \in Gap : \A h \in Gap : g <= h
  BY <1>1, <1>2, LeastNat
<1>4. PICK p \in Older : g = t[n].created - t[p].created
  BY <1>3
<1>5. ASSUME NEW k \in Older PROVE t[k].created <= t[p].created
  <2>1. g <= t[n].created - t[k].created
    BY <1>3
  <2> QED BY <2>1, <1>4, <1>0
<1> QED BY <1>4, <1>5 DEF IsLag

----------------------------------------------------------------------------
(* What the statements do to the order of the chain.                       *)

(***************************************************************************)
(* The oldest row of a history in chain order has no parent.               *)
(***************************************************************************)
LEMMA RootExists ==
  ASSUME NEW t, IsTable(t), InChainOrder(t), DOMAIN t # {}
  PROVE  \E r \in DOMAIN t : t[r].parent = NoName
<1>1. PICK r \in DOMAIN t : \A k \in DOMAIN t : t[r].created <= t[k].created
  BY EarliestRow
<1>2. \A k \in DOMAIN t : t[k].created \in Nat
  BY TimestampsAssumption DEF IsTable, Row
<1>3. ASSUME t[r].parent # NoName PROVE FALSE
  <2>1. IsLag(t, t[r].parent, r)
    BY <1>3 DEF InChainOrder, FollowsPredecessor
  <2> QED BY <2>1, <1>1, <1>2 DEF IsLag
<1> QED BY <1>3

(***************************************************************************)
(* In chain order, a row that is nobody's parent was created last: there   *)
(* is one leaf, and latest_migration() returns the youngest row.           *)
(***************************************************************************)
LEMMA LeafIsLast ==
  ASSUME NEW t, IsTable(t), InChainOrder(t), NEW n \in DOMAIN t, ~HasChild(t, n)
  PROVE  \A k \in DOMAIN t : t[k].created <= t[n].created
<1> DEFINE Younger == {k \in DOMAIN t : t[n].created < t[k].created}
<1>0. \A k \in DOMAIN t : t[k].created \in Nat
  BY TimestampsAssumption DEF IsTable, Row
<1>1. SUFFICES ASSUME Younger # {} PROVE FALSE
  BY <1>0
<1>2. PICK k \in Younger : \A y \in Younger : t[k].created <= t[y].created
  BY <1>1, EarliestRow
<1>3. t[k].parent # NoName
  BY <1>2, <1>0 DEF InChainOrder, FollowsPredecessor
<1>4. IsLag(t, t[k].parent, k)
  BY <1>2, <1>3 DEF InChainOrder, FollowsPredecessor
<1>5. t[k].parent \notin Younger
  BY <1>2, <1>4, <1>0 DEF IsLag
<1>6. t[k].parent \in DOMAIN t /\ t[n].created <= t[t[k].parent].created
  BY <1>2, <1>4 DEF IsLag
<1>7. t[n].created = t[t[k].parent].created
  BY <1>5, <1>6, <1>0
<1>8. t[k].parent = n
  BY <1>6, <1>7 DEF InChainOrder, DistinctTimes
<1> QED BY <1>8, <1>2 DEF HasChild

(***************************************************************************)
(* Two leaves are the same row.                                            *)
(***************************************************************************)
LEMMA OneLeaf ==
  ASSUME NEW t, IsTable(t), InChainOrder(t),
         NEW m \in Leaves(t), NEW n \in Leaves(t)
  PROVE  m = n
<1>0. \A k \in DOMAIN t : t[k].created \in Nat
  BY TimestampsAssumption DEF IsTable, Row
<1>1. /\ m \in DOMAIN t /\ ~HasChild(t, m)
      /\ n \in DOMAIN t /\ ~HasChild(t, n)
  BY DEF Leaves
<1>2. t[m].created <= t[n].created /\ t[n].created <= t[m].created
  BY <1>1, LeafIsLast
<1>3. t[m].created = t[n].created
  BY <1>0, <1>1, <1>2
<1> QED BY <1>1, <1>3 DEF InChainOrder, DistinctTimes

(***************************************************************************)
(* A row the constraints accept extends the chain at its end.  With only   *)
(* the foreign key, only_first_migration_without_parent and                *)
(* history_is_linear to go by, a stale parent read by a slow process is    *)
(* either refused or still the leaf.                                       *)
(***************************************************************************)
LEMMA InsertKeepsOrder ==
  ASSUME NEW t, IsTable(t), InChainOrder(t),
         NEW n \in Names, n \notin DOMAIN t,
         NEW row \in Row, row.parent # n, row.created \in Later(t),
         Constraints(Inserted(t, n, row))
  PROVE  InChainOrder(Inserted(t, n, row)) /\ IsTable(Inserted(t, n, row))
<1> DEFINE new == Inserted(t, n, row)
<1>0. \A k \in DOMAIN t : t[k].created \in Nat
  BY TimestampsAssumption DEF IsTable, Row
<1>1. /\ DOMAIN new = DOMAIN t \cup {n}
      /\ new[n] = row
      /\ \A k \in DOMAIN t : new[k] = t[k] /\ k # n
  BY DEF Inserted
<1>2. row.created \in Nat /\ \A k \in DOMAIN t : t[k].created < row.created
  BY TimestampsAssumption DEF Row, Later
<1>3. IsTable(new)
  BY <1>1 DEF IsTable, Inserted
<1>4. DistinctTimes(new)
  BY <1>0, <1>1, <1>2 DEF InChainOrder, DistinctTimes
<1>5. ASSUME NEW k \in DOMAIN t
      PROVE  IF new[k].parent = NoName
             THEN \A j \in DOMAIN new : new[k].created <= new[j].created
             ELSE IsLag(new, new[k].parent, k)
  <2>1. CASE t[k].parent = NoName
    <3>1. \A j \in DOMAIN t : t[k].created <= t[j].created
      BY <2>1 DEF InChainOrder, FollowsPredecessor
    <3> QED BY <3>1, <2>1, <1>0, <1>1, <1>2
  <2>2. CASE t[k].parent # NoName
    <3>1. IsLag(t, t[k].parent, k)
      BY <2>2 DEF InChainOrder, FollowsPredecessor
    <3>2. ~ (row.created < t[k].created)
      BY <1>0, <1>2
    <3> QED BY <3>1, <3>2, <2>2, <1>1 DEF IsLag
  <2> QED BY <2>1, <2>2
<1>6. CASE row.parent = NoName
  <2>1. DOMAIN t = {}
    <3>1. SUFFICES ASSUME DOMAIN t # {} PROVE FALSE
      OBVIOUS
    <3>2. PICK r \in DOMAIN t : t[r].parent = NoName
      BY <3>1, RootExists
    <3> QED BY <3>2, <1>1, <1>6 DEF Constraints, OnlyFirstMigrationWithoutParent
  <2>2. \A j \in DOMAIN new : new[n].created <= new[j].created
    BY <2>1, <1>1, <1>2
  <2> QED BY <2>1, <2>2, <1>1, <1>3, <1>4, <1>6 DEF InChainOrder, FollowsPredecessor
<1>7. CASE row.parent # NoName
  <2>1. row.parent \in DOMAIN t
    BY <1>1, <1>7 DEF Constraints, ParentForeignKey
  <2>2. ~HasChild(t, row.parent)
    BY <1>1, <1>7 DEF Constraints, HistoryIsLinear, HasChild
  <2>3. \A k \in DOMAIN t : t[k].created <= t[row.parent].created
    BY <2>1, <2>2, LeafIsLast
  <2>4. IsLag(new, row.parent, n)
    <3>1. ~ (row.created < row.created)
      BY <1>2
    <3> QED BY <2>1, <2>3, <3>1, <1>1, <1>2 DEF IsLag
  <2> QED BY <2>4, <1>1, <1>3, <1>4, <1>5, <1>7 DEF InChainOrder, FollowsPredecessor
<1> QED BY <1>6, <1>7

(***************************************************************************)
(* Deleting a leaf leaves the rest in chain order.                         *)
(***************************************************************************)
LEMMA DeleteKeepsOrder ==
  ASSUME NEW t, IsTable(t), InChainOrder(t), NEW n, ~HasChild(t, n)
  PROVE  InChainOrder(Deleted(t, n)) /\ IsTable(Deleted(t, n))
<1> DEFINE new == Deleted(t, n)
<1>1. /\ DOMAIN new = DOMAIN t \ {n}
      /\ \A k \in DOMAIN new : new[k] = t[k]
  BY DEF Deleted, Restrict
<1>2. IsTable(new)
  BY DEF IsTable, Deleted, Restrict
<1>3. DistinctTimes(new)
  BY <1>1 DEF InChainOrder, DistinctTimes
<1>4. \A k \in DOMAIN new : t[k].parent # n
  BY <1>1 DEF HasChild
<1>5. FollowsPredecessor(new)
  BY <1>1, <1>4 DEF InChainOrder, FollowsPredecessor, IsLag
<1> QED BY <1>2, <1>3, <1>5 DEF InChainOrder

(***************************************************************************)
(* A statement that changes neither names, parents nor created_at keeps    *)
(* the chain order.                                                        *)
(***************************************************************************)
LEMMA FlagsKeepOrder ==
  ASSUME NEW t, NEW u, InChainOrder(t), DOMAIN u = DOMAIN t,
         \A k \in DOMAIN t : u[k].parent = t[k].parent /\ u[k].created = t[k].created
  PROVE  InChainOrder(u)
BY DEF InChainOrder, DistinctTimes, FollowsPredecessor, IsLag

(***************************************************************************)
(* Rewiring by LAG puts any rows with distinct created_at in chain order:  *)
(* Prune leaves a linear history whatever it removes from the middle.      *)
(***************************************************************************)
LEMMA RewiredInOrder ==
  ASSUME NEW t, IsTable(t), DistinctTimes(t)
  PROVE  InChainOrder(Rewired(t)) /\ IsTable(Rewired(t))
<1> DEFINE new == Rewired(t)
<1>0. \A k \in DOMAIN t : t[k].created \in Nat
  BY TimestampsAssumption DEF IsTable, Row
<1>1. \A k \in DOMAIN t : Lag(t, k) \in Names \cup {NoName}
  <2> SUFFICES ASSUME NEW k \in DOMAIN t PROVE Lag(t, k) \in Names \cup {NoName}
    OBVIOUS
  <2>1. CASE \E j \in DOMAIN t : t[j].created < t[k].created
    <3>1. \E p \in DOMAIN t : IsLag(t, p, k)
      BY <2>1, LagExists
    <3> QED BY <3>1, <2>1 DEF Lag, IsTable
  <2>2. CASE ~ \E j \in DOMAIN t : t[j].created < t[k].created
    BY <2>2 DEF Lag
  <2> QED BY <2>1, <2>2
<1>2. /\ DOMAIN new = DOMAIN t
      /\ \A k \in DOMAIN t : /\ new[k].parent = Lag(t, k)
                             /\ new[k].created = t[k].created
                             /\ new[k] \in Row
  <2>1. \A k \in DOMAIN t : t[k] \in Row
    BY DEF IsTable
  <2> QED BY <1>1, <2>1 DEF Rewired, Row
<1>3. IsTable(new)
  BY <1>2 DEF IsTable, Rewired
<1>4. DistinctTimes(new)
  BY <1>2 DEF DistinctTimes
<1>5. ASSUME NEW k \in DOMAIN t
      PROVE  IF new[k].parent = NoName
             THEN \A j \in DOMAIN new : new[k].created <= new[j].created
             ELSE IsLag(new, new[k].parent, k)
  <2>1. CASE \E j \in DOMAIN t : t[j].created < t[k].created
    <3>1. \E p \in DOMAIN t : IsLag(t, p, k)
      BY <2>1, LagExists
    <3>2. Lag(t, k) \in DOMAIN t /\ IsLag(t, Lag(t, k), k)
      BY <3>1, <2>1 DEF Lag
    <3>3. Lag(t, k) # NoName
      BY <3>2, NamesAssumption DEF NoName, IsTable
    <3> QED BY <3>2, <3>3, <1>2 DEF IsLag
  <2>2. CASE ~ \E j \in DOMAIN t : t[j].created < t[k].created
    <3>1. Lag(t, k) = NoName
      BY <2>2 DEF Lag
    <3> QED BY <3>1, <2>2, <1>0, <1>2
  <2> QED BY <2>1, <2>2
<1> QED BY <1>2, <1>3, <1>4, <1>5 DEF InChainOrder, FollowsPredecessor

----------------------------------------------------------------------------
(* What the statements do to the flags of the rows.                        *)

(***************************************************************************)
(* A row that is done and nothing else cannot upset the flags; a new       *)
(* active row cannot either, because only_one_active refuses a second.     *)
(***************************************************************************)
LEMMA InsertKeepsRows ==
  ASSUME NEW t, RowsConsistent(t), NEW n, n \notin DOMAIN t, NEW row,
         row.sealed \/ row.deferred => row.done,
         Constraints(Inserted(t, n, row))
  PROVE  RowsConsistent(Inserted(t, n, row))
BY DEF RowsConsistent, Inserted, Constraints

(***************************************************************************)
(* Removing rows (Rollback, DeleteMigration, Prune) cannot upset the flags *)
(* of the rows that stay.                                                  *)
(***************************************************************************)
LEMMA DeleteKeepsRows ==
  ASSUME NEW t, RowsConsistent(t), NEW S
  PROVE  RowsConsistent(Restrict(t, DOMAIN t \ S))
BY DEF RowsConsistent, OnlyOneActive, Restrict

(***************************************************************************)
(* Prune's rewiring changes parents only, so the flags stay consistent.    *)
(***************************************************************************)
LEMMA RewiredKeepsRows ==
  ASSUME NEW t, IsTable(t), RowsConsistent(t)
  PROVE  RowsConsistent(Rewired(t))
<1>1. \A k \in DOMAIN t : /\ Rewired(t)[k].done = t[k].done
                          /\ Rewired(t)[k].sealed = t[k].sealed
                          /\ Rewired(t)[k].deferred = t[k].deferred
  BY DEF Rewired, IsTable, Row
<1>2. DOMAIN Rewired(t) = DOMAIN t
  BY DEF Rewired
<1> QED BY <1>1, <1>2 DEF RowsConsistent, OnlyOneActive

----------------------------------------------------------------------------
(* A sound table, and the statements that leave one.                       *)

TableOK(t) == IsTable(t) /\ InChainOrder(t) /\ RowsConsistent(t)

(***************************************************************************)
(* A database without migrations satisfies the invariant.                  *)
(***************************************************************************)
LEMMA EmptyTableOK == TableOK(EmptyTable)
<1>1. DOMAIN EmptyTable = {}
  BY DEF EmptyTable
<1>2. IsTable(EmptyTable)
  BY DEF EmptyTable, IsTable
<1> QED BY <1>1, <1>2
        DEF TableOK, InChainOrder, DistinctTimes, FollowsPredecessor,
            RowsConsistent, OnlyOneActive

(***************************************************************************)
(* The INSERTs of Start, CreateBaseline and Stamp leave a sound table when *)
(* the constraints accept them.                                            *)
(***************************************************************************)
LEMMA InsertOK ==
  ASSUME NEW t, TableOK(t), NEW n \in Names, NEW row \in Row,
         n \notin DOMAIN t, row.parent # n,
         row.created \in Later(t),
         row.sealed \/ row.deferred => row.done,
         Constraints(Inserted(t, n, row))
  PROVE  TableOK(Inserted(t, n, row))
BY InsertKeepsOrder, InsertKeepsRows DEF TableOK

(***************************************************************************)
(* The DELETE of a leaf (Rollback, DeleteMigration) leaves a sound table.  *)
(***************************************************************************)
LEMMA DeleteOK ==
  ASSUME NEW t, TableOK(t), NEW n, ~HasChild(t, n)
  PROVE  TableOK(Deleted(t, n))
BY DeleteKeepsOrder, DeleteKeepsRows DEF TableOK, Deleted

(***************************************************************************)
(* The rows Prune keeps, rewired, are a sound table whatever was removed.  *)
(***************************************************************************)
LEMMA KeepersOK ==
  ASSUME NEW t, TableOK(t), NEW S
  PROVE  TableOK(Keepers(t, S))
<1> DEFINE kept == Restrict(t, DOMAIN t \ S)
<1>1. IsTable(kept)
  BY DEF TableOK, IsTable, Restrict
<1>2. DistinctTimes(kept)
  BY DEF TableOK, InChainOrder, DistinctTimes, Restrict
<1>3. RowsConsistent(kept)
  BY DeleteKeepsRows DEF TableOK
<1>4. InChainOrder(Rewired(kept)) /\ IsTable(Rewired(kept))
  BY <1>1, <1>2, RewiredInOrder
<1> QED BY <1>1, <1>3, <1>4, RewiredKeepsRows DEF TableOK, Keepers

(***************************************************************************)
(* An UPDATE that sets flags, and never seals or queues a row that is not  *)
(* done, leaves a sound table.                                             *)
(***************************************************************************)
LEMMA UpdateOK ==
  ASSUME NEW t, TableOK(t), NEW u, IsTable(u), DOMAIN u = DOMAIN t,
         \A k \in DOMAIN u : /\ u[k].parent = t[k].parent
                             /\ u[k].created = t[k].created
                             /\ u[k].done \/ u[k].done = t[k].done
                             /\ u[k].sealed \/ u[k].deferred => u[k].done
  PROVE  TableOK(u)
<1>1. InChainOrder(u)
  BY FlagsKeepOrder DEF TableOK
<1>2. RowsConsistent(u)
  BY DEF TableOK, RowsConsistent, OnlyOneActive
<1> QED BY <1>1, <1>2 DEF TableOK

(***************************************************************************)
(* latest_migration() returns NULL or a recorded name.                     *)
(***************************************************************************)
LEMMA LatestInTable ==
  ASSUME NEW t, IsTable(t)
  PROVE  LatestMigration(t) = NoName \/ LatestMigration(t) \in DOMAIN t
BY DEF LatestMigration, Leaves

(***************************************************************************)
(* The writes of the statements that only change flags.                    *)
(***************************************************************************)
LEMMA FlagWritesOK ==
  ASSUME NEW t, TableOK(t), NEW n \in DOMAIN t
  PROVE  /\ TableOK(Completed(t, n))
         /\ TableOK(MarkedDeferred(t, n))
         /\ TableOK(DeferredCleared(t, n))
         /\ TableOK(ConvertedToBaseline(t, n))
         /\ TableOK(MarkedSealed(t))
<1>0. /\ IsTable(t)
      /\ \A k \in DOMAIN t :
           /\ t[k] \in Row
           /\ t[k].sealed \/ t[k].deferred => t[k].done
  BY DEF TableOK, IsTable, RowsConsistent
<1>1. TableOK(Completed(t, n))
  <2> DEFINE u == Completed(t, n)
  <2>1. IsTable(u) /\ DOMAIN u = DOMAIN t
    BY <1>0 DEF IsTable, Completed, Row
  <2>2. \A k \in DOMAIN u : /\ u[k].parent = t[k].parent
                            /\ u[k].created = t[k].created
                            /\ u[k].done \/ u[k].done = t[k].done
                            /\ u[k].sealed \/ u[k].deferred => u[k].done
    BY <1>0 DEF Completed, Row
  <2> HIDE DEF u
  <2> QED BY <2>1, <2>2, UpdateOK DEF u
<1>2. TableOK(MarkedDeferred(t, n))
  <2> DEFINE u == MarkedDeferred(t, n)
  <2>1. IsTable(u) /\ DOMAIN u = DOMAIN t
    BY <1>0 DEF IsTable, MarkedDeferred, Row
  <2>2. \A k \in DOMAIN u : /\ u[k].parent = t[k].parent
                            /\ u[k].created = t[k].created
                            /\ u[k].done \/ u[k].done = t[k].done
                            /\ u[k].sealed \/ u[k].deferred => u[k].done
    BY <1>0 DEF MarkedDeferred, Row
  <2> HIDE DEF u
  <2> QED BY <2>1, <2>2, UpdateOK DEF u
<1>3. TableOK(DeferredCleared(t, n))
  <2> DEFINE u == DeferredCleared(t, n)
  <2>1. IsTable(u) /\ DOMAIN u = DOMAIN t
    BY <1>0 DEF IsTable, DeferredCleared, Row
  <2>2. \A k \in DOMAIN u : /\ u[k].parent = t[k].parent
                            /\ u[k].created = t[k].created
                            /\ u[k].done \/ u[k].done = t[k].done
                            /\ u[k].sealed \/ u[k].deferred => u[k].done
    BY <1>0 DEF DeferredCleared, Row
  <2> HIDE DEF u
  <2> QED BY <2>1, <2>2, UpdateOK DEF u
<1>4. TableOK(ConvertedToBaseline(t, n))
  <2> DEFINE u == ConvertedToBaseline(t, n)
  <2>1. IsTable(u) /\ DOMAIN u = DOMAIN t
    BY <1>0 DEF IsTable, ConvertedToBaseline, Row, Types
  <2>2. \A k \in DOMAIN u : /\ u[k].parent = t[k].parent
                            /\ u[k].created = t[k].created
                            /\ u[k].done \/ u[k].done = t[k].done
                            /\ u[k].sealed \/ u[k].deferred => u[k].done
    BY <1>0 DEF ConvertedToBaseline, Row
  <2> HIDE DEF u
  <2> QED BY <2>1, <2>2, UpdateOK DEF u
<1>5. TableOK(MarkedSealed(t))
  <2> DEFINE u == MarkedSealed(t)
  <2>1. IsTable(u) /\ DOMAIN u = DOMAIN t
    BY <1>0 DEF IsTable, MarkedSealed, Row
  <2>2. \A k \in DOMAIN u : /\ u[k].parent = t[k].parent
                            /\ u[k].created = t[k].created
                            /\ u[k].done \/ u[k].done = t[k].done
                            /\ u[k].sealed \/ u[k].deferred => u[k].done
    BY <1>0 DEF MarkedSealed, Row
  <2> HIDE DEF u
  <2> QED BY <2>1, <2>2, UpdateOK DEF u
<1> QED BY <1>1, <1>2, <1>3, <1>4, <1>5
=============================================================================
