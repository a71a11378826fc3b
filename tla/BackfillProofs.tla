--------------------------- MODULE BackfillProofs ---------------------------
(***************************************************************************)
(* The backfill fills every row it can, for any table, any operations,     *)
(* batch size, retry budget and number of application writes, whether or   *)
(* not writes overlap a batch, CreateTriggers succeeds or the backfill     *)
(* fails.  What it does not fill is exactly what the history records.      *)
(***************************************************************************)
EXTENDS Backfill, FiniteSetTheorems, WellFoundedInduction, TLAPS

Values == [w : Int, ups : {<<>>} \cup {AllUps(c) : c \in Columns}
                                 \cup {AddTask(c) : c \in Columns}]

TableRows == [old : [Columns -> Int], new : [Columns -> Values], flag : BOOLEAN]

Types ==
  /\ setup \in [ops : Jobs, identity : Identities, final : Finals]
  /\ DOMAIN rows \subseteq Keys /\ rows \in [DOMAIN rows -> TableRows]
  /\ truth \in [DOMAIN rows -> [Columns -> Int]]
  /\ marker \in BOOLEAN
  /\ cursor \in Keys \cup {NoValue, EmptyValue}
  /\ writes \in Nat

\* Every trigger that exists was created after the marker.
TriggersOK ==
  /\ triggers \subseteq JobTriggers
  /\ triggers # {} => marker
  /\ pc = "triggers" => /\ picked \subseteq todo /\ todo \subseteq JobTriggers
                        /\ picked # {} => marker
                        /\ cursor = NoValue

\* A value of the new column is filled for good only once its trigger exists;
\* until then, and from the marker column on, the row stays flagged and ahead
\* of the batches.
Filled(k, c) == UpTrigger(c) \in triggers /\ rows[k].new[c] = Up(c, rows[k].old[c])

Ahead(k) == rows[k].flag /\ (HasIdentity => After(k))

\* The backfill cannot fill the column any more.
Lost(k, c) == <<k, c>> \in missed \/ (pc # "triggers" /\ UpTrigger(c) \notin triggers)

FillOK ==
  pc \in {"triggers", "backfill", "update"} =>
    \A k \in DOMAIN rows, c \in Columns :
      /\ rows[k].old[c] = truth[k][c]
      /\ Filled(k, c) \/ ~marker \/ Ahead(k) \/ Lost(k, c)

Synced(k, c) ==
  /\ rows[k].new[c].w = truth[k][c]
  /\ rows[k].new[c].ups \in {AddTask(c), AllUps(c)}
  /\ Altered(c) => rows[k].old[c] = truth[k][c]

\* A statement that was not overtaken and has picked nothing finds nothing
\* flagged, as long as some trigger clears the flag.
DoneOK ==
  setup.final =>
    /\ pc = "update" /\ picked = {} /\ ~overtaken =>
         Flagged = {} \/ \A c \in Columns : UpTrigger(c) \notin triggers
    /\ pc = "done" => \A k \in DOMAIN rows, c \in Columns :
                        Served(c) /\ <<k, c>> \notin missed => Synced(k, c)

(***************************************************************************)
(* The inductive invariant.                                                *)
(***************************************************************************)
BackfillInv == Types /\ TriggersOK /\ FillOK /\ DoneOK

----------------------------------------------------------------------------
(* The operations and the rows.                                            *)

(***************************************************************************)
(* What depends on the migration alone does not change.                    *)
(***************************************************************************)
LEMMA SetupKept ==
  ASSUME UNCHANGED setup
  PROVE  /\ Columns' = Columns /\ JobTriggers' = JobTriggers
         /\ \A c : AddTask(c)' = AddTask(c)
         /\ \A c : AllUps(c)' = AllUps(c)
         /\ \A c : Altered(c)' = Altered(c)
         /\ TableRows' = TableRows /\ Values' = Values /\ HasIdentity' = HasIdentity
<1>1. Columns' = Columns
  BY DEF Columns
<1>2. ASSUME NEW c PROVE AddTask(c)' = AddTask(c)
  BY DEF AddTask
<1>3. ASSUME NEW c PROVE AllUps(c)' = AllUps(c)
  BY DEF AllUps
<1>4. ASSUME NEW c PROVE Altered(c)' = Altered(c)
  BY DEF Altered
<1>5. JobTriggers' = JobTriggers
  BY <1>1, <1>4 DEF JobTriggers
<1>6. Values' = Values
  BY <1>1, <1>2, <1>3 DEF Values
<1>7. TableRows' = TableRows
  BY <1>1, <1>6 DEF TableRows
<1>8. HasIdentity' = HasIdentity
  BY DEF HasIdentity
<1> QED BY <1>1, <1>2, <1>3, <1>4, <1>5, <1>6, <1>7, <1>8

(***************************************************************************)
(* A column has an `up` trigger, and one that the migration alters has a   *)
(* `down` trigger too.                                                     *)
(***************************************************************************)
LEMMA ColumnTriggers ==
  ASSUME NEW c \in Columns
  PROVE  /\ UpTrigger(c) \in JobTriggers
         /\ Served(c) => /\ UpTrigger(c) \in triggers
                         /\ Altered(c) => [dir |-> "down", col |-> c] \in triggers
<1>1. UpTrigger(c) \in JobTriggers /\ UpTrigger(c).col = c
  BY DEF JobTriggers, UpTrigger
<1>2. Altered(c) => [dir |-> "down", col |-> c] \in JobTriggers
  BY DEF JobTriggers
<1> QED BY <1>1, <1>2 DEF Served

(***************************************************************************)
(* A nonempty set of natural numbers has a least element.                  *)
(***************************************************************************)
LEMMA LeastKey ==
  ASSUME NEW S \in SUBSET Nat, S # {}
  PROVE  \E x \in S : \A y \in S : x <= y
<1>1. PICK x \in S : \A y \in S : ~ (<<y, x>> \in OpToRel(<, Nat))
  BY NatLessThanWellFounded, WFMin, Zenon
<1>2. ASSUME NEW y \in S PROVE ~ (y < x)
  BY <1>1 DEF OpToRel
<1> QED BY <1>2

(***************************************************************************)
(* ORDER BY key LIMIT BatchSize: a batch is empty only when no flagged row *)
(* is ahead, and whatever it leaves ahead comes after all of it.           *)
(***************************************************************************)
LEMMA BatchIsFirst ==
  ASSUME Types
  PROVE  /\ Batch = {} => \A k \in Flagged : ~After(k)
         /\ \A b \in Batch : b \in Flagged /\ After(b)
         /\ \A b \in Batch, k \in Flagged : After(k) /\ k \notin Batch => k > b
<1> DEFINE ahead == {k \in Flagged : After(k)}
           before(k) == {j \in ahead : j < k}
<1>1. IsFiniteSet(ahead) /\ ahead \in SUBSET Nat
  <2>1. ahead \in SUBSET Keys
    BY DEF Types, Flagged
  <2> QED BY <2>1, BackfillAssumption, FS_Subset
<1>2. Batch = {k \in ahead : Cardinality(before(k)) < BatchSize}
  BY DEF Batch
<1>3. \A k : IsFiniteSet(before(k)) /\ Cardinality(before(k)) \in Nat
  <2>1. ASSUME NEW k PROVE IsFiniteSet(before(k)) /\ Cardinality(before(k)) \in Nat
    <3>1. before(k) \in SUBSET ahead
      OBVIOUS
    <3> HIDE DEF before, ahead
    <3> QED BY <1>1, <3>1, FS_Subset, FS_CardinalityType
  <2> QED BY <2>1
<1>4. ASSUME ahead # {} PROVE Batch # {}
  <2>1. PICK x \in ahead : \A y \in ahead : x <= y
    BY <1>1, <1>4, LeastKey
  <2>2. before(x) = {}
    BY <1>1, <2>1
  <2>3. Cardinality(before(x)) = 0
    BY <2>2, FS_EmptySet
  <2> HIDE DEF before, ahead
  <2> QED BY <1>2, <2>1, <2>3, BackfillAssumption
<1>5. ASSUME NEW b \in Batch, NEW k \in ahead, k \notin Batch PROVE k > b
  <2>1. /\ b \in ahead /\ b \in Nat /\ k \in Nat
        /\ Cardinality(before(b)) < BatchSize /\ ~(Cardinality(before(k)) < BatchSize)
    BY <1>1, <1>2, <1>5
  <2>2. k <= b => before(k) \in SUBSET before(b)
    BY <1>1, <2>1
  <2> HIDE DEF before, ahead
  <2>3. k <= b => Cardinality(before(k)) <= Cardinality(before(b))
    BY <1>3, <2>2, FS_Subset
  <2> QED BY <1>3, <2>1, <2>3, BackfillAssumption
<1> QED BY <1>2, <1>4, <1>5

(***************************************************************************)
(* The trigger functions for a session that is not on the migration's own  *)
(* version: they fill the new columns that have a trigger.                 *)
(***************************************************************************)
LEMMA FunctionFills ==
  ASSUME Types, NEW row \in TableRows, NEW via \in {"old", "pgroll"}
  PROVE  /\ Ups(via) = {c \in Columns : UpTrigger(c) \in triggers}
         /\ Function(row, via) \in TableRows
         /\ Function(row, via).old = row.old
         /\ Function(row, via).flag = (row.flag /\ \A c \in Columns : UpTrigger(c) \notin triggers)
         /\ \A c \in Columns : Function(row, via).new[c] =
                IF UpTrigger(c) \in triggers THEN Up(c, row.old[c]) ELSE row.new[c]
<1>1. /\ Ups(via) = {c \in Columns : UpTrigger(c) \in triggers}
      /\ Downs(via) = {}
  BY DEF Ups, Downs, IsLatest, UpTrigger
<1>2. /\ row.old \in [Columns -> Int] /\ row.new \in [Columns -> Values]
      /\ row.flag \in BOOLEAN
  BY DEF TableRows
<1>3. \A c \in Columns : Up(c, row.old[c]) \in Values
  BY <1>2 DEF Up, Values
<1>4. Function(row, via) =
        [old  |-> row.old,
         new  |-> [c \in Columns |-> IF UpTrigger(c) \in triggers THEN Up(c, row.old[c])
                                     ELSE row.new[c]],
         flag |-> row.flag /\ \A c \in Columns : UpTrigger(c) \notin triggers]
  BY <1>1, <1>2 DEF Function
<1>5. Function(row, via) \in TableRows
  BY <1>2, <1>3, <1>4 DEF TableRows
<1> HIDE DEF Up
<1> QED BY <1>1, <1>2, <1>4, <1>5


----------------------------------------------------------------------------
(* Every step keeps the invariant.                                         *)

(***************************************************************************)
(* CreateTriggers, whether it succeeds or not.                             *)
(***************************************************************************)
LEMMA CreateTriggersKeepsInv ==
  ASSUME BackfillInv, AddMarker \/ CreateTrigger \/ CreateTriggersReturns
  PROVE  BackfillInv'
<1>0. Types /\ TriggersOK /\ FillOK /\ DoneOK
  BY DEF BackfillInv
<1>1. UNCHANGED <<cursor, writes, truth, overtaken, missed, setup>> /\ pc = "triggers"
  BY DEF AddMarker, CreateTrigger, CreateTriggersReturns, history
<1>2. /\ Columns' = Columns /\ JobTriggers' = JobTriggers /\ TableRows' = TableRows
      /\ \A c : AddTask(c)' = AddTask(c)
  BY <1>1, SetupKept
<1>3. \A k \in DOMAIN rows : After(k)' /\ After(k)
  BY <1>0, <1>1, BackfillAssumption DEF Types, TriggersOK, After, NoValue
<1>4. CASE AddMarker
  <2>1. /\ marker' = TRUE /\ pc' = "triggers" /\ UNCHANGED <<triggers, todo>>
        /\ rows' = IF marker THEN rows ELSE [k \in DOMAIN rows |-> [rows[k] EXCEPT !.flag = TRUE]]
        /\ picked' \subseteq todo
    BY <1>1, <1>4 DEF AddMarker
  <2>2. /\ DOMAIN rows' = DOMAIN rows /\ rows' \in [DOMAIN rows -> TableRows]
        /\ \A k \in DOMAIN rows : /\ rows'[k].old = rows[k].old /\ rows'[k].new = rows[k].new
                                  /\ rows'[k].flag = (rows[k].flag \/ ~marker)
    BY <1>0, <2>1 DEF Types, TableRows
  <2>3. Types'
    BY <1>0, <1>1, <1>2, <2>1, <2>2 DEF Types
  <2>4. TriggersOK'
    BY <1>0, <1>1, <1>2, <2>1 DEF TriggersOK
  <2>5. FillOK'
    <3>1. ASSUME NEW k \in DOMAIN rows, NEW c \in Columns
          PROVE  rows'[k].old[c] = truth'[k][c] /\ (Filled(k, c)' \/ Ahead(k)' \/ Lost(k, c)')
      <4>1. rows[k].old[c] = truth[k][c] /\ (Filled(k, c) \/ ~marker \/ Ahead(k) \/ Lost(k, c))
        BY <1>0, <1>1 DEF FillOK
      <4> QED BY <1>1, <1>2, <1>3, <2>1, <2>2, <4>1 DEF Filled, Ahead, Up, Lost
    <3> QED BY <1>2, <2>1, <2>2, <3>1 DEF FillOK
  <2>6. DoneOK'
    BY <2>1 DEF DoneOK
  <2> QED BY <2>3, <2>4, <2>5, <2>6 DEF BackfillInv
<1>5. CASE CreateTrigger
  <2>1. /\ UNCHANGED <<rows, marker, pc>> /\ picked # {} /\ picked' = {}
        /\ triggers' = triggers \cup picked /\ todo' = todo \ picked
    BY <1>5 DEF CreateTrigger
  <2>2. Types'
    BY <1>0, <1>1, <1>2, <2>1 DEF Types
  <2>3. TriggersOK'
    BY <1>0, <1>1, <1>2, <2>1 DEF TriggersOK
  <2>4. FillOK'
    <3>1. ASSUME NEW k \in DOMAIN rows, NEW c \in Columns
          PROVE  /\ rows'[k].old[c] = truth'[k][c]
                 /\ Filled(k, c)' \/ ~marker' \/ Ahead(k)' \/ Lost(k, c)'
      <4>1. rows[k].old[c] = truth[k][c] /\ (Filled(k, c) \/ ~marker \/ Ahead(k) \/ Lost(k, c))
        BY <1>0, <1>1 DEF FillOK
      <4> QED BY <1>1, <1>2, <1>3, <2>1, <4>1 DEF Filled, Ahead, Up, Lost
    <3> QED BY <1>2, <2>1, <3>1 DEF FillOK
  <2>5. DoneOK'
    BY <1>1, <2>1 DEF DoneOK
  <2> QED BY <2>2, <2>3, <2>4, <2>5 DEF BackfillInv
<1>6. CASE CreateTriggersReturns
  <2>1. UNCHANGED <<rows, marker, triggers>> /\ pc' = "backfill"
    BY <1>6 DEF CreateTriggersReturns
  <2>2. Types'
    BY <1>0, <1>1, <1>2, <2>1 DEF Types
  <2>3. TriggersOK'
    BY <1>0, <1>2, <2>1 DEF TriggersOK
  <2>4. FillOK'
    <3>1. ASSUME NEW k \in DOMAIN rows, NEW c \in Columns
          PROVE  /\ rows'[k].old[c] = truth'[k][c]
                 /\ Filled(k, c)' \/ ~marker' \/ Ahead(k)' \/ Lost(k, c)'
      <4>1. rows[k].old[c] = truth[k][c] /\ (Filled(k, c) \/ ~marker \/ Ahead(k) \/ Lost(k, c))
        BY <1>0, <1>1 DEF FillOK
      <4> QED BY <1>1, <1>2, <1>3, <2>1, <4>1 DEF Filled, Ahead, Up, Lost
    <3> QED BY <1>2, <2>1, <3>1 DEF FillOK
  <2>5. DoneOK'
    BY <2>1 DEF DoneOK
  <2> QED BY <2>2, <2>3, <2>4, <2>5 DEF BackfillInv
<1> QED BY <1>4, <1>5, <1>6

(***************************************************************************)
(* The rows a batch touches are filled where there are triggers, the       *)
(* others are left as they are.                                            *)
(***************************************************************************)
LEMMA TouchFills ==
  ASSUME BackfillInv, NEW keys, Touch(keys, "pgroll"), UNCHANGED <<setup, triggers>>
  PROVE  /\ DOMAIN rows' = DOMAIN rows /\ rows' \in [DOMAIN rows -> TableRows]
         /\ \A k \in DOMAIN rows \ keys : rows'[k] = rows[k]
         /\ \A k \in DOMAIN rows, c \in Columns : rows'[k].old[c] = rows[k].old[c]
         /\ \A k \in DOMAIN rows \cap keys, c \in Columns :
              UpTrigger(c) \in triggers => Filled(k, c)'
<1>1. /\ rows' = [k \in DOMAIN rows |->
                    IF k \in keys THEN Function(rows[k], "pgroll") ELSE rows[k]]
      /\ Types /\ \A k \in DOMAIN rows : rows[k] \in TableRows
  BY DEF Touch, BackfillInv, Types
<1>2. ASSUME NEW k \in DOMAIN rows
      PROVE  /\ Function(rows[k], "pgroll") \in TableRows
             /\ Function(rows[k], "pgroll").old = rows[k].old
             /\ \A c \in Columns : UpTrigger(c) \in triggers =>
                  Function(rows[k], "pgroll").new[c] = Up(c, rows[k].old[c])
  <2>1. "pgroll" \in {"old", "pgroll"}
    OBVIOUS
  <2> QED BY <1>1, <2>1, FunctionFills
<1>3. \A c : AddTask(c)' = AddTask(c)
  BY SetupKept
<1> QED BY <1>1, <1>2, <1>3 DEF Filled, Up

(***************************************************************************)
(* The batches.                                                            *)
(***************************************************************************)
LEMMA BatchesKeepInv ==
  ASSUME BackfillInv,
         UpdateBatchByKey \/ NoMoreBatches \/ SelectByMarker \/ UpdateByMarker
  PROVE  BackfillInv'
<1>0. Types /\ TriggersOK /\ FillOK /\ DoneOK
  BY DEF BackfillInv
<1>1. /\ UNCHANGED <<writes, truth, setup, triggers, marker>> /\ pc \in {"backfill", "update"}
      /\ pc' \in {"backfill", "update", "done"}
  BY DEF UpdateBatchByKey, NoMoreBatches, SelectByMarker, UpdateByMarker
<1>2. /\ Columns' = Columns /\ JobTriggers' = JobTriggers /\ TableRows' = TableRows
      /\ \A c : AddTask(c)' = AddTask(c)
      /\ \A c : AllUps(c)' = AllUps(c)
      /\ \A c : Altered(c)' = Altered(c)
      /\ HasIdentity' = HasIdentity
  BY <1>1, SetupKept
<1>3. TriggersOK'
  BY <1>0, <1>1, <1>2 DEF TriggersOK
\* What is recorded as filled ends up in sync.
<1>4. ASSUME UNCHANGED rows, NEW k \in DOMAIN rows, NEW c \in Columns, ~Ahead(k),
             Served(c)', <<k, c>> \notin missed
      PROVE  Synced(k, c)'
  <2>1. UpTrigger(c) \in triggers /\ marker
    BY <1>0, <1>1, <1>2, <1>4, ColumnTriggers DEF Served, TriggersOK
  <2>2. rows[k].old[c] = truth[k][c] /\ rows[k].new[c] = Up(c, rows[k].old[c])
    BY <1>0, <1>1, <1>4, <2>1 DEF FillOK, Filled, Lost
  <2>3. rows[k].new[c].w = truth[k][c] /\ rows[k].new[c].ups = AddTask(c)
    BY <2>2 DEF Up
  <2> QED BY <1>1, <1>2, <1>4, <2>2, <2>3 DEF Synced
<1>5. CASE UpdateBatchByKey
  <2>1. /\ Touch(Batch, "pgroll") /\ cursor' \in Batch
        /\ UNCHANGED <<pc, todo, picked, overtaken, missed>>
        /\ pc = "backfill" /\ HasIdentity
    BY <1>5 DEF UpdateBatchByKey, history
  <2>2. /\ DOMAIN rows' = DOMAIN rows /\ rows' \in [DOMAIN rows -> TableRows]
        /\ \A k \in DOMAIN rows \ Batch : rows'[k] = rows[k]
        /\ \A k \in DOMAIN rows, c \in Columns : rows'[k].old[c] = rows[k].old[c]
        /\ \A k \in DOMAIN rows \cap Batch, c \in Columns :
             UpTrigger(c) \in triggers => Filled(k, c)'
    BY <1>1, <2>1, TouchFills
  <2>3. Types'
    <3>1. cursor' \in Keys
      BY <1>0, <2>1, BatchIsFirst DEF Types, Flagged
    <3> QED BY <1>0, <1>1, <1>2, <2>2, <3>1 DEF Types
  <2>4. FillOK'
    <3>1. ASSUME NEW k \in DOMAIN rows, NEW c \in Columns
          PROVE  /\ rows'[k].old[c] = truth'[k][c]
                 /\ Filled(k, c)' \/ ~marker' \/ Ahead(k)' \/ Lost(k, c)'
      <4>1. rows[k].old[c] = truth[k][c] /\ (Filled(k, c) \/ ~marker \/ Ahead(k) \/ Lost(k, c))
        BY <1>0, <1>1 DEF FillOK
      <4>2. CASE Lost(k, c) \/ ~marker \/ UpTrigger(c) \notin triggers
        BY <1>1, <2>1, <2>2, <4>1, <4>2 DEF Lost
      <4>3. CASE k \in Batch /\ UpTrigger(c) \in triggers
        BY <1>1, <2>2, <4>1, <4>3
      <4>4. CASE k \notin Batch /\ Filled(k, c)
        BY <1>1, <1>2, <2>2, <4>1, <4>4 DEF Filled, Up
      <4>5. CASE k \notin Batch /\ Ahead(k)
        <5>1. k \in Flagged /\ After(k)
          BY <2>1, <4>5 DEF Ahead, Flagged
        <5>2. k > cursor'
          BY <1>0, <2>1, <4>5, <5>1, BatchIsFirst
        <5> QED BY <1>1, <2>2, <4>1, <4>5, <5>2 DEF Ahead, After
      <4> QED BY <4>1, <4>2, <4>3, <4>4, <4>5
    <3> QED BY <1>2, <2>2, <3>1 DEF FillOK
  <2>5. DoneOK'
    BY <2>1 DEF DoneOK
  <2> QED BY <1>3, <2>1, <2>3, <2>4, <2>5 DEF BackfillInv
<1>6. CASE NoMoreBatches
  <2>1. UNCHANGED <<rows, cursor, overtaken, missed>> /\ pc' = "done" /\ HasIdentity /\ Batch = {}
    BY <1>6 DEF NoMoreBatches, history
  <2>2. Types'
    BY <1>0, <1>1, <1>2, <2>1 DEF Types
  <2>3. \A k \in DOMAIN rows : ~Ahead(k)
    BY <1>0, <2>1, BatchIsFirst DEF Ahead, Flagged
  <2>4. DoneOK'
    BY <1>2, <1>4, <2>1, <2>3 DEF DoneOK
  <2>5. FillOK'
    BY <2>1 DEF FillOK
  <2> QED BY <1>3, <2>1, <2>2, <2>4, <2>5 DEF BackfillInv
<1>7. CASE SelectByMarker
  <2>1. /\ UNCHANGED <<rows, cursor, missed>> /\ pc' = "update" /\ pc = "backfill"
        /\ picked' \subseteq Flagged
        /\ Cardinality(picked') = BatchSize \/ picked' = Flagged
    BY <1>7 DEF SelectByMarker
  <2>2. Types'
    BY <1>0, <1>1, <1>2, <2>1 DEF Types
  <2>3. FillOK'
    <3>1. ASSUME NEW k \in DOMAIN rows, NEW c \in Columns
          PROVE  /\ rows'[k].old[c] = truth'[k][c]
                 /\ Filled(k, c)' \/ ~marker' \/ Ahead(k)' \/ Lost(k, c)'
      <4>1. rows[k].old[c] = truth[k][c] /\ (Filled(k, c) \/ ~marker \/ Ahead(k) \/ Lost(k, c))
        BY <1>0, <1>1 DEF FillOK
      <4> QED BY <1>1, <1>2, <2>1, <4>1 DEF Filled, Ahead, After, Up, Lost
    <3> QED BY <1>2, <2>1, <3>1 DEF FillOK
  <2>4. picked' = {} => Flagged' = {}
    <3>1. picked' = {} => picked' = Flagged
      BY <2>1, FS_EmptySet, BackfillAssumption
    <3> QED BY <2>1, <3>1 DEF Flagged
  <2>5. DoneOK'
    BY <2>1, <2>4 DEF DoneOK
  <2> QED BY <1>3, <2>1, <2>2, <2>3, <2>5 DEF BackfillInv
<1>8. CASE UpdateByMarker
  <2>1. /\ Touch(picked, "pgroll") /\ UNCHANGED <<cursor, overtaken>> /\ pc = "update"
        /\ pc' = IF picked = {} THEN "done" ELSE "backfill"
        /\ missed' = IF picked = {} /\ overtaken THEN missed \cup (Flagged \X Columns) ELSE missed
    BY <1>8 DEF UpdateByMarker
  <2>2. /\ DOMAIN rows' = DOMAIN rows /\ rows' \in [DOMAIN rows -> TableRows]
        /\ \A k \in DOMAIN rows \ picked : rows'[k] = rows[k]
        /\ \A k \in DOMAIN rows, c \in Columns : rows'[k].old[c] = rows[k].old[c]
        /\ \A k \in DOMAIN rows \cap picked, c \in Columns :
             UpTrigger(c) \in triggers => Filled(k, c)'
    BY <1>1, <2>1, TouchFills
  <2>3. Types'
    BY <1>0, <1>1, <1>2, <2>1, <2>2 DEF Types
  <2>4. FillOK'
    <3>1. ASSUME NEW k \in DOMAIN rows, NEW c \in Columns
          PROVE  /\ rows'[k].old[c] = truth'[k][c]
                 /\ Filled(k, c)' \/ ~marker' \/ Ahead(k)' \/ Lost(k, c)'
      <4>1. rows[k].old[c] = truth[k][c] /\ (Filled(k, c) \/ ~marker \/ Ahead(k) \/ Lost(k, c))
        BY <1>0, <1>1 DEF FillOK
      <4>2. CASE Lost(k, c) \/ UpTrigger(c) \notin triggers
        BY <1>1, <2>1, <2>2, <4>1, <4>2 DEF Lost
      <4>3. CASE k \in picked /\ UpTrigger(c) \in triggers
        BY <1>1, <2>2, <4>1, <4>3
      <4>4. CASE k \notin picked /\ ~Lost(k, c)
        BY <1>1, <1>2, <2>1, <2>2, <4>1, <4>4 DEF Filled, Ahead, After, Up
      <4> QED BY <4>2, <4>3, <4>4
    <3> QED BY <1>2, <2>2, <3>1 DEF FillOK
  <2>5. DoneOK'
    <3>1. CASE picked = {} /\ setup.final
      <4>1. rows' = rows
        BY <1>0, <2>2, <3>1 DEF Types
      <4>2. ASSUME NEW k \in DOMAIN rows, NEW c \in Columns, Served(c)', <<k, c>> \notin missed'
            PROVE  Synced(k, c)'
        <5>1. UpTrigger(c) \in triggers
          BY <1>1, <1>2, <4>2, ColumnTriggers DEF Served
        <5>2. ~Ahead(k)
          BY <1>0, <2>1, <3>1, <4>2, <5>1 DEF DoneOK, Ahead, Flagged
        <5>3. <<k, c>> \notin missed
          BY <2>1, <4>2
        <5> QED BY <1>4, <4>1, <4>2, <5>2, <5>3
      <4> QED BY <1>2, <2>1, <2>2, <3>1, <4>2 DEF DoneOK
    <3> QED BY <1>1, <2>1, <3>1 DEF DoneOK
  <2> QED BY <1>3, <2>1, <2>3, <2>4, <2>5 DEF BackfillInv
<1> QED BY <1>5, <1>6, <1>7, <1>8

(***************************************************************************)
(* Any write leaves a row of the table.                                    *)
(***************************************************************************)
LEMMA FunctionType ==
  ASSUME Types, NEW row \in TableRows, NEW via
  PROVE  Function(row, via) \in TableRows
<1>1. /\ row.old \in [Columns -> Int] /\ row.new \in [Columns -> Values]
      /\ row.flag \in BOOLEAN
  BY DEF TableRows
<1>2. \A c \in Columns : row.new[c].w \in Int
  BY <1>1 DEF Values
<1>3. \A c \in Columns : Up(c, row.old[c]) \in Values
  BY <1>1 DEF Up, Values
<1> QED BY <1>1, <1>2, <1>3 DEF Function, TableRows

(***************************************************************************)
(* The trigger functions for a session on the migration's own version:     *)
(* they write back the altered columns that have their trigger.            *)
(***************************************************************************)
LEMMA FunctionWritesBack ==
  ASSUME Types, NEW row \in TableRows, setup.final
  PROVE  /\ Function(row, "new").new = row.new
         /\ \A c \in Columns : Served(c) /\ Altered(c) =>
              Function(row, "new").old[c] = row.new[c].w
<1>1. Ups("new") = {} /\ \A c \in Columns : Served(c) /\ Altered(c) => c \in Downs("new")
  BY ColumnTriggers DEF Ups, Downs, IsLatest
<1>2. row.old \in [Columns -> Int] /\ row.new \in [Columns -> Values]
  BY DEF TableRows
<1>3. Function(row, "new") =
        [old  |-> [c \in Columns |-> IF c \in Downs("new") THEN row.new[c].w ELSE row.old[c]],
         new  |-> row.new,
         flag |-> row.flag /\ Ups("new") \cup Downs("new") = {}]
  BY <1>1, <1>2 DEF Function
<1> QED BY <1>1, <1>3

(***************************************************************************)
(* What a write by the previous version makes of a row.  If no column has  *)
(* its trigger, the row is as flagged as before; otherwise the columns     *)
(* that have one are filled and the others are missed.                     *)
(***************************************************************************)
LEMMA OldWriteFills ==
  ASSUME BackfillInv, NEW row \in TableRows, UNCHANGED <<setup, triggers>>,
         NEW k \in DOMAIN rows', rows'[k] = Function(row, "old"),
         NEW cols, missed' = MissedBy(k, cols, "old")
  PROVE  /\ rows'[k].old = row.old
         /\ \A c \in Columns : UpTrigger(c) \in triggers => Filled(k, c)'
         /\ (\A c \in Columns : UpTrigger(c) \notin triggers) =>
              missed' = missed /\ rows'[k].flag = row.flag
         /\ \A c, d \in Columns : UpTrigger(c) \in triggers =>
              /\ rows'[k].flag = FALSE
              /\ UpTrigger(d) \notin triggers => <<k, d>> \in missed'
<1>1. Types /\ "old" \in {"old", "pgroll"} /\ "old" # "new"
  BY DEF BackfillInv
<1>2. /\ rows'[k] \in TableRows /\ rows'[k].old = row.old
      /\ Ups("old") = {c \in Columns : UpTrigger(c) \in triggers}
      /\ rows'[k].flag = (row.flag /\ \A c \in Columns : UpTrigger(c) \notin triggers)
      /\ \A c \in Columns : UpTrigger(c) \in triggers => rows'[k].new[c] = Up(c, row.old[c])
  BY <1>1, FunctionFills
<1>3. \A c : AddTask(c)' = AddTask(c)
  BY SetupKept
<1>4. ASSUME NEW c \in Columns, UpTrigger(c) \in triggers PROVE Filled(k, c)'
  <2>1. rows'[k].new[c] = [w |-> rows'[k].old[c], ups |-> AddTask(c)]
    BY <1>2, <1>4 DEF Up
  <2>2. Up(c, rows[k].old[c])' = [w |-> rows'[k].old[c], ups |-> AddTask(c)]
    BY <1>3 DEF Up
  <2> QED BY <1>4, <2>1, <2>2 DEF Filled
<1>5. missed' = (missed \ ({k} \X (cols \cap Ups("old"))))
                  \cup ({k} \X (IF Ups("old") = {} THEN {} ELSE Columns \ Ups("old")))
  BY <1>1 DEF MissedBy
<1>6. ASSUME \A c \in Columns : UpTrigger(c) \notin triggers
      PROVE  missed' = missed /\ rows'[k].flag = row.flag
  <2>1. Ups("old") = {}
    BY <1>2, <1>6
  <2>2. missed' = missed
    BY <1>5, <2>1
  <2>3. row.flag \in BOOLEAN
    BY DEF TableRows
  <2> QED BY <1>2, <1>6, <2>2, <2>3
<1>7. ASSUME NEW c \in Columns, NEW d \in Columns, UpTrigger(c) \in triggers
      PROVE  /\ rows'[k].flag = FALSE
             /\ UpTrigger(d) \notin triggers => <<k, d>> \in missed'
  <2>1. c \in Ups("old") /\ (UpTrigger(d) \notin triggers => d \in Columns \ Ups("old"))
    BY <1>2, <1>7
  <2> QED BY <1>2, <1>5, <1>7, <2>1
<1> QED BY <1>2, <1>4, <1>6, <1>7

(***************************************************************************)
(* Which columns of which rows a write leaves out of the history.          *)
(***************************************************************************)
LEMMA MissedKept ==
  ASSUME NEW k, NEW cols, NEW via, missed' = MissedBy(k, cols, via), NEW j, NEW d,
         j # k \/ d \notin cols, <<j, d>> \in missed
  PROVE  <<j, d>> \in missed'
BY DEF MissedBy

(***************************************************************************)
(* An application updates a row.                                           *)
(***************************************************************************)
LEMMA UpdateKeepsInv ==
  ASSUME BackfillInv, AppUpdate
  PROVE  BackfillInv'
<1>0. Types /\ TriggersOK /\ FillOK /\ DoneOK
  BY DEF BackfillInv
<1>1. PICK k \in DOMAIN rows, c \in Columns, via \in Writers :
        /\ via = "new" => Altered(c)
        /\ rows' = [rows EXCEPT ![k] = WriteRow(rows[k], c, via)]
        /\ truth' = [truth EXCEPT ![k] = Written(k, c, via)]
        /\ picked' = IF pc = "update" THEN picked \ {k} ELSE picked
        /\ overtaken' = (overtaken \/ (pc = "update" /\ k \in picked))
        /\ missed' = MissedBy(k, {c}, via)
  BY DEF AppUpdate
<1>2. /\ UNCHANGED <<marker, triggers, pc, todo, cursor, setup>> /\ writes' = writes + 1
      /\ via \in {"old", "new"} /\ (pc # "done" => via = "old")
  BY DEF AppUpdate, Writers
<1>3. /\ Columns' = Columns /\ JobTriggers' = JobTriggers /\ TableRows' = TableRows
      /\ \A d : AddTask(d)' = AddTask(d)
      /\ \A d : AllUps(d)' = AllUps(d)
      /\ \A d : Altered(d)' = Altered(d)
      /\ HasIdentity' = HasIdentity
  BY <1>2, SetupKept
<1> DEFINE row == IF via = "old" THEN [rows[k] EXCEPT !.old[c] = writes + 1]
                  ELSE [rows[k] EXCEPT !.new[c] = [w |-> writes + 1, ups |-> AllUps(c)]]
<1>4. row \in TableRows /\ WriteRow(rows[k], c, via) = Function(row, via)
  <2>1. rows[k] \in TableRows /\ writes + 1 \in Int
    BY <1>0 DEF Types
  <2>2. [w |-> writes + 1, ups |-> AllUps(c)] \in Values
    BY <2>1 DEF Values
  <2>3. row \in TableRows
    BY <2>1, <2>2 DEF TableRows
  <2>4. WriteRow(rows[k], c, via) = Function(row, via)
    BY DEF WriteRow
  <2> QED BY <2>3, <2>4
<1>5. /\ DOMAIN rows' = DOMAIN rows /\ rows'[k] = Function(row, via)
      /\ \A j \in DOMAIN rows \ {k} : rows'[j] = rows[j] /\ truth'[j] = truth[j]
      /\ truth' \in [DOMAIN rows -> [Columns -> Int]] /\ truth'[k][c] = writes + 1
      /\ \A d \in Columns \ {c} :
           truth'[k][d] = IF via = "old" /\ ~Altered(d) THEN rows[k].old[d] ELSE truth[k][d]
  <2>1. Written(k, c, via) \in [Columns -> Int]
    BY <1>0 DEF Types, TableRows, Written
  <2> QED BY <1>0, <1>1, <1>4, <2>1 DEF Types, Written
<1>6. Types'
  <2>1. rows' \in [DOMAIN rows -> TableRows]
    BY <1>0, <1>1, <1>4, FunctionType DEF Types
  <2> QED BY <1>0, <1>2, <1>3, <1>5, <2>1 DEF Types
<1>7. TriggersOK'
  BY <1>0, <1>1, <1>2, <1>3 DEF TriggersOK
<1>8. via = "old" =>
        /\ rows'[k].old[c] = writes + 1
        /\ \A d \in Columns \ {c} : rows'[k].old[d] = rows[k].old[d]
        /\ \A d \in Columns : UpTrigger(d) \in triggers => Filled(k, d)'
        /\ (\A d \in Columns : UpTrigger(d) \notin triggers) =>
             missed' = missed /\ rows'[k].flag = rows[k].flag
        /\ \A b, d \in Columns : UpTrigger(b) \in triggers =>
             /\ rows'[k].flag = FALSE
             /\ UpTrigger(d) \notin triggers => <<k, d>> \in missed'
  <2> SUFFICES ASSUME via = "old" PROVE <1>8!2
    OBVIOUS
  <2>1. /\ row.old[c] = writes + 1 /\ row.flag = rows[k].flag
        /\ \A d \in Columns \ {c} : row.old[d] = rows[k].old[d]
    BY <1>0 DEF Types, TableRows
  <2> HIDE DEF row
  <2> QED BY <1>1, <1>2, <1>4, <1>5, <2>1, OldWriteFills
<1>9. FillOK'
  <2> SUFFICES ASSUME pc \in {"triggers", "backfill", "update"} PROVE FillOK'
    BY <1>2 DEF FillOK
  <2>1. via = "old"
    BY <1>2
  <2>2. ASSUME NEW j \in DOMAIN rows, NEW d \in Columns
        PROVE  /\ rows'[j].old[d] = truth'[j][d]
               /\ Filled(j, d)' \/ ~marker' \/ Ahead(j)' \/ Lost(j, d)'
    <3>1. rows[j].old[d] = truth[j][d] /\ (Filled(j, d) \/ ~marker \/ Ahead(j) \/ Lost(j, d))
      BY <1>0 DEF FillOK
    <3>2. CASE j = k
      <4>1. rows'[k].old[d] = truth'[k][d]
        BY <1>5, <1>8, <2>1, <3>1, <3>2
      <4>2. CASE UpTrigger(d) \in triggers
        BY <1>8, <2>1, <3>2, <4>1, <4>2
      <4>3. CASE UpTrigger(d) \notin triggers /\ \E b \in Columns : UpTrigger(b) \in triggers
        BY <1>8, <2>1, <3>2, <4>1, <4>3 DEF Lost
      <4>4. CASE \A b \in Columns : UpTrigger(b) \notin triggers
        <5>1. missed' = missed /\ rows'[k].flag = rows[k].flag /\ ~Filled(k, d)
          BY <1>8, <2>1, <4>4 DEF Filled
        <5> QED BY <1>2, <1>3, <3>1, <3>2, <4>1, <5>1 DEF Ahead, After, Lost
      <4> QED BY <4>2, <4>3, <4>4
    <3>3. CASE j # k
      <4>1. <<j, d>> \in missed => <<j, d>> \in missed'
        BY <1>1, <3>3, MissedKept
      <4> QED BY <1>2, <1>3, <1>5, <3>1, <3>3, <4>1 DEF Filled, Ahead, After, Up, Lost
    <3> QED BY <3>2, <3>3
  <2> QED BY <1>3, <1>5, <2>2 DEF FillOK
<1>10. CASE pc = "update"
  <2>1. Flagged' \subseteq Flagged
    <3>1. rows'[k].flag => rows[k].flag
      BY <1>2, <1>8, <1>10
    <3> QED BY <1>5, <3>1 DEF Flagged
  <2>2. DoneOK'
    BY <1>0, <1>1, <1>2, <1>3, <1>10, <2>1 DEF DoneOK
  <2> QED BY <1>6, <1>7, <1>9, <2>2 DEF BackfillInv
<1>11. CASE pc = "done" /\ setup.final
  <2>1. ASSUME NEW j \in DOMAIN rows, NEW d \in Columns, Served(d), <<j, d>> \notin missed'
        PROVE  Synced(j, d)'
    <3>1. j # k \/ d # c => Synced(j, d)
      BY <1>0, <1>1, <1>11, <2>1, MissedKept DEF DoneOK
    <3>2. CASE j # k
      BY <1>3, <1>5, <3>1, <3>2 DEF Synced
    <3>3. CASE j = k /\ via = "old"
      <4>1. Filled(k, d)'
        BY <1>8, <2>1, <3>3, ColumnTriggers
      <4>2. rows'[k].old[d] = truth'[k][d]
        BY <1>5, <1>8, <3>1, <3>3 DEF Synced
      <4> QED BY <1>3, <3>3, <4>1, <4>2 DEF Filled, Up, Synced
    <3>4. CASE j = k /\ via = "new"
      <4>1. /\ row.new[c] = [w |-> writes + 1, ups |-> AllUps(c)]
            /\ d # c => row.new[d] = rows[k].new[d]
        BY <1>0, <3>4 DEF Types, TableRows
      <4> HIDE DEF row
      <4>2. rows'[k].new = row.new /\ (Altered(d) => rows'[k].old[d] = row.new[d].w)
        BY <1>0, <1>4, <1>5, <1>11, <2>1, <3>4, FunctionWritesBack
      <4>3. CASE d = c
        BY <1>3, <1>5, <3>4, <4>1, <4>2, <4>3 DEF Synced
      <4>4. CASE d # c
        BY <1>3, <1>5, <3>1, <3>4, <4>1, <4>2, <4>4 DEF Synced
      <4> QED BY <4>3, <4>4
    <3> QED BY <1>2, <3>2, <3>3, <3>4
  <2>2. DoneOK'
    BY <1>2, <1>3, <1>5, <1>11, <2>1 DEF DoneOK, Served
  <2> QED BY <1>6, <1>7, <1>9, <2>2 DEF BackfillInv
<1>12. CASE pc # "update" /\ ~(pc = "done" /\ setup.final)
  <2>1. DoneOK'
    BY <1>2, <1>12 DEF DoneOK
  <2> QED BY <1>6, <1>7, <1>9, <2>1 DEF BackfillInv
<1> QED BY <1>10, <1>11, <1>12

(***************************************************************************)
(* An application inserts a row.                                           *)
(***************************************************************************)
LEMMA InsertKeepsInv ==
  ASSUME BackfillInv, AppInsert
  PROVE  BackfillInv'
<1>0. Types /\ TriggersOK /\ FillOK /\ DoneOK
  BY DEF BackfillInv
<1>1. PICK k \in Keys \ DOMAIN rows, via \in Writers :
        /\ rows' = [j \in DOMAIN rows \cup {k} |->
                      IF j = k THEN Function(NewRow(via), via) ELSE rows[j]]
        /\ truth' = [j \in DOMAIN rows \cup {k} |->
                       IF j = k THEN [c \in Columns |-> writes + 1] ELSE truth[j]]
        /\ missed' = MissedBy(k, Columns, via)
  BY DEF AppInsert
<1>2. /\ UNCHANGED <<marker, triggers, pc, todo, cursor, picked, overtaken, setup>>
      /\ writes' = writes + 1
      /\ via \in {"old", "new"} /\ (pc # "done" => via = "old")
  BY DEF AppInsert, Writers
<1>3. /\ Columns' = Columns /\ JobTriggers' = JobTriggers /\ TableRows' = TableRows
      /\ \A d : AddTask(d)' = AddTask(d)
      /\ \A d : AllUps(d)' = AllUps(d)
      /\ \A d : Altered(d)' = Altered(d)
      /\ HasIdentity' = HasIdentity
  BY <1>2, SetupKept
<1>4. /\ NewRow(via) \in TableRows /\ NewRow(via).flag = marker
      /\ via = "old" => \A c \in Columns : NewRow(via).old[c] = writes + 1
      /\ via # "old" => \A c \in Columns :
           NewRow(via).new[c] = [w |-> writes + 1, ups |-> AllUps(c)]
  <2>1. writes + 1 \in Int /\ marker \in BOOLEAN
    BY <1>0 DEF Types
  <2>2. Null \in Values /\ \A c \in Columns : [w |-> writes + 1, ups |-> AllUps(c)] \in Values
    BY <2>1 DEF Null, Values
  <2>3. CASE via = "old"
    <3>1. NewRow(via) = [old |-> [c \in Columns |-> writes + 1],
                         new |-> [c \in Columns |-> Null], flag |-> marker]
      BY <2>3 DEF NewRow, InitialRow
    <3> QED BY <2>1, <2>2, <2>3, <3>1 DEF TableRows
  <2>4. CASE via # "old"
    <3>1. NewRow(via) = [old |-> [c \in Columns |-> 0],
                         new |-> [c \in Columns |-> [w |-> writes + 1, ups |-> AllUps(c)]],
                         flag |-> marker]
      BY <2>4 DEF NewRow, InitialRow
    <3> QED BY <2>1, <2>2, <2>4, <3>1 DEF TableRows
  <2> QED BY <2>3, <2>4
<1>5. /\ DOMAIN rows' = DOMAIN rows \cup {k} /\ rows'[k] = Function(NewRow(via), via)
      /\ \A j \in DOMAIN rows : rows'[j] = rows[j] /\ truth'[j] = truth[j] /\ j # k
      /\ \A c \in Columns : truth'[k][c] = writes + 1
      /\ truth' \in [DOMAIN rows' -> [Columns -> Int]]
  BY <1>0, <1>1 DEF Types
<1>6. Types'
  <2>1. rows' \in [DOMAIN rows' -> TableRows]
    BY <1>0, <1>1, <1>4, FunctionType DEF Types
  <2> QED BY <1>0, <1>2, <1>3, <1>5, <2>1 DEF Types
<1>7. TriggersOK'
  BY <1>0, <1>2, <1>3 DEF TriggersOK
<1>8. via = "old" =>
        /\ \A c \in Columns : rows'[k].old[c] = writes + 1
        /\ \A d \in Columns : UpTrigger(d) \in triggers => Filled(k, d)'
        /\ (\A d \in Columns : UpTrigger(d) \notin triggers) => rows'[k].flag = marker
        /\ \A b, d \in Columns : UpTrigger(b) \in triggers =>
             /\ rows'[k].flag = FALSE
             /\ UpTrigger(d) \notin triggers => <<k, d>> \in missed'
  <2> SUFFICES ASSUME via = "old" PROVE <1>8!2
    OBVIOUS
  <2>1. /\ NewRow("old") \in TableRows /\ k \in DOMAIN rows'
        /\ rows'[k] = Function(NewRow("old"), "old") /\ missed' = MissedBy(k, Columns, "old")
    BY <1>1, <1>4, <1>5
  <2>2. /\ rows'[k].old = NewRow("old").old
        /\ \A d \in Columns : UpTrigger(d) \in triggers => Filled(k, d)'
        /\ (\A d \in Columns : UpTrigger(d) \notin triggers) =>
             missed' = missed /\ rows'[k].flag = NewRow("old").flag
        /\ \A b, d \in Columns : UpTrigger(b) \in triggers =>
             /\ rows'[k].flag = FALSE
             /\ UpTrigger(d) \notin triggers => <<k, d>> \in missed'
    BY <1>2, <2>1, OldWriteFills
  <2> QED BY <1>4, <2>2
<1>9. \A j \in DOMAIN rows, d \in Columns : <<j, d>> \in missed => <<j, d>> \in missed'
  BY <1>1, <1>5, MissedKept
<1>10. FillOK'
  <2> SUFFICES ASSUME pc \in {"triggers", "backfill", "update"} PROVE FillOK'
    BY <1>2 DEF FillOK
  <2>1. via = "old"
    BY <1>2
  <2>2. ASSUME NEW j \in DOMAIN rows, NEW d \in Columns
        PROVE  /\ rows'[j].old[d] = truth'[j][d]
               /\ Filled(j, d)' \/ ~marker' \/ Ahead(j)' \/ Lost(j, d)'
    <3>1. rows[j].old[d] = truth[j][d] /\ (Filled(j, d) \/ ~marker \/ Ahead(j) \/ Lost(j, d))
      BY <1>0 DEF FillOK
    <3> QED BY <1>2, <1>3, <1>5, <1>9, <3>1 DEF Filled, Ahead, After, Up, Lost
  <2>3. ASSUME NEW d \in Columns
        PROVE  /\ rows'[k].old[d] = truth'[k][d]
               /\ Filled(k, d)' \/ ~marker' \/ Ahead(k)' \/ Lost(k, d)'
    <3>1. rows'[k].old[d] = truth'[k][d]
      BY <1>5, <1>8, <2>1
    <3>2. CASE UpTrigger(d) \in triggers
      BY <1>8, <2>1, <3>1, <3>2
    <3>3. CASE UpTrigger(d) \notin triggers /\ \E b \in Columns : UpTrigger(b) \in triggers
      BY <1>8, <2>1, <3>1, <3>3 DEF Lost
    <3>4. CASE (\A b \in Columns : UpTrigger(b) \notin triggers) /\ pc = "triggers"
      <4>1. After(k)'
        BY <1>0, <1>1, <1>2, <3>4, BackfillAssumption DEF TriggersOK, After, NoValue
      <4> QED BY <1>2, <1>8, <2>1, <3>1, <3>4, <4>1 DEF Ahead
    <3>5. CASE UpTrigger(d) \notin triggers /\ pc # "triggers"
      BY <1>2, <3>1, <3>5 DEF Lost
    <3> QED BY <3>2, <3>3, <3>4, <3>5
  <2> QED BY <1>3, <1>5, <2>2, <2>3 DEF FillOK
<1>11. CASE pc = "update"
  <2>1. Flagged' \subseteq Flagged \/ \A c \in Columns : UpTrigger(c) \notin triggers
    <3>1. ASSUME NEW c \in Columns, UpTrigger(c) \in triggers PROVE Flagged' \subseteq Flagged
      <4>1. rows'[k].flag = FALSE
        BY <1>2, <1>8, <1>11, <3>1
      <4> QED BY <1>5, <4>1 DEF Flagged
    <3> QED BY <3>1
  <2>2. DoneOK'
    BY <1>0, <1>2, <1>3, <1>11, <2>1 DEF DoneOK
  <2> QED BY <1>6, <1>7, <1>10, <2>2 DEF BackfillInv
<1>12. CASE pc = "done" /\ setup.final
  <2>1. ASSUME NEW c \in Columns, Served(c) PROVE Synced(k, c)'
    <3>1. CASE via = "old"
      <4>1. Filled(k, c)' /\ rows'[k].old[c] = writes + 1 /\ truth'[k][c] = writes + 1
        BY <1>5, <1>8, <2>1, <3>1, ColumnTriggers
      <4> QED BY <1>3, <4>1 DEF Filled, Up, Synced
    <3>2. CASE via = "new"
      <4>1. NewRow(via).new[c] = [w |-> writes + 1, ups |-> AllUps(c)]
        BY <1>4, <3>2
      <4>2. /\ rows'[k].new = NewRow(via).new
            /\ Altered(c) => rows'[k].old[c] = NewRow(via).new[c].w
        BY <1>0, <1>4, <1>5, <1>12, <2>1, <3>2, FunctionWritesBack
      <4> QED BY <1>3, <1>5, <4>1, <4>2 DEF Synced
    <3> QED BY <1>2, <3>1, <3>2
  <2>2. ASSUME NEW j \in DOMAIN rows, NEW d \in Columns, Served(d), <<j, d>> \notin missed'
        PROVE  Synced(j, d)'
    <3>1. Synced(j, d)
      BY <1>0, <1>9, <1>12, <2>2 DEF DoneOK
    <3> QED BY <1>3, <1>5, <2>2, <3>1 DEF Synced
  <2>3. DoneOK'
    BY <1>2, <1>3, <1>5, <1>12, <2>1, <2>2 DEF DoneOK, Served
  <2> QED BY <1>6, <1>7, <1>10, <2>3 DEF BackfillInv
<1>13. CASE pc # "update" /\ ~(pc = "done" /\ setup.final)
  <2>1. DoneOK'
    BY <1>2, <1>13 DEF DoneOK
  <2> QED BY <1>6, <1>7, <1>10, <2>1 DEF BackfillInv
<1> QED BY <1>11, <1>12, <1>13

(***************************************************************************)
(* A lock timeout, a failure, or the end of the context.                   *)
(***************************************************************************)
LEMMA InterruptionKeepsInv ==
  ASSUME BackfillInv, LockTimeout \/ BackfillFails \/ Cancelled
  PROVE  BackfillInv'
<1>0. Types /\ TriggersOK /\ FillOK /\ DoneOK
  BY DEF BackfillInv
<1>1. UNCHANGED <<rows, marker, triggers, todo, picked, writes, truth, overtaken, missed, setup>>
  BY DEF LockTimeout, BackfillFails, Cancelled, history
<1>2. /\ Columns' = Columns /\ JobTriggers' = JobTriggers /\ TableRows' = TableRows
      /\ \A c : AddTask(c)' = AddTask(c)
      /\ HasIdentity' = HasIdentity
  BY <1>1, SetupKept
<1>3. CASE BackfillFails \/ Cancelled
  <2>1. UNCHANGED cursor /\ pc' \in {"failed", "cancelled"}
    BY <1>3 DEF BackfillFails, Cancelled
  <2> QED BY <1>0, <1>1, <1>2, <2>1 DEF BackfillInv, Types, TriggersOK, FillOK, DoneOK
<1>4. CASE LockTimeout
  <2>1. /\ UNCHANGED pc /\ pc \in {"triggers", "backfill"}
        /\ cursor' \in {cursor, EmptyValue} /\ (cursor' # cursor => cursor = NoValue)
        /\ pc = "triggers" => cursor' = cursor
    BY <1>4 DEF LockTimeout, LastValueAfterAttempt
  <2>2. Types'
    BY <1>0, <1>1, <1>2, <2>1 DEF Types
  <2>3. TriggersOK'
    BY <1>0, <1>1, <1>2, <2>1 DEF TriggersOK
  <2>4. \A k \in DOMAIN rows : Ahead(k) => Ahead(k)'
    BY <1>0, <1>1, <1>2, <2>1, BackfillAssumption DEF Types, Ahead, After, NoValue, EmptyValue
  <2>5. FillOK'
    <3>1. ASSUME NEW k \in DOMAIN rows, NEW c \in Columns
          PROVE  /\ rows'[k].old[c] = truth'[k][c]
                 /\ Filled(k, c)' \/ ~marker' \/ Ahead(k)' \/ Lost(k, c)'
      <4>1. rows[k].old[c] = truth[k][c] /\ (Filled(k, c) \/ ~marker \/ Ahead(k) \/ Lost(k, c))
        BY <1>0, <2>1 DEF FillOK
      <4> QED BY <1>1, <1>2, <2>1, <2>4, <4>1 DEF Filled, Up, Lost
    <3> QED BY <1>1, <1>2, <3>1 DEF FillOK
  <2>6. DoneOK'
    BY <2>1 DEF DoneOK
  <2> QED BY <2>2, <2>3, <2>5, <2>6 DEF BackfillInv
<1> QED BY <1>3, <1>4


----------------------------------------------------------------------------
(* The theorems.                                                           *)

(***************************************************************************)
(* No trigger exists before the first statement, and nothing is flagged.   *)
(***************************************************************************)
LEMMA InitHasInv == Init => BackfillInv
<1> SUFFICES ASSUME Init PROVE BackfillInv
  OBVIOUS
<1>1. PICK present \in SUBSET Keys :
        /\ rows = [k \in present |-> InitialRow]
        /\ truth = [k \in present |-> [c \in Columns |-> 0]]
  BY DEF Init
<1>2. /\ setup \in [ops : Jobs, identity : Identities, final : Finals]
      /\ marker = FALSE /\ triggers = {} /\ pc = "triggers" /\ todo = JobTriggers
      /\ cursor = NoValue /\ picked = {} /\ writes = 0 /\ missed = {}
  BY DEF Init
<1>3. InitialRow \in TableRows /\ InitialRow.old = [c \in Columns |-> 0]
  <2>1. Null \in Values
    BY DEF Null, Values
  <2> QED BY <2>1 DEF InitialRow, TableRows
<1>4. Types
  <2>1. DOMAIN rows \subseteq Keys /\ rows \in [DOMAIN rows -> TableRows]
    BY <1>1, <1>3
  <2>2. truth \in [DOMAIN rows -> [Columns -> Int]]
    BY <1>1
  <2> QED BY <1>2, <2>1, <2>2 DEF Types
<1>5. TriggersOK
  BY <1>2 DEF TriggersOK
<1>6. FillOK
  BY <1>1, <1>2, <1>3 DEF FillOK
<1>7. DoneOK
  BY <1>2 DEF DoneOK
<1> QED BY <1>4, <1>5, <1>6, <1>7 DEF BackfillInv

(***************************************************************************)
(* Every step keeps the invariant.                                         *)
(***************************************************************************)
LEMMA NextKeepsInv ==
  ASSUME BackfillInv, [Next]_vars
  PROVE  BackfillInv'
<1>1. CASE AddMarker \/ CreateTrigger \/ CreateTriggersReturns
  BY <1>1, CreateTriggersKeepsInv
<1>2. CASE UpdateBatchByKey \/ NoMoreBatches \/ SelectByMarker \/ UpdateByMarker
  BY <1>2, BatchesKeepInv
<1>3. CASE LockTimeout \/ BackfillFails \/ Cancelled
  BY <1>3, InterruptionKeepsInv
<1>4. CASE AppUpdate
  BY <1>4, UpdateKeepsInv
<1>5. CASE AppInsert
  BY <1>5, InsertKeepsInv
<1>6. CASE UNCHANGED vars
  <2>1. UNCHANGED <<rows, marker, triggers, pc, todo, cursor, picked, writes, truth,
                    overtaken, missed, setup>>
    BY <1>6 DEF vars, history
  <2>2. /\ Columns' = Columns /\ JobTriggers' = JobTriggers /\ TableRows' = TableRows
        /\ \A c : AddTask(c)' = AddTask(c)
        /\ \A c : AllUps(c)' = AllUps(c)
        /\ \A c : Altered(c)' = Altered(c)
        /\ HasIdentity' = HasIdentity
    BY <2>1, SetupKept
  <2>3. Types' /\ TriggersOK'
    BY <2>1, <2>2 DEF BackfillInv, Types, TriggersOK
  <2>4. FillOK'
    BY <2>1, <2>2 DEF BackfillInv, FillOK, Filled, Ahead, After, Up, Lost
  <2>5. DoneOK'
    BY <2>1, <2>2 DEF BackfillInv, DoneOK, Flagged, Synced, Served
  <2> QED BY <2>3, <2>4, <2>5 DEF BackfillInv
<1> QED BY <1>1, <1>2, <1>3, <1>4, <1>5, <1>6 DEF Next, Pgroll

(***************************************************************************)
(* BackfillInv is inductive.                                               *)
(***************************************************************************)
THEOREM BackfillInvariant == Spec => []BackfillInv
<1>1. BackfillInv /\ [Next]_vars => BackfillInv'
  BY NextKeepsInv
<1> QED BY <1>1, InitHasInv, PTL DEF Spec

(***************************************************************************)
(* While the batches run, every column of a row that has its trigger and   *)
(* is not filled is still flagged and ahead of them, or was last written   *)
(* between two triggers: no write, also none that overlaps a batch, and no *)
(* lock timeout makes a batch pass over a row (batch.go, backfill.go), for *)
(* tables of any size, any operations and any number of writes, and also   *)
(* after a CreateTriggers whose error was dropped.                         *)
(***************************************************************************)
THEOREM NoRowIsLeftBehind == Spec => []NoRowLeftBehind
<1>1. BackfillInv => NoRowLeftBehind
  <2> SUFFICES ASSUME BackfillInv, pc \in {"backfill", "update"},
                      NEW k \in DOMAIN rows, NEW c \in Columns
               PROVE  /\ rows[k].old[c] = truth[k][c]
                      /\ UpTrigger(c) \in triggers /\ <<k, c>> \notin missed =>
                           \/ rows[k].new[c] = Up(c, rows[k].old[c])
                           \/ rows[k].flag /\ (HasIdentity => After(k))
    BY DEF NoRowLeftBehind
  <2>1. /\ rows[k].old[c] = truth[k][c]
        /\ Filled(k, c) \/ ~marker \/ Ahead(k) \/ Lost(k, c)
    BY DEF BackfillInv, FillOK
  <2>2. UpTrigger(c) \in triggers => marker
    BY DEF BackfillInv, TriggersOK
  <2> QED BY <2>1, <2>2 DEF Filled, Ahead, Lost
<1> QED BY <1>1, BackfillInvariant, PTL

(***************************************************************************)
(* A migration that alters or adds one column misses no row on a table     *)
(* with an identity column: what the history excuses needs two columns, or *)
(* a statement of the keyless batcher (trigger.go, backfill.go).           *)
(***************************************************************************)
THEOREM OneColumnMissesNothing ==
  ASSUME \A j \in Jobs : \A i, k \in DOMAIN j : j[i].col = j[k].col,
         "none" \notin Identities
  PROVE  Spec => [](missed = {})
<1> DEFINE I == BackfillInv /\ missed = {} /\ pc # "update"
<1>1. Init => I
  BY InitHasInv DEF Init
<1>2. I /\ [Next]_vars => I'
  <2> SUFFICES ASSUME BackfillInv, missed = {}, pc # "update", [Next]_vars
               PROVE  missed' = {} /\ pc' # "update"
    BY NextKeepsInv
  <2>1. HasIdentity /\ \A c, d \in Columns : c = d
    <3>1. /\ setup.identity \in Identities /\ setup.ops \in Jobs
          /\ \A i, k \in DOMAIN setup.ops : setup.ops[i].col = setup.ops[k].col
      BY DEF BackfillInv, Types
    <3> QED BY <3>1 DEF HasIdentity, Columns
  <2>2. ASSUME NEW k, NEW cols, NEW via, missed' = MissedBy(k, cols, via) PROVE missed' = {}
    <3>1. Ups(via) \subseteq Columns
      BY DEF Ups
    <3>2. Ups(via) = {} \/ Columns \ Ups(via) = {}
      BY <2>1, <3>1
    <3> QED BY <2>2, <3>2 DEF MissedBy
  <2>3. CASE AppUpdate \/ AppInsert
    BY <2>2, <2>3 DEF AppUpdate, AppInsert
  <2>4. CASE ~(AppUpdate \/ AppInsert)
    BY <2>1, <2>4 DEF Next, Pgroll, AddMarker, CreateTrigger, CreateTriggersReturns,
          UpdateBatchByKey, NoMoreBatches, SelectByMarker, UpdateByMarker, BackfillFails,
          Cancelled, LockTimeout, vars, history
  <2> QED BY <2>3, <2>4
<1> QED BY <1>1, <1>2, PTL DEF Spec

(***************************************************************************)
(* After the backfill both versions read what either last wrote, also when *)
(* the writes overlapped a batch, in every column whose triggers exist,    *)
(* except what the history records, when the migration's own schema is the *)
(* one projected (function.go).                                            *)
(***************************************************************************)
THEOREM WritesReachBothVersions ==
  ASSUME FALSE \notin Finals, \A ops \in Jobs : TasksInOrder(ops)
  PROVE  Spec => []WritesPropagate
<1>1. BackfillInv => WritesPropagate
  <2> SUFFICES ASSUME BackfillInv, pc = "done", NEW k \in DOMAIN rows, NEW c \in Columns,
                      Served(c), <<k, c>> \notin missed
               PROVE  InSync(k, c)
    BY DEF WritesPropagate
  <2>1. setup.ops \in Jobs /\ setup.final
    BY BackfillAssumption DEF BackfillInv, Types
  <2>2. AddTask(c) = AllUps(c)
    BY <2>1 DEF TasksInOrder, AddTask, AllUps, Columns
  <2>3. Synced(k, c)
    BY <2>1 DEF BackfillInv, DoneOK
  <2>4. rows[k].new[c] \in Values
    BY DEF BackfillInv, Types, TableRows
  <2>5. rows[k].new[c] = [w |-> rows[k].new[c].w, ups |-> rows[k].new[c].ups]
    BY <2>4 DEF Values
  <2> QED BY <2>2, <2>3, <2>5 DEF Synced, InSync
<1> QED BY <1>1, BackfillInvariant, PTL
=============================================================================
