---------------------------- MODULE SealedRevert ----------------------------
(***************************************************************************)
(* A directory of migrations deployed, contracted and reverted again: the  *)
(* commands migrate, complete, rollback and revert on one database, with   *)
(* the undoing of contracted history by inverse migrations, its pruning    *)
(* and its tombstones (pkg/roll/revert_sealed.go, pkg/state/tombstones.go, *)
(* cmd/revert.go, cmd/migrate.go).                                         *)
(*                                                                         *)
(* A migration is reduced to the effect <<name, content>> it has on the    *)
(* database, and to whether its Complete has run.  Module Train has the    *)
(* operations, and module Deployment the steps of a Start and of a window  *)
(* revert, which are two steps and one step per migration here.            *)
(***************************************************************************)
EXTENDS Planning

CONSTANTS
  Cases,        \* what is tried: [dir, target, rows, walked, commands, edits]; of
                \* the cases that are not walked only the plans are looked at,
                \* and commands and edits bound the others
  NoSchema,     \* the pin of applications that are stopped
  Contents,     \* contents of a file
  MaxCrashes

VARIABLES
  case,     \* the case; it never changes
  files,    \* the directory: [files, content]
  rows,     \* the history
  effects,  \* what the database holds, oldest first
  pending,  \* the migrations whose Start has run on it and whose Complete has not
  schemas,  \* the version schemas that exist
  tombs,    \* the tombstones: a set of [name, content]
  fleet,    \* the version schema applications are pinned to, or NoSchema
  proc,     \* the command that runs
  promise,  \* the view of the revert that was asked for last
  deployed, \* the arguments of a migrate that returned last, or <<>>
  undone,   \* effects undone by inversion whose file was not edited since
  excused,  \* what was done that the code does not provide for: "past seal",
            \* "pinned"
  commands, edits, crashes

database == <<effects, pending>>
history == <<promise, deployed, undone, excused>>
counters == <<commands, edits, crashes>>
vars == <<case, files, rows, database, schemas, tombs, fleet, proc, history, counters>>

NoPromise == NoView("none")

Dir == [files |-> files.files, deps |-> case.dir.deps, targets |-> case.dir.targets]
Target == case.target

Idle == [at |-> "idle"]
Leaf == Last(rows)
IsInverse(r) == r.name < 0
HasActive == IsActive(rows)

Effect(r) == <<r.name, r.content>>
Undoing(r) == <<-r.name, r.content>>
Without(es, n) == SelectSeq(es, LAMBDA e : e[1] # n)

\* The effects the history stands for, and the Completes it knows to be due.
Replay(rs) ==
  FoldLeft(LAMBDA es, r : IF IsBaseline(r) \/ r.state = "starting" THEN es
                          ELSE IF IsInverse(r) THEN Without(es, -r.name)
                          ELSE Append(es, Effect(r)),
           <<>>, rs)
Outstanding(rs) == {r.name : r \in {s \in Range(rs) : s.state \in {"active", "deferred"}}}

----------------------------------------------------------------------------
(* The pieces of the commands.                                             *)

DeferredCompletes == SelectSeq(rows, LAMBDA r : r.state = "deferred")
Projected == Leaf.vs \in schemas

\* A Complete in the middle of a train: deferred, or inline.
CompletedIntermediate ==
  LET later == Leaf.name \in Deferred
  IN  /\ pending' = IF later THEN pending ELSE pending \ {Leaf.name}
      /\ rows' = [rows EXCEPT ![Len(rows)] = [@ EXCEPT !.state = IF later THEN "deferred" ELSE "done",
                                                        !.clean = pending' = {}]]

\* The leaf inverse is not sealed and one beneath it is.
PastSeal == IsInverse(Leaf) /\ \E r \in Range(rows) : IsInverse(r) /\ r.sealed

\* Undoing the leaf in its expand phase, or completed inline.
WithoutLeaf ==
  /\ rows' = Front(rows)
  /\ effects' = IF Leaf.state = "starting" THEN effects
                ELSE IF IsInverse(Leaf) THEN Append(effects, Undoing(Leaf))
                ELSE Without(effects, Leaf.name)
  /\ pending' = pending \ {Leaf.name}
  /\ schemas' = schemas \ {Leaf.vs}
  /\ excused' = IF PastSeal THEN excused \cup {"past seal"} ELSE excused

\* What finishSealedRevert finds above `to`: inverses, newest first.
InversesAbove(to) ==
  LET above == IF to \in Names(rows) THEN SubSeq(rows, Index(rows, to) + 1, Len(rows)) ELSE rows
  IN  Reverse(NamesOf(SelectSeq(above, IsInverse)))

\* The newest row that is neither an inverse nor undone by one.
DerivedBoundary ==
  LET reverted == {-r.name : r \in {s \in Range(rows) : IsInverse(s)}}
      kept == {i \in DOMAIN rows : ~IsInverse(rows[i]) /\ rows[i].name \notin reverted}
  IN  rows[Max(kept)].name

\* An interrupted sealed revert.
PendingSealedRevertResume ==
  LET open == UnsealedMigrations(rows)
  IN  IF open # {} THEN \A i \in open : IsInverse(rows[i]) ELSE rows # <<>> /\ IsInverse(Leaf)

\* The start of pruneSealedRevert.
Recording(inverses) ==
  [at |-> "record", inverses |-> inverses, todo |-> [i \in DOMAIN inverses |-> -inverses[i]]]

Draining(queue) == [i \in DOMAIN queue |-> <<"drain", queue[i].name>>]

\* What Complete does with an active leaf, and goes on with.
Completing(then) ==
  [at |-> "contract", then |-> then,
   todo |-> <<<<"drop">>>>
            \o (IF DeferredCompletes = <<>> THEN <<>> ELSE <<<<"seal">>>> \o Draining(DeferredCompletes))
            \o <<<<"own">>, <<"done">>, <<"seal">>>>]

\* What FinishContraction does when no migration is active.
Finishing(then) ==
  [at |-> "contract", then |-> then,
   todo |-> IF DeferredCompletes = <<>> THEN <<<<"seal">>>> \o (IF Projected THEN <<<<"drop">>>> ELSE <<>>)
            ELSE <<<<"seal">>, <<"drop">>>> \o Draining(DeferredCompletes) \o <<<<"seal">>>>]

----------------------------------------------------------------------------
(* Commands.                                                               *)

Command == proc.at = "idle" /\ case.walked /\ commands < case.commands /\ commands' = commands + 1

\* The batch of `migrate --to`; <<>> as bound means all of it.
Batch(to) ==
  LET all == ResolveMigrations(Dir, rows, Target)
  IN  IF to = <<>> THEN all.list ELSE BoundTrain(Dir, rows, all.list, to[1])

Tombstoned(batch) == \E n \in Range(batch) : [name |-> n, content |-> files.content[n]] \in tombs

CanMigrate(to) ==
  /\ ResolveMigrations(Dir, rows, Target).err = ""
  /\ Range(to) \subseteq LocalFiles(Dir, rows)
  /\ ~HasActive
  /\ Batch(to) # <<>> /\ ~Tombstoned(Batch(to))

Train(kind, batch, last) == [at |-> "start", kind |-> kind, batch |-> batch, todo |-> batch, last |-> last]

\* --complete is for databases to which nothing is pinned.
RunMigrate(to, complete) ==
  /\ CanMigrate(to)
  /\ complete => fleet = NoSchema
  /\ proc' = Train("forward", Batch(to), [complete |-> complete, vs |-> Last(Batch(to)), to |-> to])
  /\ deployed' = <<>>
  /\ promise' = NoPromise
  /\ UNCHANGED <<case, files, rows, database, schemas, tombs, fleet, undone, excused, edits, crashes>>

Migrate(to, complete) == Command /\ RunMigrate(to, complete)

\* `migrate --complete` on a deployment that awaits its Complete.
MigrateCompletes(to) ==
  /\ Command /\ HasActive
  /\ ResolveMigrations(Dir, rows, Target).err = ""
  /\ ClassifyCycle(rows, schemas, Batch(to)) = "awaiting"
  /\ fleet \in {Leaf.vs, NoSchema}
  /\ proc' = Completing(Idle)
  /\ deployed' = <<>>
  /\ UNCHANGED <<case, files, rows, database, schemas, tombs, fleet, promise, undone, excused, edits, crashes>>

\* A deferred queue with no schema of the leaf belongs to an unfinished batch,
\* unless its contraction has begun.
UnfinishedBatch == DeferredCompletes # <<>> /\ ~Projected /\ \A r \in Range(DeferredCompletes) : ~r.sealed

\* `complete`, of an active leaf or without one.  On an interrupted revert that
\* has not projected its schema it finishes what was applied of it.
RunComplete ==
  /\ rows # <<>> /\ Leaf.state # "starting"
  /\ UnsealedMigrations(rows) # {} \/ IsInverse(Leaf)
  /\ HasActive \/ ~UnfinishedBatch
  /\ proc' = IF HasActive THEN Completing([at |-> "finish"]) ELSE Finishing([at |-> "finish"])
  /\ promise' = IF Projected THEN promise ELSE NoPromise
  /\ deployed' = <<>>
  /\ UNCHANGED <<case, files, rows, database, schemas, tombs, fleet, undone, excused, edits, crashes>>

\* The operator completes what applications have moved to.
Complete == Command /\ RunComplete /\ fleet \in {Leaf.vs, NoSchema}

\* `rollback`: the active migration only.
RunRollback ==
  /\ HasActive /\ fleet # Leaf.vs
  /\ WithoutLeaf
  /\ deployed' = <<>>
  /\ UNCHANGED <<case, files, tombs, fleet, proc, promise, undone, edits, crashes>>

Rollback == Command /\ RunRollback

Walk(list, then) == [at |-> "walk", todo |-> list, then |-> then]
Sealing(to, expandOnly) == [at |-> "sealed", to |-> to, expandOnly |-> expandOnly]

\* `revert --steps`, or of the whole window.
RevertWindow(steps) ==
  /\ Command /\ ~PendingSealedRevertResume
  /\ LET plan == RevertSteps(rows, steps)
         left == SubSeq(rows, 1, Len(rows) - Len(plan.list))
     IN  /\ plan.err = "" /\ plan.list # <<>> /\ left # <<>>
         /\ promise' = View(rows, plan.list, <<>>, Last(left).name)
         /\ fleet \notin promise'.drops
         /\ proc' = Walk(plan.list, Idle)
  /\ deployed' = <<>>
  /\ UNCHANGED <<case, files, rows, database, schemas, tombs, fleet, undone, excused, edits, crashes>>

\* `revert --to`: the window leg, then the inversion leg.  Applications are off
\* the schemas of the window first, and on the restored one or stopped when the
\* inverses are contracted too, as the command warns.
RevertTo(to, expandOnly) ==
  /\ Command /\ ~PendingSealedRevertResume
  /\ LET view == PreviewRevertTo(rows, to)
         window == SubSeq(view.list, 1, view.window)
         inverted == Len(view.list) > view.window
         then == IF inverted THEN Sealing(to, expandOnly) ELSE Idle
     IN  /\ view.err = "" /\ view.list # <<>>
         /\ expandOnly => inverted
         /\ IF inverted /\ ~expandOnly THEN fleet \in {view.toSchema, NoSchema}
            ELSE fleet \notin {RowOf(rows, n).vs : n \in Range(window)}
         /\ proc' = IF window # <<>> THEN Walk(window, then) ELSE then
         /\ promise' = view
  /\ deployed' = <<>>
  /\ UNCHANGED <<case, files, rows, database, schemas, tombs, fleet, undone, excused, edits, crashes>>

\* `revert --to` when a revert was interrupted: any bound, and --expand-only is
\* not looked at (maybeResumeSealedRevert).
ResumeRevert(to) ==
  /\ proc.at = "idle" /\ case.walked /\ PendingSealedRevertResume
  /\ RevertTargets(rows).err = ""
  /\ LET open == RevertTargets(rows).list
         then == Sealing(to, FALSE)
     IN  /\ proc' = IF open # <<>> THEN Walk(open, then) ELSE then
         /\ excused' = IF open # <<>> /\ fleet # NoSchema THEN excused \cup {"pinned"} ELSE excused
  /\ promise' = IF promise.to = to THEN promise ELSE NoPromise
  /\ deployed' = <<>>
  /\ UNCHANGED <<case, files, rows, database, schemas, tombs, fleet, undone, counters>>

\* When that is refused, its message is to run `complete`.
CompleteInstead ==
  /\ proc.at = "idle" /\ case.walked /\ PendingSealedRevertResume
  /\ RevertTargets(rows).err # ""
  /\ RunComplete
  /\ UNCHANGED commands

----------------------------------------------------------------------------
(* Trains: forward, and of inverses.                                       *)

IsLast == Len(proc.todo) = 1

NewRow(n) ==
  [name |-> n, content |-> IF n < 0 THEN RowOf(rows, -n).content ELSE files.content[n],
   state |-> "starting", sealed |-> FALSE, vs |-> IF IsLast THEN proc.last.vs ELSE n, clean |-> FALSE]

\* Start checks the dependencies and records the migration.
DependenciesApplied ==
  proc.kind = "inverse" \/ MissingDependencies(Dir, Head(proc.todo), rows, Excluded(Dir, rows, Target)) = {}

InsertRow ==
  /\ proc.at = "start"
  /\ rows' = IF DependenciesApplied THEN Append(rows, NewRow(Head(proc.todo))) ELSE rows
  /\ proc' = IF DependenciesApplied THEN [proc EXCEPT !.at = "expand"] ELSE Idle
  /\ UNCHANGED <<case, files, database, schemas, tombs, fleet, history, counters>>

\* The rest of Start; the last migration of the train is projected.
Expand ==
  /\ proc.at = "expand"
  /\ rows' = [rows EXCEPT ![Len(rows)].state = "active"]
  /\ effects' = IF IsInverse(Leaf) THEN Without(effects, -Leaf.name) ELSE Append(effects, Effect(Leaf))
  /\ pending' = pending \cup {Leaf.name}
  /\ schemas' = IF IsLast THEN schemas \cup {Leaf.vs} ELSE schemas
  /\ proc' = IF ~IsLast \/ proc.last.complete THEN [proc EXCEPT !.at = "complete"]
             ELSE IF proc.kind = "forward" THEN [proc EXCEPT !.at = "clear"] ELSE Idle
  /\ UNCHANGED <<case, files, tombs, fleet, history, counters>>

CompleteIntermediate ==
  /\ proc.at = "complete" /\ ~IsLast
  /\ CompletedIntermediate
  /\ proc' = [proc EXCEPT !.at = "start", !.todo = Tail(@)]
  /\ UNCHANGED <<case, files, effects, schemas, tombs, fleet, history, counters>>

\* A train is contracted by its last Complete; that of inverses is then pruned.
CompleteLast ==
  /\ proc.at = "complete" /\ IsLast
  /\ proc' = Completing(IF proc.kind = "forward" THEN [proc EXCEPT !.at = "clear"] ELSE Recording(proc.batch))
  /\ UNCHANGED <<case, files, rows, database, schemas, tombs, fleet, history, counters>>

\* The tombstones of what was applied have served their purpose.
ClearRevertedMigrations ==
  /\ proc.at = "clear"
  /\ tombs' = {t \in tombs : t.name \notin Range(proc.batch)}
  /\ proc' = Idle
  /\ deployed' = <<proc.last>>
  /\ UNCHANGED <<case, files, rows, database, schemas, fleet, promise, undone, excused, counters>>

----------------------------------------------------------------------------
(* The contraction.                                                        *)

Contracting(kind) ==
  /\ proc.at = "contract" /\ Head(proc.todo)[1] = kind
  /\ proc' = IF Len(proc.todo) = 1 THEN proc.then ELSE [proc EXCEPT !.todo = Tail(@)]

DropVersionSchemasExcept ==
  /\ Contracting("drop")
  /\ schemas' = schemas \cap {Leaf.vs}
  /\ UNCHANGED <<case, files, rows, database, tombs, fleet, history, counters>>

\* Every row that is done, at intent and again at the end.
MarkSealed ==
  /\ Contracting("seal")
  /\ rows' = [i \in DOMAIN rows |-> [rows[i] EXCEPT !.sealed = @ \/ rows[i].state \notin {"starting", "active"}]]
  /\ UNCHANGED <<case, files, database, schemas, tombs, fleet, history, counters>>

\* FinishContraction takes the leaf's snapshot before it clears the last flag.
DrainDeferredMigration ==
  /\ Contracting("drain")
  /\ LET n == Head(proc.todo)[2]
         drained == [rows EXCEPT ![Index(rows, n)].state = "done"]
     IN  /\ pending' = pending \ {n}
         /\ rows' = IF HasActive THEN drained ELSE [drained EXCEPT ![Len(rows)].clean = @ \/ pending' = {}]
  /\ UNCHANGED <<case, files, effects, schemas, tombs, fleet, history, counters>>

\* The leaf's own operations.
OwnComplete ==
  /\ Contracting("own")
  /\ pending' = pending \ {Leaf.name}
  /\ UNCHANGED <<case, files, rows, effects, schemas, tombs, fleet, history, counters>>

\* The row is done, and its snapshot is taken.
StateComplete ==
  /\ Contracting("done")
  /\ rows' = [rows EXCEPT ![Len(rows)] = [@ EXCEPT !.state = "done", !.clean = pending = {}]]
  /\ UNCHANGED <<case, files, database, schemas, tombs, fleet, history, counters>>

----------------------------------------------------------------------------
(* Reverts.                                                                *)

\* revertMigration, on the leaf.
RevertMigration ==
  /\ proc.at = "walk"
  /\ WithoutLeaf
  /\ proc' = IF Len(proc.todo) > 1 THEN [proc EXCEPT !.todo = Tail(@)] ELSE [at |-> "project", then |-> proc.then]
  /\ UNCHANGED <<case, files, tombs, fleet, promise, deployed, undone, counters>>

\* Mutant: no schema is made for the new leaf.
EnsureNothing ==
  /\ proc.at = "project"
  /\ proc' = proc.then
  /\ UNCHANGED <<case, files, rows, database, schemas, tombs, fleet, history, counters>>

EnsureLeafVersionSchema ==
  /\ proc.at = "project"
  /\ schemas' = IF rows = <<>> THEN schemas ELSE schemas \cup {Leaf.vs}
  /\ proc' = proc.then
  /\ UNCHANGED <<case, files, rows, database, tombs, fleet, history, counters>>

\* Mutant: --expand-only is not looked at.
InverseTrainCompleted(targets, to, expandOnly) ==
  Train("inverse", [i \in DOMAIN targets |-> -targets[i]], [complete |-> TRUE, vs |-> RowOf(rows, to).vs, to |-> to])

InverseTrain(targets, to, expandOnly) ==
  Train("inverse", [i \in DOMAIN targets |-> -targets[i]],
        [complete |-> ~expandOnly, vs |-> RowOf(rows, to).vs, to |-> to])

\* finishSealedRevert has something to finish.
FinishSealedRevert(to) == IsInverse(Leaf) /\ InversesAbove(to) # <<>>

\* Mutant: a history that ends in inverses is left alone.
RevertSealedLeaves ==
  /\ proc.at = "sealed"
  /\ LET plan == PlanRevertSealed(rows, proc.to)
     IN  proc' = IF IsInverse(Leaf) \/ plan.err # "" \/ plan.list = <<>> THEN Idle
                 ELSE InverseTrain(plan.list, proc.to, proc.expandOnly)
  /\ UNCHANGED <<case, files, rows, database, schemas, tombs, fleet, history, counters>>

\* RevertSealed, the window being closed: what was applied is pruned, or the
\* inverses are planned and run.
RevertSealed ==
  /\ proc.at = "sealed"
  /\ LET plan == PlanRevertSealed(rows, proc.to)
     IN  proc' = IF FinishSealedRevert(proc.to) THEN Recording(InversesAbove(proc.to))
                 ELSE IF plan.err # "" \/ plan.list = <<>> THEN Idle
                 ELSE InverseTrain(plan.list, proc.to, proc.expandOnly)
  /\ UNCHANGED <<case, files, rows, database, schemas, tombs, fleet, history, counters>>

\* After `complete`: an inverse train that is contracted but not pruned.
FinishPendingSealedRevert ==
  /\ proc.at = "finish"
  /\ proc' = IF IsInverse(Leaf) THEN Recording(InversesAbove(DerivedBoundary)) ELSE Idle
  /\ UNCHANGED <<case, files, rows, database, schemas, tombs, fleet, history, counters>>

\* Mutant: the prune does not wait for the tombstones.
RecordLater ==
  /\ proc.at = "record"
  /\ proc' = [proc EXCEPT !.at = "prune"]
  /\ UNCHANGED <<case, files, rows, database, schemas, tombs, fleet, history, counters>>

\* The row that ON CONFLICT replaces.
Replaced(n) == {t \in tombs : t.name = n}

\* The content is that of the row, not of the file.
RecordRevertedMigrations ==
  /\ proc.at = "record"
  /\ LET n == Head(proc.todo)
     IN  tombs' = (tombs \ Replaced(n)) \cup {[name |-> n, content |-> RowOf(rows, n).content]}
  /\ proc' = IF Len(proc.todo) > 1 THEN [proc EXCEPT !.todo = Tail(@)] ELSE [proc EXCEPT !.at = "prune"]
  /\ UNCHANGED <<case, files, rows, database, schemas, fleet, history, counters>>

\* Mutant: the inverses alone.
PrunedNamesInverses(inverses) == Range(inverses)

PrunedNames(inverses) == Range(inverses) \cup {-n : n \in Range(inverses)}

\* The inverses and what they undid, in one transaction.
Prune ==
  /\ proc.at = "prune"
  /\ rows' = SelectSeq(rows, LAMBDA r : r.name \notin PrunedNames(proc.inverses))
  /\ undone' = undone \cup {Effect(RowOf(rows, -n)) : n \in Range(proc.inverses)}
  /\ proc' = [at |-> "project", then |-> Idle]
  /\ UNCHANGED <<case, files, database, schemas, tombs, fleet, promise, deployed, excused, counters>>

----------------------------------------------------------------------------
(* Failures and people.                                                    *)

\* A process dies, or its next step fails and it gives up; a Start that fails
\* and rolls back has left what one that never began leaves.
Crash ==
  /\ proc.at # "idle" /\ crashes < MaxCrashes
  /\ proc' = Idle
  /\ crashes' = crashes + 1
  /\ UNCHANGED <<case, files, rows, database, schemas, tombs, fleet, history, commands, edits>>

Repin(v) ==
  /\ proc.at = "idle" /\ case.walked
  /\ fleet # v /\ v \in schemas \cup {NoSchema}
  /\ fleet' = v
  /\ excused' = excused \ {"pinned"}
  /\ UNCHANGED <<case, files, rows, database, schemas, tombs, proc, promise, deployed, undone, counters>>

EditFile(n, content) ==
  /\ proc.at = "idle" /\ case.walked /\ edits < case.edits
  /\ n \in files.files /\ files.content[n] # content
  /\ files' = [files EXCEPT !.content[n] = content]
  /\ undone' = {e \in undone : e[1] # n}
  /\ edits' = edits + 1
  /\ UNCHANGED <<case, rows, database, schemas, tombs, fleet, proc, promise, deployed, excused, commands, crashes>>

RemoveFile(n) ==
  /\ proc.at = "idle" /\ case.walked /\ edits < case.edits
  /\ n \in files.files
  /\ files' = [files EXCEPT !.files = @ \ {n}]
  /\ edits' = edits + 1
  /\ deployed' = <<>>
  /\ UNCHANGED <<case, rows, database, schemas, tombs, fleet, proc, promise, undone, excused, commands, crashes>>

----------------------------------------------------------------------------
Init ==
  /\ case \in Cases
  /\ files = [files |-> case.dir.files, content |-> [n \in DOMAIN case.dir.deps |-> Min(Contents)]]
  /\ rows = case.rows
  /\ effects = Replay(case.rows)
  /\ pending = {}
  /\ schemas = IF case.rows = <<>> THEN {} ELSE {Last(case.rows).vs}
  /\ tombs = {}
  /\ fleet = IF case.rows = <<>> THEN NoSchema ELSE Last(case.rows).vs
  /\ proc = Idle
  /\ promise = NoPromise
  /\ deployed = <<>>
  /\ undone = {} /\ excused = {}
  /\ commands = 0 /\ edits = 0 /\ crashes = 0

Bounds == {<<>>} \cup {<<n>> : n \in files.files}

Step == \/ InsertRow \/ Expand \/ CompleteIntermediate \/ CompleteLast
        \/ DropVersionSchemasExcept \/ MarkSealed \/ DrainDeferredMigration \/ OwnComplete \/ StateComplete
        \/ ClearRevertedMigrations \/ RevertMigration \/ EnsureLeafVersionSchema \/ RevertSealed
        \/ FinishPendingSealedRevert \/ RecordRevertedMigrations \/ Prune

Resume == CompleteInstead \/ \E to \in {n \in Names(rows) : n >= 0} : ResumeRevert(to)

Next ==
  \/ Step
  \/ \E to \in Bounds, complete \in BOOLEAN : Migrate(to, complete)
  \/ \E to \in Bounds : MigrateCompletes(to)
  \/ Complete \/ Rollback \/ Resume
  \/ \E steps \in DOMAIN rows : RevertWindow(steps)
  \/ \E to \in Names(rows), expandOnly \in BOOLEAN : RevertTo(to, expandOnly)
  \/ Crash
  \/ \E v \in schemas \cup {NoSchema} : Repin(v)
  \/ \E n \in files.files, c \in Contents : EditFile(n, c)
  \/ \E n \in files.files : RemoveFile(n)

\* A command that runs goes on until it ends or dies, and an operator whose
\* revert was interrupted runs it again, or `complete` where it is refused.
Spec == Init /\ [][Next]_vars /\ WF_vars(Step) /\ WF_vars(Resume)

----------------------------------------------------------------------------
\* The history tells what the database holds, whatever was deployed, undone,
\* inverted, interrupted and pruned, and every Complete that is still due has a
\* row that queues it (pruneSealedRevert).  The second part is not true of a
\* sealed revert that died after its seal at intent and whose last inverse was
\* then rolled back: the inverses beneath are pruned with Completes due.
HistoryTellsEffects ==
  /\ effects = Replay(rows)
  /\ "past seal" \in excused \/ pending \subseteq Outstanding(rows)

Returning == proc.at = "project" /\ proc'.at = "idle" /\ crashes' = crashes

\* A revert that returns has undone what its preview said, left the leaf that
\* it named, and made the schema to pin to; so does the resumed run of one that
\* was interrupted, with the same bound, and `complete` after an expand-only
\* one (PreviewRevert).  One that died after its seal at intent undoes less
\* when it is run again: its last inverse is rolled back, the others pruned.
RevertAsPreviewed ==
  [][Returning /\ promise.err = "" /\ "past seal" \notin excused =>
       /\ rows' # <<>> /\ Last(rows').name = promise.to
       /\ Names(rows') \cap Range(promise.list) = {}
       /\ promise.toSchema \in schemas'
       /\ promise.drops \cap schemas' = {}]_vars

\* What a sealed revert undid is not applied again by a deploy until somebody
\* edits the file, also when the revert was interrupted (the tombstones).
UndoneStaysUndone ==
  [][proc.at = "expand" /\ proc.kind = "forward" /\ effects' # effects
       => <<Leaf.name, Leaf.content>> \notin undone]_vars

\* Applications never lose the schema they are pinned to: an expand-only
\* revert and a deployment only add one (WithExpandOnly).  They do when the
\* revert --expand-only, or an interrupted one, is run again while they run:
\* the inverses are rolled back and then carried through to the contraction.
FleetServed == fleet \in schemas \cup {NoSchema} \/ "pinned" \in excused

\* No train stops half-way for a dependency: the order and the bound of the
\* batch provide for every depends_on that Start checks.
TrainNeverStrands == proc.at = "start" => DependenciesApplied

\* A deploy that returned can be run again and does nothing: its migration is
\* recognized as awaiting its Complete (classifyCycle).
RetryIsNoOp ==
  deployed # <<>> /\ proc.at = "idle" =>
    /\ ResolveMigrations(Dir, rows, Target).err = ""
    /\ ClassifyCycle(rows, schemas, Batch(deployed[1].to)) \in {"awaiting", "no-op"}

Respects(deps, migs, s) == \A i \in DOMAIN s : deps[s[i]] \cap migs \subseteq {s[j] : j \in 1 .. i - 1}
LexLess(s, t) == \E i \in DOMAIN s : s[i] < t[i] /\ \A j \in 1 .. i - 1 : s[j] = t[j]

\* The order of a batch respects every dependency and is, among the orders that
\* do, the closest to the file order; a cycle is reported exactly when there is
\* none (TopoSortMigrations).
BatchOrdered ==
  LET migs == Unapplied(Dir, rows, Target)
      sorted == TopoSortMigrations(Dir.deps, migs, AppliedNames(rows), Excluded(Dir, rows, Target))
      orders == {s \in SetToSeqs(migs) : Respects(Dir.deps, migs, s)}
  IN  /\ sorted.err = "cycle" => orders = {}
      /\ sorted.err = "" => sorted.list \in orders /\ \A s \in orders : s = sorted.list \/ LexLess(sorted.list, s)

\* A dependency that the baseline cut off.
BelowBaseline == \E n \in Unapplied(Dir, rows, Target) :
                   (Dir.deps[n] \cap Dir.files) \ (LocalFiles(Dir, rows) \cup AppliedNames(rows)) # {}

\* A directory that passes `pgroll check` can be deployed to every database
\* whose history it holds, in one order that all its dependencies allow, unless
\* a file to apply depends on one at or below the database's baseline: that one
\* passes the check and is unknown to the deploy (resolveLocalSet).
CheckedDirectoryDeploys ==
  LET err == ResolveMigrations(Dir, rows, Target).err
  IN  CheckMigrationsDir(Dir) =>
        /\ err \in {"", "target required", "mismatch"}
        /\ err = "mismatch" => MissingMigrations(Dir, rows) # {} \/ BelowBaseline

\* Carrying out both legs of a plan leaves nothing to plan, and no migration
\* that has a file above the baseline is reverted on the way (Plan).
PlanConverges ==
  LET plan == Plan(Dir, rows, Target)
      kept == SelectSeq(rows, LAMBDA r : r.name \notin Range(plan.revert.list))
      added == [i \in DOMAIN plan.apply |->
                  [name |-> plan.apply[i], content |-> Min(Contents), state |-> "done", sealed |-> TRUE,
                   vs |-> plan.apply[i], clean |-> TRUE]]
      after == Plan(Dir, kept \o added, Target)
  IN  CheckMigrationsDir(Dir) /\ plan.err = "" /\ plan.blocked = {} =>
        /\ Range(plan.revert.list) \cap LocalFiles(Dir, rows) = {}
        /\ after.err = "" /\ after.apply = <<>> /\ after.revert.list = <<>> /\ after.blocked = {}

\* An interrupted sealed revert is always finished: by running it again, or by
\* `complete` when it died between the end of its last Complete and the seal
\* and RevertTargets refuses to touch the destructive inverse.
InterruptedRevertFinishes == proc.at = "idle" /\ case.walked /\ PendingSealedRevertResume ~> ~PendingSealedRevertResume

=============================================================================
