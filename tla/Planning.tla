------------------------------ MODULE Planning ------------------------------
(***************************************************************************)
(* What `pgroll check`, `migrate`, `revert --dry-run` and `plan` compute   *)
(* before anything is done: which migrations of a directory are to be      *)
(* applied and in which order (pkg/roll/localset.go, unapplied.go,         *)
(* depends.go), and which rows of the history are to be undone and how     *)
(* (revert.go, revert_sealed.go, plan.go).                                 *)
(*                                                                         *)
(* A migration's name is a number: names sort as file names do.  -n names  *)
(* the synthesized inverse of migration n; 0 sorts below every file.       *)
(*                                                                         *)
(* A directory is [files, deps, targets].  The history is a sequence of    *)
(* rows [name, content, state, sealed, vs, clean] from the baseline on,    *)
(* whose state is "baseline", or from the first row without one; vs        *)
(* is the row's version schema, and clean says whether the schema stored   *)
(* with the row is free of artifacts of migrations in their expand phase.  *)
(***************************************************************************)
EXTENDS Integers, Sequences, FiniteSets, SequencesExt

CONSTANTS Irreversible,  \* migrations marked `irreversible: true`
          Uninvertible,  \* those for which no inverse can be synthesized
          Deferred       \* those whose Complete must be deferred in a train

NoTarget == "none"

Ok(list) == [err |-> "", list |-> list]
Refusal(reason) == [err |-> reason, list |-> <<>>]

Ascending(set) == SetToSortSeq(set, LAMBDA a, b : a < b)

----------------------------------------------------------------------------
(* Order.                                                                  *)

\* The least migration whose dependencies within migs are placed, until none is.
Kahn(deps, migs) ==
  FoldLeft(LAMBDA placed, i :
             LET ready == {m \in migs \ Range(placed) : deps[m] \cap migs \subseteq Range(placed)}
             IN  IF ready = {} THEN placed ELSE Append(placed, Min(ready)),
           <<>>, Ascending(migs))

\* Mutant: file order, whatever the dependencies.
TopoSortByName(deps, migs, applied, excluded) == Ok(Ascending(migs))

TopoSortMigrations(deps, migs, applied, excluded) ==
  IF \E m \in migs : ~(deps[m] \subseteq migs \cup applied \cup excluded) THEN Refusal("mismatch")
  ELSE IF Len(Kahn(deps, migs)) < Cardinality(migs) THEN Refusal("cycle")
  ELSE Ok(Kahn(deps, migs))

\* Mutant: a cycle is not looked for.
CheckMigrationsDirWithCycles(dir) ==
  /\ \A n \in dir.files : dir.deps[n] \subseteq dir.files
  /\ \A n \in dir.files : \A d \in dir.deps[n] :
       dir.targets[n] = {} \/ dir.targets[d] = {} \/ dir.targets[n] \subseteq dir.targets[d]

\* The rules on dependencies and targets.
CheckMigrationsDir(dir) ==
  /\ \A n \in dir.files : dir.deps[n] \subseteq dir.files
  /\ \A n \in dir.files : \A d \in dir.deps[n] :
       dir.targets[n] = {} \/ dir.targets[d] = {} \/ dir.targets[n] \subseteq dir.targets[d]
  /\ TopoSortMigrations(dir.deps, dir.files, {}, {}).err = ""

----------------------------------------------------------------------------
(* Selection.                                                              *)

IsBaseline(r) == r.state = "baseline"

LatestBaseline(rows) == IF rows # <<>> /\ IsBaseline(Head(rows)) THEN Head(rows).name ELSE 0

SchemaHistory(rows) == SelectSeq(rows, LAMBDA r : ~IsBaseline(r))

AppliedNames(rows) == {r.name : r \in Range(SchemaHistory(rows))}

LocalFiles(dir, rows) == {n \in dir.files : n > LatestBaseline(rows)}

Excluded(dir, rows, target) ==
  IF target = NoTarget THEN {} ELSE {n \in LocalFiles(dir, rows) : target \notin dir.targets[n]}

\* A file that could be applied says for which databases it is meant.
TargetRequired(dir, rows, target) ==
  target # NoTarget /\ \E n \in LocalFiles(dir, rows) \ AppliedNames(rows) : dir.targets[n] = {}

MissingMigrations(dir, rows) == AppliedNames(rows) \ LocalFiles(dir, rows)

Unapplied(dir, rows, target) == (LocalFiles(dir, rows) \ Excluded(dir, rows, target)) \ AppliedNames(rows)

ResolveMigrations(dir, rows, target) ==
  IF TargetRequired(dir, rows, target) THEN Refusal("target required")
  ELSE IF MissingMigrations(dir, rows) # {} THEN Refusal("mismatch")
  ELSE TopoSortMigrations(dir.deps, Unapplied(dir, rows, target), AppliedNames(rows), Excluded(dir, rows, target))

\* Mutant: the bound is not closed under depends_on.
BoundByPosition(dir, rows, apply, to) == SelectSeq(apply, LAMBDA m : m <= to)

\* --to: the files up to it, and what those of this run depend on within it.
BoundTrain(dir, rows, apply, to) ==
  LET inRun == Range(apply)
      pull(bound, i) == bound \cup (UNION {dir.deps[m] : m \in bound \cap inRun} \cap inRun)
      bound == FoldLeft(pull, {n \in LocalFiles(dir, rows) : n <= to}, apply)
  IN  SelectSeq(apply, LAMBDA m : m \in bound)

MissingDependencies(dir, n, rows, excluded) == dir.deps[n] \ (AppliedNames(rows) \cup excluded)

\* The state a run of migrate finds, given what it has still to apply and no
\* other process at work.
IsActive(rows) == rows # <<>> /\ Last(rows).state \in {"starting", "active"}

\* Mutant: an active migration is one that was interrupted.
ClassifyByActivity(rows, schemas, remaining) ==
  CASE IsActive(rows) -> "interrupted"
    [] ~IsActive(rows) /\ remaining = <<>> -> "no-op"
    [] OTHER -> "pending"

ClassifyCycle(rows, schemas, remaining) ==
  LET expandComplete == Last(rows).state = "active" /\ Last(rows).vs \in schemas
  IN  CASE IsActive(rows) /\ expandComplete /\ remaining = <<>> -> "awaiting"
        [] IsActive(rows) /\ ~(expandComplete /\ remaining = <<>>) -> "interrupted"
        [] ~IsActive(rows) /\ remaining = <<>> -> "no-op"
        [] OTHER -> "pending"

----------------------------------------------------------------------------
(* Undoing.                                                                *)

Names(rows) == {rows[i].name : i \in DOMAIN rows}
Index(rows, name) == CHOOSE i \in DOMAIN rows : rows[i].name = name
RowOf(rows, name) == rows[Index(rows, name)]
NamesOf(rs) == [i \in DOMAIN rs |-> rs[i].name]

UnsealedMigrations(rows) == {i \in DOMAIN rows : ~rows[i].sealed}

\* The in-flight window, newest first.
RevertTargets(rows) ==
  LET open == UnsealedMigrations(rows)
      window == {i \in open : i .. Len(rows) \subseteq open}
  IN  IF open = {} THEN Ok(<<>>)
      ELSE IF Len(rows) \notin open THEN Refusal("non-contiguous")
      ELSE IF \E i \in window : rows[i].name \in Irreversible THEN Refusal("inverse unavailable")
      ELSE IF \E i \in window : rows[i].state = "done" /\ rows[i].name \in Deferred THEN Refusal("window open")
      ELSE IF open # window THEN Refusal("non-contiguous")
      ELSE Ok(Reverse(NamesOf(SubSeq(rows, Min(window), Len(rows)))))

\* The names of a plan before `to`.
Above(list, to) == SubSeq(list, 1, (CHOOSE i \in DOMAIN list : list[i] = to) - 1)

ParentOf(rows, name) == IF Index(rows, name) = 1 THEN <<>> ELSE <<rows[Index(rows, name) - 1].name>>

RevertPlan(rows, to) ==
  LET targets == RevertTargets(rows)
      list == targets.list
  IN  IF targets.err # "" THEN targets
      ELSE IF to \in Range(list) THEN Ok(Above(list, to))
      ELSE IF list # <<>> /\ ParentOf(rows, Last(list)) = <<to>> THEN targets
      ELSE IF rows # <<>> /\ Last(rows).name = to THEN Ok(<<>>)
      ELSE IF to \in Names(rows) THEN Refusal("sealed")
      ELSE Refusal("target not found")

\* --steps, or the whole window when it has no more rows.
RevertSteps(rows, steps) ==
  LET targets == RevertTargets(rows)
  IN  IF steps < Len(targets.list) THEN [targets EXCEPT !.list = SubSeq(@, 1, steps)] ELSE targets

\* Contracted rows above `to` and up to `through`, newest first.
PlanSealedSegment(rows, to, through) ==
  LET segment == SubSeq(rows, Index(rows, to) + 1, Index(rows, through))
  IN  IF to \notin Names(rows) THEN Refusal("target not found")
      ELSE IF segment = <<>> THEN Ok(<<>>)
      ELSE IF \E r \in Range(segment) : r.name \in Irreversible \cup Uninvertible THEN Refusal("inverse unavailable")
      ELSE IF ~RowOf(rows, to).clean THEN Refusal("inverse unavailable")
      ELSE Ok(Reverse(NamesOf(segment)))

PlanRevertSealed(rows, to) ==
  IF UnsealedMigrations(rows) # {} THEN Refusal("window open")
  ELSE PlanSealedSegment(rows, to, Last(rows).name)

\* What a revert undoes (newest first), how much of it by inversion, which row
\* is the leaf then, the schema to pin to and the schemas that are dropped.
View(rows, plan, sealed, to) ==
  [err |-> "", list |-> plan \o sealed, window |-> Len(plan), to |-> to, toSchema |-> RowOf(rows, to).vs,
   drops |-> {RowOf(rows, n).vs : n \in Range(plan \o sealed)}]
NoView(reason) == [err |-> reason, list |-> <<>>, window |-> 0, to |-> 0, toSchema |-> 0, drops |-> {}]

ComposedRevertView(rows, to) ==
  LET window == RevertTargets(rows).list
      below == ParentOf(rows, Last(window))
      sealed == IF window = <<>> THEN PlanRevertSealed(rows, to)
                ELSE IF below = <<>> THEN Refusal("target not found")
                ELSE PlanSealedSegment(rows, to, below[1])
  IN  IF sealed.err # "" THEN NoView(sealed.err) ELSE View(rows, window, sealed.list, to)

PreviewRevertTo(rows, to) ==
  LET plan == RevertPlan(rows, to)
  IN  CASE plan.err = "" -> View(rows, plan.list, <<>>, to)
        [] plan.err = "sealed" -> ComposedRevertView(rows, to)
        [] OTHER -> NoView(plan.err)

----------------------------------------------------------------------------
(* `pgroll plan`: what takes the database to the directory.                *)

Shared(dir, rows) == {i \in DOMAIN rows : rows[i].name \in LocalFiles(dir, rows) \/ IsBaseline(rows[i])}

\* Mutant: the search starts at the wrong end.
ConvergenceTargetOldest(dir, rows) ==
  IF Shared(dir, rows) = {} THEN <<>> ELSE <<rows[Min(Shared(dir, rows))].name>>

\* The newest row that still has a file, or else the baseline.
ConvergenceTarget(dir, rows) ==
  IF Shared(dir, rows) = {} THEN <<>> ELSE <<rows[Max(Shared(dir, rows))].name>>

Plan(dir, rows, target) ==
  LET applied == AppliedNames(rows)
      apply == TopoSortMigrations(dir.deps, Unapplied(dir, rows, target), applied, Excluded(dir, rows, target))
      to == ConvergenceTarget(dir, rows)
      suffix == IF to = <<>> THEN rows ELSE SubSeq(rows, Index(rows, to[1]) + 1, Len(rows))
      gone == {r.name : r \in Range(suffix)}
      view == IF suffix = <<>> THEN NoView("")
              ELSE IF to = <<>> THEN NoView("no convergence target")
              ELSE PreviewRevertTo(rows, to[1])
      interleaved == MissingMigrations(dir, rows) \ gone
  IN  [err     |-> IF TargetRequired(dir, rows, target) THEN "target required" ELSE apply.err,
       apply   |-> apply.list,
       revert  |-> view,
       blocked |-> IF view.err # "" THEN gone ELSE interleaved]

=============================================================================
