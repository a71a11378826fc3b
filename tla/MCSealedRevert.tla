--------------------------- MODULE MCSealedRevert ---------------------------
EXTENDS SealedRevert

Row(n, state) == [name |-> n, content |-> 1, state |-> state, sealed |-> TRUE, vs |-> n, clean |-> TRUE]

\* A history that begins with a baseline, or with the first migration.
Based(names) == [i \in DOMAIN names |-> Row(names[i], IF i = 1 THEN "baseline" ELSE "done")]
Unbased(names) == [i \in DOMAIN names |-> Row(names[i], "done")]

Files == 1..3
Directory(deps, targets) == [files |-> Files, deps |-> deps, targets |-> targets]
Everywhere(targets) == [n \in Files |-> targets]
NoDeps == [n \in Files |-> {}]

Case(dir, target, hist) ==
  [dir |-> dir, target |-> target, rows |-> hist, walked |-> FALSE, commands |-> 0, edits |-> 0]
Worked(dir, target, hist, c, e) == [Case(dir, target, hist) EXCEPT !.walked = TRUE, !.commands = c, !.edits = e]

InOrder == Directory(NoDeps, Everywhere({}))
FirstNeedsLast == Directory([NoDeps EXCEPT ![1] = {3}], Everywhere({}))
TwoDatabases == Directory([NoDeps EXCEPT ![3] = {1}], [Everywhere({"a"}) EXCEPT ![2] = {"b"}])

\* Directories to work with: in file order, with one database whose baseline
\* cuts off the first file; one in which the first file needs the last; and one
\* of two databases, with a file for the other one.
Walked ==
  {Worked(InOrder, NoTarget, Based(<<0>>), 3, 0),
   Worked(InOrder, NoTarget, Based(<<0, 1, 3>>), 2, 1),
   Worked(InOrder, NoTarget, Based(<<0, 2, 3>>), 2, 1),
   Worked(InOrder, NoTarget, Based(<<1, 2>>), 3, 1),
   Worked(FirstNeedsLast, NoTarget, <<>>, 3, 0),
   Worked(FirstNeedsLast, NoTarget, Based(<<0, 2>>), 2, 1),
   Worked(TwoDatabases, "a", Based(<<0, 1>>), 3, 0)}

\* Directories to plan for: every dependency graph on three files, and
\* baselines below, between and above them.
Graphs == {[n \in Files |-> {d \in Files : <<n, d>> \in g}] : g \in SUBSET {p \in Files \X Files : p[1] # p[2]}}
Assignments == {Everywhere({}), Everywhere({"a", "b"}), [n \in Files |-> IF n = 2 THEN {"b"} ELSE {"a"}],
                [n \in Files |-> IF n = 1 THEN {"a", "b"} ELSE IF n = 2 THEN {} ELSE {"a"}]}
Histories == {<<>>, Unbased(<<4>>), Unbased(<<3, 4, 5>>)}
             \cup {Based(h) : h \in {<<0>>, <<0, 2>>, <<0, 2, 4>>, <<0, 4, 1>>, <<0, 3, 6>>,
                                     <<1>>, <<1, 2>>, <<1, 3, 4>>, <<2, 1>>, <<3>>}}
Planned == {Case(Directory(g, a), t, h) : g \in Graphs, a \in Assignments, t \in {NoTarget, "a"}, h \in Histories}

\* The inverse of an operation may need to be deferred when the operation does not.
MCDeferred == {2, -1, -3}

MCCases == Walked \cup Planned
=============================================================================
