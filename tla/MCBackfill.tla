----------------------------- MODULE MCBackfill -----------------------------
EXTENDS Backfill

MCKeys == 1 .. 3
OneColumnTwice == <<[col |-> "a", kind |-> "alter"], [col |-> "a", kind |-> "alter"]>>
OneAlter == {OneColumnTwice}
AddedColumn == <<[col |-> "b", kind |-> "add"]>>
TwoColumns == <<[col |-> "a", kind |-> "alter"], [col |-> "b", kind |-> "add"]>>
MCJobs == {OneColumnTwice, AddedColumn, TwoColumns}

\* The hypothesis on jobs that BackfillProofs makes and no prover settles:
\* every migration of up to five operations on up to three columns meets it.
ASSUME TasksAreInOrder ==
  \A n \in 0 .. 5 : \A cols \in [1 .. n -> {"a", "b", "c"}] :
    TasksInOrder([i \in 1 .. n |-> [col |-> cols[i], kind |-> "alter"]])
=============================================================================
