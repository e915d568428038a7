---------------------------- MODULE MCLinkRunner ----------------------------
(* Small instances of LinkRunner for TLC.                                  *)
EXTENDS LinkRunner

CONSTANTS a, b, c, i1, i2, i3

Link(p, v) == [primary |-> p, victim |-> v]

\* One batch that keeps a and replaces b and c: the last two jobs of a run,
\* and the only batch in which two jobs share a primary.
TwoJobs == {<<Link(a, b), Link(a, c)>>}

\* Batches of one job, so that a second run meets what the first left over:
\* one victim, two primaries.
OneJob == {<<Link(a, c)>>, <<Link(b, c)>>}

Three == [n \in {a, b, c} |-> CASE n = a -> i1 [] n = b -> i2 [] n = c -> i3]
NoTmp == [n \in {a, b, c} |-> None]

Clean == [file |-> Three, aside |-> NoTmp]

CleanShare == {Clean}
=============================================================================
