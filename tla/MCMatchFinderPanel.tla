------------------------- MODULE MCMatchFinderPanel -------------------------
(* Small instance of MatchFinderPanel for TLC.                             *)
EXTENDS MatchFinderPanel, SequencesExt

CONSTANTS a, b, c, i1, i2, i3, t1, t2, f1, f2

Match(p, v) == [primary |-> p, victim |-> v]

\* A batch of two jobs that share a primary, of which the second row alone can
\* be checked too; and two rows that conflict.
Apart == <<Match(a, b), Match(a, c)>>
Clash == <<Match(b, c), Match(a, b)>>
MCResults == {Apart, Clash}
AllBatches == {Apart} \cup {<<m>> : m \in ToSet(Apart \o Clash)}

Clean == [file |-> [n \in {a, b, c} |-> CASE n = a -> i1 [] n = b -> i2 [] n = c -> i3],
          aside |-> [n \in {a, b, c} |-> None]]
\* A copy of b left aside by an earlier program.
Leftover == [file |-> [Clean.file EXCEPT ![b] = i1], aside |-> [Clean.aside EXCEPT ![b] = i2]]
MCShares == {Clean, Leftover}

MCFolderOf == [t \in {t1, t2} |-> IF t = t1 THEN f1 ELSE f2]

\* The same folder twice, and no primary.
MCSettings == {[primary |-> t1, secondary |-> t1], [primary |-> Blank, secondary |-> t2]}
=============================================================================
