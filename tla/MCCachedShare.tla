---------------------------- MODULE MCCachedShare ----------------------------
(* Small instances of CachedShare for TLC.                                 *)
EXTENDS CachedShare

CONSTANTS a, b

Flat == [d \in Dirs |-> {}]

\* Directories as sequences of names, two below the root: the one at 1 has a
\* directory with a file, those at 2 are not there.
Deep == {<<>>, <<1>>, <<2>>, <<1, 1>>, <<2, 1>>}
ByName == [d \in Dirs |-> {<<SubSeq(d, 1, i - 1), d[i]>> : i \in 1 .. Len(d)}]
Chain == [p \in Paths |-> CASE p = <<<<>>, 1>> -> 2 [] p = <<<<1>>, 1>> -> 3
                             [] p = <<<<1, 1>>, 1>> -> 1 [] OTHER -> 0]
Ends == {<<>>, <<1, 1>>, <<2, 1>>}
ViewsDeepest == <<[dir |-> <<1, 1>>, priority |-> <<>>], [dir |-> <<2, 1>>, priority |-> <<1>>]>>

\* Two names of one file, one in each directory.
TwoNames == [p \in Paths |-> IF p[2] = 1 THEN 1 ELSE 0]
ViewsAB == <<[dir |-> a, priority |-> <<2>>], [dir |-> b, priority |-> <<>>]>>
=============================================================================
