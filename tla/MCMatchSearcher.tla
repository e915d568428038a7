--------------------------- MODULE MCMatchSearcher ---------------------------
(* Small trees and overlapping searches for MatchSearcher.                 *)
EXTENDS MatchSearcher

CONSTANTS a, b, f, t

Dir(d, n) == [dir |-> d, name |-> n, isDir |-> TRUE, size |-> 0]
File(d, n, s) == [dir |-> d, name |-> n, isDir |-> FALSE, size |-> s]

\* /a with two directories, files in /a and /a/b; a copy in progress in /a/b.
TreeObjects == {Dir(<<>>, a), Dir(<<a>>, b), Dir(<<a>>, t), File(<<a>>, f, 1),
                File(<<a, b>>, f, 0), File(<<a, b>>, t, 1)}

Whole == {TreeObjects}
Inner == {<<a, b>>}
OneDir == {Dir(<<a>>, b)}

Search(p, s, rec, min) ==
    [primary |-> p, secondary |-> s, recursive |-> rec, sizeMinBytes |-> min]

\* Nested roots of which the outer one includes subfolders, and the same
\* root twice with different flags.
OverlapOptions == {Search(<<>>, <<a>>, {"primary"}, 0),
                   Search(<<a, b>>, <<a, b>>, {"secondary"}, 1)}
=============================================================================
