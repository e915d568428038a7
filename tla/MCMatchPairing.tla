---------------------------- MODULE MCMatchPairing ----------------------------
(* Up to three files of every size, inode and side, two of which may have  *)
(* one path, against caps that bite and caps that do not.                  *)
EXTENDS MatchPairing

CONSTANTS p, q, r

SmallFiles == [path : {p, q, r}, size : {0, 1, 3}, inode : {0, 1},
               sides : SUBSET Sides \ {{}}]

SmallGivens ==
    {<<>>} \cup {<<f>> : f \in {x \in SmallFiles : x.path = p}}
    \cup {s \in [1 .. 3 -> SmallFiles] :
             s[1].path = p /\ s[2].path = q /\ s[3].path \in {q, r}}

SmallArgs == [sizeDiffBytes : {0, 1}, maxMatches : {2, 9}, maxPairsExamined : {2, 9}]
=============================================================================
