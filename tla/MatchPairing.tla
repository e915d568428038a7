----------------------------- MODULE MatchPairing -----------------------------
(***************************************************************************)
(* core/MatchPairing.h: computeMatches pairs the files a search gathered.  *)
(* It sorts them by size, scans for each the window of files at most       *)
(* sizeDiffBytes bigger, and gives up at two caps.  One action per turn    *)
(* of its inner loop, so that what holds half-way can be stated; the sort  *)
(* is not stable, hence any order of files of one size.                    *)
(***************************************************************************)
EXTENDS Integers, Sequences, Functions

CONSTANTS
    Files,   \* FileRecords: [path, size, inode, sides]
    Givens,  \* the lists of files handed in
    Args     \* [sizeDiffBytes, maxMatches, maxPairsExamined]

Sides == {"primary", "secondary"}

ASSUME FilesAssumption ==
    \A f \in Files : f.size \in Nat /\ f.inode \in Nat /\ f.sides \subseteq Sides
ASSUME GivensAssumption == Givens \subseteq Seq(Files)
ASSUME ArgsAssumption ==
    \A a \in Args : /\ a.sizeDiffBytes \in Nat
                    /\ a.maxMatches \in Nat \ {0} /\ a.maxPairsExamined \in Nat

VARIABLES
    given, args,             \* the call
    files, i, j,             \* the sorted files and the pair under way
    pairsExamined, matches, truncated,
    stage                    \* "sort", "scan", "done"

vars == <<given, args, files, i, j, pairsExamined, matches, truncated, stage>>

Init ==
    /\ given \in Givens /\ args \in Args
    /\ files = <<>> /\ i = 1 /\ j = 2
    /\ pairsExamined = 0 /\ matches = <<>> /\ truncated = FALSE
    /\ stage = "sort"

-----------------------------------------------------------------------------

\* The ways to rearrange a list of n elements.
Rearrangements(n) ==
    {p \in [1 .. n -> 1 .. n] : IsInjective(p) /\ \A k \in 1 .. n : \E l \in 1 .. n : p[l] = k}

Rearranged(s, p) == [k \in 1 .. Len(s) |-> s[p[k]]]

SortedBySize(s) == \A k, l \in 1 .. Len(s) : k < l => s[k].size <= s[l].size

Row(f, g) == [primary |-> f.path, secondary |-> g.path,
              primarySize |-> f.size, secondarySize |-> g.size]

Fits(f, g) == "primary" \in f.sides /\ "secondary" \in g.sides

\* Files of two paths that are not known to be one file already.
Distinct(f, g) == f.path # g.path /\ (f.inode = 0 \/ f.inode # g.inode)

\* Faulty: files that are already linked are paired too.
RowsLinkedToo(f, g) ==
    IF f.path = g.path THEN <<>>
    ELSE IF Fits(f, g) THEN <<Row(f, g)>>
    ELSE IF Fits(g, f) THEN <<Row(g, f)>> ELSE <<>>

\* The row, if any, for a file and a later one of the sorted list.
Rows(f, g) ==
    IF ~Distinct(f, g) THEN <<>>
    ELSE IF Fits(f, g) THEN <<Row(f, g)>>
    ELSE IF Fits(g, f) THEN <<Row(g, f)>> ELSE <<>>

-----------------------------------------------------------------------------

Sort ==
    /\ stage = "sort" /\ stage' = "scan"
    /\ \E p \in Rearrangements(Len(given)) : files' = Rearranged(given, p)
    /\ SortedBySize(files')
    /\ UNCHANGED <<given, args, i, j, pairsExamined, matches, truncated>>

Scanning == stage = "scan" /\ i <= Len(files) /\ ~truncated

\* Faulty: the greatest difference allowed is left out.
InWindowStrict == j <= Len(files) /\ files[j].size - files[i].size < args.sizeDiffBytes

\* The list is sorted: the difference of the unsigned sizes does not wrap.
InWindow == j <= Len(files) /\ files[j].size - files[i].size <= args.sizeDiffBytes

\* Faulty: each window starts at the front.
WindowRestarts ==
    /\ Scanning /\ ~InWindow
    /\ i' = i + 1 /\ j' = 1
    /\ UNCHANGED <<given, args, files, pairsExamined, matches, truncated, stage>>

WindowEnds ==
    /\ Scanning /\ ~InWindow
    /\ i' = i + 1 /\ j' = i + 2
    /\ UNCHANGED <<given, args, files, pairsExamined, matches, truncated, stage>>

TooManyPairs ==
    /\ Scanning /\ InWindow /\ pairsExamined >= args.maxPairsExamined
    /\ pairsExamined' = pairsExamined + 1 /\ truncated' = TRUE
    /\ UNCHANGED <<given, args, files, i, j, matches, stage>>

Examine ==
    /\ Scanning /\ InWindow /\ pairsExamined < args.maxPairsExamined
    /\ pairsExamined' = pairsExamined + 1 /\ j' = j + 1
    /\ matches' = matches \o Rows(files[i], files[j])
    /\ truncated' = (Len(matches') >= args.maxMatches)
    /\ UNCHANGED <<given, args, files, i, stage>>

\* std::stable_sort, biggest primary first.
Order ==
    /\ stage = "scan" /\ ~Scanning /\ stage' = "done"
    /\ \E p \in Rearrangements(Len(matches)) :
         /\ matches' = Rearranged(matches, p)
         /\ \A k, l \in 1 .. Len(matches) : k < l =>
              \/ matches'[k].primarySize > matches'[l].primarySize
              \/ matches'[k].primarySize = matches'[l].primarySize /\ p[k] < p[l]
    /\ UNCHANGED <<given, args, files, i, j, pairsExamined, truncated>>

Next == Sort \/ WindowEnds \/ TooManyPairs \/ Examine \/ Order

Spec == Init /\ [][Next]_vars

-----------------------------------------------------------------------------
(* Properties.                                                             *)

RowSet == {Row(f, g) : f, g \in Files}

\* With the caps that keep the result and the work bounded.
TypeOK ==
    /\ given \in Givens /\ args \in Args
    /\ files \in Seq(Files) /\ (stage = "sort" \/ Len(files) = Len(given))
    /\ i \in Nat \ {0} /\ j \in Nat \ {0}
    /\ pairsExamined \in 0 .. args.maxPairsExamined + 1
    /\ matches \in Seq(RowSet) /\ Len(matches) <= args.maxMatches
    /\ truncated \in BOOLEAN
    /\ stage \in {"sort", "scan", "done"}

Apart(f, g) == IF f.size <= g.size THEN g.size - f.size ELSE f.size - g.size

\* Two files that ought to be shown as near-duplicates, in this orientation.
Candidate(f, g) == Distinct(f, g) /\ Fits(f, g) /\ Apart(f, g) <= args.sizeDiffBytes

\* Every row is a pair of files handed in that may be linked this way round,
\* and the bigger one is the primary only where the smaller could not be
\* (MatchPairing.h: "the lower-sorted file as primary when its sides allow it").
RowsAreCandidates ==
    \A m \in Range(matches) :
        \E f, g \in Range(given) :
            Candidate(f, g) /\ m = Row(f, g) /\ (f.size > g.size => ~Fits(g, f))

\* Whatever order the sort leaves equal sizes in, no candidate is missed
\* unless the result is reported truncated: the window of the scan and its
\* end (lines 70-72) lose nothing.
NothingMissed ==
    (stage = "done" /\ ~truncated) =>
        \A f, g \in Range(given) :
            Candidate(f, g) => \E m \in Range(matches) : m \in {Row(f, g), Row(g, f)}

PathsDiffer(s) == \A k, l \in DOMAIN s : k # l => s[k].path # s[l].path

\* When the files handed in have different paths, as those of a search do,
\* an unordered pair has one row at most: neither the overlap of the trees
\* nor the two orientations give a second.
OneRowPerPair ==
    PathsDiffer(given) =>
        \A k, l \in DOMAIN matches :
            k # l => {matches[k].primary, matches[k].secondary}
                       # {matches[l].primary, matches[l].secondary}
=============================================================================
