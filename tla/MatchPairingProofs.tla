-------------------------- MODULE MatchPairingProofs --------------------------
(***************************************************************************)
(* Proofs about MatchPairing for every list of files, every difference and *)
(* every pair of caps: the rows are candidate pairs, each pair has one row *)
(* at most, and none is missed unless the result says it is truncated.     *)
(*                                                                         *)
(* What the final order does to the rows is all in RearrangedRange: it     *)
(* keeps the set of them.  Before it, the rows are described by the pairs  *)
(* of positions the scan has passed (Passed): they are rows of passed      *)
(* pairs, and each passed pair of candidates has one.                      *)
(***************************************************************************)
EXTENDS MatchPairing, TLAPS

-----------------------------------------------------------------------------
(* Rearranging a list.                                                     *)

\* A rearranged list has the elements of the list.
LEMMA RearrangedRange ==
    ASSUME NEW S, NEW s \in Seq(S), NEW p \in Rearrangements(Len(s))
    PROVE  /\ Rearranged(s, p) \in Seq(S)
           /\ Len(Rearranged(s, p)) = Len(s)
           /\ DOMAIN Rearranged(s, p) = 1 .. Len(s)
           /\ \A k \in 1 .. Len(s) : p[k] \in 1 .. Len(s) /\ Rearranged(s, p)[k] = s[p[k]]
           /\ Range(Rearranged(s, p)) = Range(s)
<1> DEFINE t == Rearranged(s, p)
<1>1. /\ Len(s) \in Nat /\ DOMAIN s = 1 .. Len(s)
      /\ \A k \in 1 .. Len(s) : s[k] \in S
  OBVIOUS
<1>2. p \in [1 .. Len(s) -> 1 .. Len(s)]
  BY DEF Rearrangements
<1>3. t \in [1 .. Len(s) -> S]
  BY <1>1, <1>2 DEF Rearranged
<1>4. t \in Seq(S) /\ Len(t) = Len(s) /\ DOMAIN t = 1 .. Len(s)
  BY <1>1, <1>3
<1>5. \A k \in 1 .. Len(s) : p[k] \in 1 .. Len(s) /\ t[k] = s[p[k]]
  BY <1>2 DEF Rearranged
<1>6. \A k \in 1 .. Len(s) : \E l \in 1 .. Len(s) : p[l] = k
  BY DEF Rearrangements
<1>7. ASSUME NEW x \in Range(t) PROVE x \in Range(s)
  <2>1. PICK k \in 1 .. Len(s) : x = t[k]
    BY <1>4, <1>7 DEF Range
  <2> QED
    BY <2>1, <1>1, <1>5 DEF Range
<1>8. ASSUME NEW x \in Range(s) PROVE x \in Range(t)
  <2>1. PICK k \in 1 .. Len(s) : x = s[k]
    BY <1>1, <1>8 DEF Range
  <2>2. PICK l \in 1 .. Len(s) : p[l] = k
    BY <1>6
  <2>3. x = t[l]
    BY <1>5, <2>1, <2>2
  <2> QED
    BY <2>3, <1>4 DEF Range
<1> HIDE DEF t
<1>9. Range(t) = Range(s)
  BY <1>7, <1>8
<1> QED
  BY <1>4, <1>5, <1>9 DEF t

\* A rearranged list has its elements at different places: what holds of every
\* two places of the list holds of every two of the rearranged one.
LEMMA RearrangedPlaces ==
    ASSUME NEW S, NEW s \in Seq(S), NEW p \in Rearrangements(Len(s)),
           NEW k \in 1 .. Len(s), NEW l \in 1 .. Len(s), k # l
    PROVE  p[k] # p[l]
BY DEF Rearrangements, IsInjective

-----------------------------------------------------------------------------
(* The row of two files.                                                   *)

Pairs(f, g) == Distinct(f, g) /\ (Fits(f, g) \/ Fits(g, f))
TheRow(f, g) == IF Fits(f, g) THEN Row(f, g) ELSE Row(g, f)

LEMMA RowsCases ==
    ASSUME NEW f, NEW g
    PROVE  /\ Pairs(f, g) => Rows(f, g) = <<TheRow(f, g)>>
           /\ ~Pairs(f, g) => Rows(f, g) = <<>>
BY DEF Pairs, TheRow, Rows

LEMMA RowType ==
    ASSUME NEW f \in Files, NEW g \in Files
    PROVE  TheRow(f, g) \in RowSet
BY DEF TheRow, RowSet

\* Neither the order of the two files nor the inode test tells them apart.
LEMMA PairsSymmetric ==
    ASSUME NEW f \in Files, NEW g \in Files
    PROVE  Pairs(f, g) <=> Pairs(g, f)
BY FilesAssumption DEF Pairs, Distinct

\* What Examine adds to the list of rows.
LEMMA Appended ==
    ASSUME NEW m \in Seq(RowSet), NEW f \in Files, NEW g \in Files
    PROVE  /\ m \o Rows(f, g) \in Seq(RowSet)
           /\ ~Pairs(f, g) => m \o Rows(f, g) = m
           /\ Pairs(f, g) => /\ Len(m \o Rows(f, g)) = Len(m) + 1
                             /\ \A k \in 1 .. Len(m) : (m \o Rows(f, g))[k] = m[k]
                             /\ (m \o Rows(f, g))[Len(m) + 1] = TheRow(f, g)
<1>1. CASE ~Pairs(f, g)
  <2>1. m \o Rows(f, g) = m
    BY <1>1, RowsCases
  <2> QED
    BY <1>1, <2>1
<1>2. CASE Pairs(f, g)
  <2> DEFINE r == TheRow(f, g)
  <2>1. r \in RowSet /\ Rows(f, g) = <<r>>
    BY <1>2, RowsCases, RowType
  <2> HIDE DEF r
  <2>2. m \o <<r>> = Append(m, r)
    BY <2>1
  <2>3. /\ Append(m, r) \in Seq(RowSet) /\ Len(Append(m, r)) = Len(m) + 1
        /\ \A k \in 1 .. Len(m) : Append(m, r)[k] = m[k]
        /\ Append(m, r)[Len(m) + 1] = r
    BY <2>1
  <2> QED
    BY <1>2, <2>1, <2>2, <2>3 DEF r
<1> QED
  BY <1>1, <1>2

-----------------------------------------------------------------------------
(* Types and caps.                                                         *)

\* Until the scan gives up it is below both caps.
BelowCaps == ~truncated => /\ Len(matches) < args.maxMatches
                           /\ pairsExamined <= args.maxPairsExamined

TypeInv == TypeOK /\ BelowCaps

LEMMA TypeInvInit == Init => TypeInv
<1> SUFFICES ASSUME Init PROVE TypeInv
  OBVIOUS
<1>1. args.maxMatches \in Nat \ {0} /\ args.maxPairsExamined \in Nat
  BY ArgsAssumption DEF Init
<1>2. matches \in Seq(RowSet) /\ Len(matches) = 0 /\ files \in Seq(Files)
  BY DEF Init
<1>3. /\ pairsExamined \in 0 .. args.maxPairsExamined + 1
      /\ pairsExamined <= args.maxPairsExamined
      /\ Len(matches) < args.maxMatches /\ Len(matches) <= args.maxMatches
  BY <1>1, <1>2 DEF Init
<1>4. i \in Nat \ {0} /\ j \in Nat \ {0}
  BY DEF Init
<1>5. truncated \in BOOLEAN /\ stage \in {"sort", "scan", "done"}
  BY DEF Init
<1> QED
  BY <1>1, <1>2, <1>3, <1>4, <1>5 DEF Init, TypeInv, TypeOK, BelowCaps

LEMMA TypeInvStep == TypeInv /\ [Next]_vars => TypeInv'
<1> SUFFICES ASSUME TypeInv, [Next]_vars PROVE TypeInv'
  OBVIOUS
<1>a. /\ args \in Args /\ given \in Givens /\ given \in Seq(Files)
      /\ args.maxMatches \in Nat \ {0} /\ args.maxPairsExamined \in Nat
  BY ArgsAssumption, GivensAssumption DEF TypeInv, TypeOK
<1>1. CASE Sort
  <2>1. PICK p \in Rearrangements(Len(given)) : files' = Rearranged(given, p)
    BY <1>1 DEF Sort
  <2>2. files' \in Seq(Files) /\ Len(files') = Len(given)
    BY <1>a, <2>1, RearrangedRange
  <2> QED
    BY <1>1, <1>a, <2>2 DEF Sort, TypeInv, TypeOK, BelowCaps
<1>2. CASE WindowEnds
  BY <1>2 DEF WindowEnds, TypeInv, TypeOK, BelowCaps
<1>3. CASE TooManyPairs
  BY <1>3, <1>a DEF TooManyPairs, Scanning, TypeInv, TypeOK, BelowCaps
<1>4. CASE Examine
  <2>1. files[i] \in Files /\ files[j] \in Files
    BY <1>4 DEF Examine, Scanning, InWindow, TypeInv, TypeOK
  <2>2. /\ matches' \in Seq(RowSet)
        /\ Len(matches') = Len(matches) \/ Len(matches') = Len(matches) + 1
    BY <1>4, <2>1, Appended DEF Examine, TypeInv, TypeOK
  <2>3. /\ ~truncated /\ pairsExamined \in Nat
        /\ Len(matches) \in Nat /\ Len(matches) < args.maxMatches
    BY <1>4, <1>a DEF Examine, Scanning, TypeInv, TypeOK, BelowCaps
  <2>4. Len(matches') <= args.maxMatches
    BY <1>a, <2>2, <2>3
  <2>5. truncated' \in BOOLEAN
    BY <1>4 DEF Examine
  <2>6. ~truncated' => Len(matches') < args.maxMatches
    <3>1. ~truncated' => ~(Len(matches') >= args.maxMatches)
      BY <1>4, Zenon DEF Examine
    <3> QED
      BY <1>a, <2>2, <2>3, <3>1
  <2>7. /\ pairsExamined' <= args.maxPairsExamined
        /\ pairsExamined' \in 0 .. args.maxPairsExamined + 1
    BY <1>4, <1>a, <2>3 DEF Examine
  <2>8. i' \in Nat \ {0} /\ j' \in Nat \ {0}
    BY <1>4 DEF Examine, TypeInv, TypeOK
  <2>9. UNCHANGED <<given, args, files, stage>>
    BY <1>4 DEF Examine
  <2> QED
    BY <2>2, <2>4, <2>5, <2>6, <2>7, <2>8, <2>9 DEF TypeInv, TypeOK, BelowCaps
<1>5. CASE Order
  <2>1. PICK p \in Rearrangements(Len(matches)) : matches' = Rearranged(matches, p)
    BY <1>5 DEF Order
  <2>2. matches' \in Seq(RowSet) /\ Len(matches') = Len(matches)
    BY <2>1, RearrangedRange DEF TypeInv, TypeOK
  <2> QED
    BY <1>5, <2>2 DEF Order, TypeInv, TypeOK, BelowCaps
<1>6. CASE UNCHANGED vars
  BY <1>6 DEF vars, TypeInv, TypeOK, BelowCaps
<1> QED
  BY <1>1, <1>2, <1>3, <1>4, <1>5, <1>6 DEF Next

\* Types, and the caps on the rows and on the work, hold throughout.
THEOREM TypeCorrect == Spec => []TypeOK
<1>1. Spec => []TypeInv
  BY TypeInvInit, TypeInvStep, PTL DEF Spec
<1>2. TypeInv => TypeOK
  BY DEF TypeInv
<1> QED
  BY <1>1, <1>2, PTL

-----------------------------------------------------------------------------
(* The scan.                                                               *)

\* The scan is past the pair of places k and l of the sorted list.
Passed(k, l) == k < l /\ (k < i \/ (k = i /\ l < j))

\* Places of files that are to be paired.
Good(k, l) == Pairs(files[k], files[l]) /\ files[l].size - files[k].size <= args.sizeDiffBytes

Places == 1 .. Len(files)

Start == stage = "sort" => matches = <<>> /\ i = 1 /\ j = 2

Prepared ==
    stage # "sort" => /\ SortedBySize(files)
                      /\ Range(files) = Range(given)
                      /\ PathsDiffer(given) => PathsDiffer(files)

RowsFromPassed ==
    \A m \in Range(matches) :
        \E k, l \in Places :
            Passed(k, l) /\ Good(k, l) /\ m = TheRow(files[k], files[l])

PassedHaveRows ==
    \A k, l \in Places :
        Passed(k, l) /\ Good(k, l) => TheRow(files[k], files[l]) \in Range(matches)

\* The scan that was not cut short has come to the end.
Through == stage = "done" => truncated \/ i > Len(files)

\* The inductive invariant.
ScanInv ==
    /\ TypeInv /\ i < j
    /\ Start /\ Prepared /\ Through
    /\ RowsFromPassed /\ PassedHaveRows /\ OneRowPerPair

LEMMA ScanInvInit == Init => ScanInv
<1> SUFFICES ASSUME Init PROVE ScanInv
  OBVIOUS
<1>1. TypeInv
  BY TypeInvInit
<1>2. /\ files = <<>> /\ matches = <<>> /\ i = 1 /\ j = 2 /\ stage = "sort"
  BY DEF Init
<1>3. DOMAIN matches = {} /\ Range(matches) = {} /\ Places = {}
  BY <1>2 DEF Range, Places
<1>4. i < j /\ Start /\ Prepared /\ Through
  BY <1>2 DEF Start, Prepared, Through
<1>5. RowsFromPassed /\ PassedHaveRows /\ OneRowPerPair
  BY <1>3 DEF RowsFromPassed, PassedHaveRows, OneRowPerPair
<1> QED
  BY <1>1, <1>4, <1>5 DEF ScanInv

\* What is known of the two files the scan looks at.
LEMMA FilesAtPlaces ==
    ASSUME TypeInv
    PROVE  /\ Len(files) \in Nat /\ DOMAIN files = Places
           /\ \A k \in Places : files[k] \in Files /\ files[k].size \in Nat
           /\ i \in Nat \ {0} /\ j \in Nat \ {0} /\ args.sizeDiffBytes \in Nat
BY FilesAssumption, ArgsAssumption DEF TypeInv, TypeOK, Places

\* The sort leaves a list of the same files.
LEMMA SortStep ==
    ASSUME ScanInv, Sort PROVE ScanInv'
<1> USE DEF ScanInv
<1>1. TypeInv'
  BY TypeInvStep DEF Next
<1>2. /\ stage = "sort" /\ stage' = "scan" /\ matches = <<>> /\ i = 1 /\ j = 2
      /\ UNCHANGED <<given, args, i, j, matches>>
      /\ SortedBySize(files')
  BY DEF Sort, Start
<1>3. PICK p \in Rearrangements(Len(given)) : files' = Rearranged(given, p)
  BY DEF Sort
<1>4. given \in Seq(Files) /\ DOMAIN given = 1 .. Len(given)
  BY GivensAssumption DEF TypeInv, TypeOK
<1>5. /\ DOMAIN files' = 1 .. Len(given) /\ Len(files') = Len(given)
      /\ \A k \in 1 .. Len(given) : p[k] \in 1 .. Len(given) /\ files'[k] = given[p[k]]
      /\ Range(files') = Range(given)
  BY <1>3, <1>4, RearrangedRange
<1>6. PathsDiffer(given) => PathsDiffer(files')
  <2> SUFFICES ASSUME PathsDiffer(given),
                      NEW k \in 1 .. Len(given), NEW l \in 1 .. Len(given), k # l
               PROVE  files'[k].path # files'[l].path
    BY <1>5 DEF PathsDiffer
  <2>1. p[k] # p[l]
    BY <1>4, RearrangedPlaces
  <2> QED
    BY <1>4, <1>5, <2>1 DEF PathsDiffer
<1>7. Range(matches') = {} /\ DOMAIN matches' = {}
  BY <1>2 DEF Range
<1>8. \A k, l \in Places' : ~Passed(k, l)'
  BY <1>2, <1>5, <1>4 DEF Passed, Places
<1>9. i' < j' /\ Start' /\ Prepared' /\ Through'
  BY <1>2, <1>5, <1>6 DEF Start, Prepared, Through
<1>10. RowsFromPassed' /\ PassedHaveRows' /\ OneRowPerPair'
  BY <1>7, <1>8 DEF RowsFromPassed, PassedHaveRows, OneRowPerPair
<1> QED
  BY <1>1, <1>9, <1>10

\* Beyond the end of the window no file is near enough, the list being sorted.
LEMMA WindowEndsStep ==
    ASSUME ScanInv, WindowEnds PROVE ScanInv'
<1> USE DEF ScanInv
<1>1. TypeInv'
  BY TypeInvStep DEF Next
<1>2. /\ stage = "scan" /\ i \in Places /\ ~InWindow
      /\ i' = i + 1 /\ j' = i + 2
      /\ UNCHANGED <<given, args, files, matches, truncated, stage>>
  BY FilesAtPlaces DEF WindowEnds, Scanning, Places
<1>3. SortedBySize(files) /\ Places' = Places
  BY <1>2 DEF Prepared, Places
<1>4. i' < j' /\ Start' /\ Prepared' /\ Through'
  BY <1>2, FilesAtPlaces DEF Start, Prepared, Through
<1>5. \A k, l \in Places : Good(k, l)' <=> Good(k, l)
  BY <1>2 DEF Good
<1>6. \A k, l \in Places : Passed(k, l)' <=> (k < l /\ k <= i)
  BY <1>2, FilesAtPlaces DEF Passed, Places
<1>7. \A k, l \in Places : Passed(k, l) => Passed(k, l)'
  BY <1>6, FilesAtPlaces DEF Passed, Places
<1>8. ASSUME NEW k \in Places, NEW l \in Places, Passed(k, l)', ~Passed(k, l)
      PROVE  ~Good(k, l)
  <2>1. k = i /\ j <= l
    BY <1>6, <1>8, FilesAtPlaces DEF Passed, Places
  <2>2. j \in Places
    BY <2>1, FilesAtPlaces DEF Places
  <2>3. files[j].size - files[i].size > args.sizeDiffBytes
    BY <1>2, <2>2, FilesAtPlaces DEF InWindow, Places
  <2>4. files[j].size <= files[l].size
    BY <1>3, <2>1, <2>2, FilesAtPlaces DEF SortedBySize, Places
  <2> QED
    BY <1>2, <2>1, <2>2, <2>3, <2>4, FilesAtPlaces DEF Good
<1>9. RowsFromPassed'
  BY <1>2, <1>3, <1>5, <1>7 DEF RowsFromPassed
<1>10. PassedHaveRows'
  BY <1>2, <1>3, <1>5, <1>8 DEF PassedHaveRows
<1>11. OneRowPerPair'
  BY <1>2 DEF OneRowPerPair
<1> QED
  BY <1>1, <1>4, <1>9, <1>10, <1>11

\* The scan is past one pair more, whose row, if any, is a new one.
LEMMA ExamineStep ==
    ASSUME ScanInv, Examine PROVE ScanInv'
<1> USE DEF ScanInv
<1>1. TypeInv'
  BY TypeInvStep DEF Next
<1>2. /\ stage = "scan" /\ i \in Places /\ InWindow
      /\ i' = i /\ j' = j + 1 /\ matches' = matches \o Rows(files[i], files[j])
      /\ UNCHANGED <<given, args, files, stage>>
  BY FilesAtPlaces DEF Examine, Scanning, Places
<1>3. /\ j \in Places /\ Places' = Places
      /\ files[j].size - files[i].size <= args.sizeDiffBytes
  BY <1>2, FilesAtPlaces DEF InWindow, Places
<1>4. i' < j' /\ Start' /\ Prepared' /\ Through'
  BY <1>2, FilesAtPlaces DEF Start, Prepared, Through
<1>5. \A k, l \in Places : Good(k, l)' <=> Good(k, l)
  BY <1>2 DEF Good
<1>6. \A k, l \in Places : Passed(k, l)' <=> (Passed(k, l) \/ (k = i /\ l = j))
  BY <1>2, FilesAtPlaces DEF Passed, Places
<1>7. ~Passed(i, j)
  BY FilesAtPlaces DEF Passed
<1> DEFINE r == TheRow(files[i], files[j])
<1>8. /\ matches \in Seq(RowSet) /\ DOMAIN matches = 1 .. Len(matches)
      /\ matches' \in Seq(RowSet) /\ DOMAIN matches' = 1 .. Len(matches')
      /\ Len(matches) \in Nat
  BY <1>1 DEF TypeInv, TypeOK
<1>9. files[i] \in Files /\ files[j] \in Files
  BY <1>2, <1>3, FilesAtPlaces
<1>10. CASE ~Pairs(files[i], files[j])
  <2>1. matches' = matches
    BY <1>2, <1>8, <1>9, <1>10, Appended
  <2>2. ~Good(i, j)
    BY <1>10 DEF Good
  <2>3. RowsFromPassed'
    BY <1>2, <1>3, <1>5, <1>6, <2>1 DEF RowsFromPassed
  <2>4. PassedHaveRows'
    BY <1>2, <1>3, <1>5, <1>6, <2>1, <2>2 DEF PassedHaveRows
  <2>5. OneRowPerPair'
    BY <1>2, <2>1 DEF OneRowPerPair
  <2> QED
    BY <1>1, <1>4, <2>3, <2>4, <2>5
<1>11. CASE Pairs(files[i], files[j])
  <2>1. /\ Len(matches') = Len(matches) + 1
        /\ \A k \in 1 .. Len(matches) : matches'[k] = matches[k]
        /\ matches'[Len(matches) + 1] = r
    BY <1>2, <1>8, <1>9, <1>11, Appended
  <2>2. Good(i, j)
    BY <1>3, <1>11 DEF Good
  <2> HIDE DEF r
  <2>3. Range(matches') = Range(matches) \cup {r}
    BY <1>8, <2>1 DEF Range
  <2>4. RowsFromPassed'
    <3> SUFFICES ASSUME NEW m \in Range(matches')
                 PROVE  \E k, l \in Places : /\ Passed(k, l)' /\ Good(k, l)'
                                             /\ m = TheRow(files[k], files[l])
      BY <1>2, <1>3 DEF RowsFromPassed
    <3>1. CASE m \in Range(matches)
      BY <1>5, <1>6, <3>1 DEF RowsFromPassed
    <3>2. CASE m = r
      BY <1>2, <1>3, <1>5, <1>6, <2>2, <3>2 DEF r
    <3> QED
      BY <2>3, <3>1, <3>2
  <2>5. PassedHaveRows'
    <3> SUFFICES ASSUME NEW k \in Places, NEW l \in Places, Passed(k, l)', Good(k, l)'
                 PROVE  TheRow(files[k], files[l]) \in Range(matches')
      BY <1>2, <1>3 DEF PassedHaveRows
    <3>1. CASE Passed(k, l)
      BY <1>5, <2>3, <3>1 DEF PassedHaveRows
    <3>2. CASE k = i /\ l = j
      BY <2>3, <3>2 DEF r
    <3> QED
      BY <1>6, <3>1, <3>2
  <2>6. OneRowPerPair'
    <3> SUFFICES ASSUME PathsDiffer(given),
                        NEW x \in 1 .. Len(matches'), NEW y \in 1 .. Len(matches'), x # y
                 PROVE  {matches'[x].primary, matches'[x].secondary}
                            # {matches'[y].primary, matches'[y].secondary}
      BY <1>2, <1>8 DEF OneRowPerPair
    <3>1. ASSUME NEW z \in 1 .. Len(matches)
          PROVE  {matches[z].primary, matches[z].secondary} # {r.primary, r.secondary}
      <4>1. PICK k \in Places, l \in Places :
                   Passed(k, l) /\ matches[z] = TheRow(files[k], files[l])
        BY <1>8, <3>1 DEF RowsFromPassed, Range
      <4>2. k # i \/ l # j
        BY <1>7, <4>1
      <4>3. k < l
        BY <4>1 DEF Passed
      <4>4. \A a, b \in Places : a # b => files[a].path # files[b].path
        BY <1>2, FilesAtPlaces DEF Prepared, PathsDiffer
      <4>5. {matches[z].primary, matches[z].secondary} = {files[k].path, files[l].path}
        BY <4>1 DEF TheRow, Row
      <4>6. {r.primary, r.secondary} = {files[i].path, files[j].path}
        BY DEF r, TheRow, Row
      <4>7. ~(k = j /\ l = i)
        BY <4>3, FilesAtPlaces DEF Places
      <4> QED
        BY <1>2, <1>3, <4>2, <4>4, <4>5, <4>6, <4>7
    <3>2. CASE x \in 1 .. Len(matches) /\ y \in 1 .. Len(matches)
      BY <1>8, <2>1, <3>2 DEF OneRowPerPair
    <3>3. CASE x \in 1 .. Len(matches) /\ y = Len(matches) + 1
      BY <2>1, <3>1, <3>3
    <3>4. CASE x = Len(matches) + 1 /\ y \in 1 .. Len(matches)
      BY <2>1, <3>1, <3>4
    <3>5. /\ x \in 1 .. Len(matches) \/ x = Len(matches) + 1
          /\ y \in 1 .. Len(matches) \/ y = Len(matches) + 1
      BY <1>8, <2>1
    <3> QED
      BY <3>2, <3>3, <3>4, <3>5
  <2> QED
    BY <1>1, <1>4, <2>4, <2>5, <2>6
<1> QED
  BY <1>10, <1>11

\* The final order keeps the rows.
LEMMA OrderStep ==
    ASSUME ScanInv, Order PROVE ScanInv'
<1> USE DEF ScanInv
<1>1. TypeInv'
  BY TypeInvStep DEF Next
<1>2. /\ stage = "scan" /\ ~Scanning /\ stage' = "done"
      /\ UNCHANGED <<given, args, files, i, j, truncated>>
  BY DEF Order
<1>3. PICK p \in Rearrangements(Len(matches)) : matches' = Rearranged(matches, p)
  BY DEF Order
<1>4. matches \in Seq(RowSet) /\ DOMAIN matches = 1 .. Len(matches)
  BY DEF TypeInv, TypeOK
<1>5. /\ DOMAIN matches' = 1 .. Len(matches)
      /\ \A k \in 1 .. Len(matches) :
           p[k] \in 1 .. Len(matches) /\ matches'[k] = matches[p[k]]
      /\ Range(matches') = Range(matches)
  BY <1>3, <1>4, RearrangedRange
<1>6. Through'
  BY <1>2, FilesAtPlaces DEF Through, Scanning
<1>7. i' < j' /\ Start' /\ Prepared'
  BY <1>2 DEF Start, Prepared
<1>8. Places' = Places /\ \A k, l : (Passed(k, l)' <=> Passed(k, l)) /\ (Good(k, l)' <=> Good(k, l))
  BY <1>2 DEF Places, Passed, Good
<1>9. RowsFromPassed' /\ PassedHaveRows'
  BY <1>2, <1>5, <1>8 DEF RowsFromPassed, PassedHaveRows
<1>10. OneRowPerPair'
  <2> SUFFICES ASSUME PathsDiffer(given),
                      NEW k \in 1 .. Len(matches), NEW l \in 1 .. Len(matches), k # l
               PROVE  {matches'[k].primary, matches'[k].secondary}
                          # {matches'[l].primary, matches'[l].secondary}
    BY <1>2, <1>5 DEF OneRowPerPair
  <2>1. p[k] # p[l]
    BY <1>4, RearrangedPlaces
  <2>2. p[k] \in DOMAIN matches /\ p[l] \in DOMAIN matches
    BY <1>4, <1>5
  <2>3. {matches[p[k]].primary, matches[p[k]].secondary}
            # {matches[p[l]].primary, matches[p[l]].secondary}
    BY <2>1, <2>2 DEF OneRowPerPair
  <2>4. matches'[k] = matches[p[k]] /\ matches'[l] = matches[p[l]]
    BY <1>5
  <2> QED
    BY <2>3, <2>4
<1> QED
  BY <1>1, <1>6, <1>7, <1>9, <1>10

LEMMA ScanInvStep == ScanInv /\ [Next]_vars => ScanInv'
<1> SUFFICES ASSUME ScanInv, [Next]_vars PROVE ScanInv'
  OBVIOUS
<1>1. CASE TooManyPairs
  <2>1. TypeInv'
    BY TypeInvStep DEF ScanInv
  <2>2. /\ UNCHANGED <<given, args, files, i, j, matches, stage>>
        /\ stage = "scan"
    BY <1>1 DEF TooManyPairs, Scanning
  <2>3. \A k, l : (Passed(k, l)' <=> Passed(k, l)) /\ (Good(k, l)' <=> Good(k, l))
    BY <2>2 DEF Passed, Good
  <2>4. i' < j' /\ Prepared'
    BY <2>2 DEF ScanInv, Prepared
  <2>9. Start' /\ Through'
    BY <2>2 DEF Start, Through
  <2>5. Places' = Places
    BY <2>2 DEF Places
  <2>6. RowsFromPassed'
    BY <2>2, <2>3, <2>5 DEF ScanInv, RowsFromPassed
  <2>7. PassedHaveRows'
    BY <2>2, <2>3, <2>5 DEF ScanInv, PassedHaveRows
  <2>8. OneRowPerPair'
    BY <2>2 DEF ScanInv, OneRowPerPair
  <2> QED
    BY <2>1, <2>4, <2>6, <2>7, <2>8, <2>9 DEF ScanInv
<1>2. CASE UNCHANGED vars
  <2>1. TypeInv'
    BY TypeInvStep DEF ScanInv
  <2>2. UNCHANGED <<given, args, files, i, j, matches, stage, truncated>>
    BY <1>2 DEF vars
  <2>3. \A k, l : (Passed(k, l)' <=> Passed(k, l)) /\ (Good(k, l)' <=> Good(k, l))
    BY <2>2 DEF Passed, Good
  <2> QED
    BY <2>1, <2>2, <2>3 DEF ScanInv, Start, Prepared, Through, RowsFromPassed,
         PassedHaveRows, OneRowPerPair, Places
<1> QED
  BY <1>1, <1>2, SortStep, WindowEndsStep, ExamineStep, OrderStep DEF Next

LEMMA ScanInvariant == Spec => []ScanInv
BY ScanInvInit, ScanInvStep, PTL DEF Spec

-----------------------------------------------------------------------------
(* What the result means.                                                  *)

LEMMA RowsAreCandidatesHolds == ScanInv => RowsAreCandidates
<1> SUFFICES ASSUME ScanInv, NEW m \in Range(matches)
             PROVE  \E f, g \in Range(given) :
                       Candidate(f, g) /\ m = Row(f, g) /\ (f.size > g.size => ~Fits(g, f))
  BY DEF RowsAreCandidates
<1>1. TypeInv /\ Prepared /\ RowsFromPassed /\ Start
  BY DEF ScanInv
<1>2. stage # "sort"
  BY <1>1 DEF Start, Range
<1>3. PICK k \in Places, l \in Places :
         Passed(k, l) /\ Good(k, l) /\ m = TheRow(files[k], files[l])
  BY <1>1 DEF RowsFromPassed
<1> DEFINE f == files[k]
           g == files[l]
<1>4. /\ f \in Range(given) /\ g \in Range(given)
      /\ f \in Files /\ g \in Files /\ f.size \in Nat /\ g.size \in Nat
  BY <1>1, <1>2, FilesAtPlaces DEF Prepared, Range
<1>5. f.size <= g.size
  BY <1>1, <1>2, <1>3 DEF Prepared, SortedBySize, Passed, Places
<1>6. Pairs(f, g) /\ g.size - f.size <= args.sizeDiffBytes /\ m = TheRow(f, g)
  BY <1>3 DEF Good
<1> HIDE DEF f, g
<1>7. CASE Fits(f, g)
  <2>1. Candidate(f, g) /\ m = Row(f, g)
    BY <1>5, <1>6, <1>7 DEF Candidate, Apart, Pairs, TheRow
  <2> QED
    BY <1>4, <1>5, <2>1
<1>8. CASE ~Fits(f, g)
  <2>1. Distinct(g, f) /\ Fits(g, f) /\ m = Row(g, f)
    BY <1>4, <1>6, <1>8, FilesAssumption DEF Pairs, Distinct, TheRow
  <2>2. Apart(g, f) <= args.sizeDiffBytes
    BY <1>4, <1>5, <1>6, <1>1, FilesAtPlaces DEF Apart
  <2>3. Candidate(g, f)
    BY <2>1, <2>2 DEF Candidate
  <2> QED
    BY <1>4, <1>8, <2>1, <2>3
<1> QED
  BY <1>7, <1>8

LEMMA NothingMissedHolds == ScanInv => NothingMissed
<1> SUFFICES ASSUME ScanInv, stage = "done", ~truncated,
                    NEW f \in Range(given), NEW g \in Range(given), Candidate(f, g)
             PROVE  \E m \in Range(matches) : m \in {Row(f, g), Row(g, f)}
  BY DEF NothingMissed
<1>1. TypeInv /\ Prepared /\ PassedHaveRows /\ Through
  BY DEF ScanInv
<1>2. SortedBySize(files) /\ Range(files) = Range(given) /\ i > Len(files)
  BY <1>1 DEF Prepared, Through
<1>3. PICK k \in Places, l \in Places : f = files[k] /\ g = files[l]
  BY <1>1, <1>2, FilesAtPlaces DEF Range
<1>4. /\ f \in Files /\ g \in Files /\ f.size \in Nat /\ g.size \in Nat
      /\ k \in Nat /\ l \in Nat /\ i \in Nat /\ Len(files) \in Nat
      /\ k <= Len(files) /\ l <= Len(files)
  BY <1>1, <1>3, FilesAtPlaces DEF Places
<1>5. k # l
  BY <1>3 DEF Candidate, Distinct
<1>6. Pairs(f, g) /\ Pairs(g, f)
  BY <1>4, PairsSymmetric DEF Candidate, Pairs
<1>7. CASE k < l
  <2>1. Passed(k, l)
    BY <1>2, <1>4, <1>7 DEF Passed
  <2>2. f.size <= g.size
    BY <1>2, <1>3, <1>7 DEF SortedBySize, Places
  <2>3. Good(k, l)
    BY <1>3, <1>6, <2>2 DEF Good, Candidate, Apart
  <2>4. TheRow(f, g) \in Range(matches)
    BY <1>1, <1>3, <2>1, <2>3 DEF PassedHaveRows
  <2> QED
    BY <2>4 DEF TheRow
<1>8. CASE l < k
  <2>1. Passed(l, k)
    BY <1>2, <1>4, <1>8 DEF Passed
  <2>2. g.size <= f.size
    BY <1>2, <1>3, <1>8 DEF SortedBySize, Places
  <2>3. f.size - g.size <= args.sizeDiffBytes
    BY <1>4, <2>2, <1>1, FilesAtPlaces DEF Candidate, Apart
  <2>4. Good(l, k)
    BY <1>3, <1>6, <2>3 DEF Good
  <2>5. TheRow(g, f) \in Range(matches)
    BY <1>1, <1>3, <2>1, <2>4 DEF PassedHaveRows
  <2> QED
    BY <2>5 DEF TheRow
<1> QED
  BY <1>4, <1>5, <1>7, <1>8

\* Every row of the result is a pair that may be linked, the right way round.
THEOREM RowsAlwaysCandidates == Spec => []RowsAreCandidates
BY ScanInvariant, RowsAreCandidatesHolds, PTL

\* A result that does not say it is truncated has every candidate pair,
\* whatever order the sort left files of one size in.
THEOREM NothingIsMissed == Spec => []NothingMissed
BY ScanInvariant, NothingMissedHolds, PTL

\* Files of different paths give each pair one row at most.
THEOREM OneRowPerPairHolds == Spec => []OneRowPerPair
<1>1. ScanInv => OneRowPerPair
  BY DEF ScanInv
<1> QED
  BY <1>1, ScanInvariant, PTL
=============================================================================
