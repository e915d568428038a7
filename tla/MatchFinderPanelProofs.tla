----------------------- MODULE MatchFinderPanelProofs -----------------------
(***************************************************************************)
(* For every table of results, batch and share: the panel uses the runner  *)
(* as module LinkRunner has it used, so that what is proved of the runner  *)
(* holds under the panel; the rows belong to the run while there is one    *)
(* and say what the share shows; the controls match the state.             *)
(***************************************************************************)
EXTENDS MatchFinderPanel, LinkRunnerProofs, FiniteSetTheorems

-----------------------------------------------------------------------------
\* Rows in the order of the table.
Increasing(s) == \A i, j \in DOMAIN s : i < j => s[i] < s[j]
CanBeOrdered(R) == \E s \in [1 .. Cardinality(R) -> R] : Increasing(s)

LEMMA LargestElement ==
    ASSUME NEW n \in Nat, NEW R \in SUBSET (1 .. n), R # {}
    PROVE  \E m \in R : \A x \in R : x <= m
<1> DEFINE Bad == {S \in FiniteSubsetsOf(1 .. n) :
                     S # {} /\ ~\E m \in S : \A x \in S : x <= m}
<1>1. IsFiniteSet(1 .. n)
  BY FS_Interval
<1>2. R \in FiniteSubsetsOf(1 .. n)
  BY <1>1, FS_Subset DEF FiniteSubsetsOf
<1>3. SUFFICES ASSUME R \in Bad PROVE FALSE
  BY <1>2
<1>4. PICK S \in Bad : \A U \in Bad : <<U, S>> \notin StrictSubsetOrdering(1 .. n)
  <2>1. Bad \subseteq FiniteSubsetsOf(1 .. n) /\ Bad # {}
    BY <1>3
  <2> HIDE DEF Bad
  <2>2. QED
    BY <2>1, FS_StrictSubsetOrderingWellFounded, WFMin
<1>5. PICK e \in S : TRUE
  BY <1>4
<1>6. S \ {e} \in FiniteSubsetsOf(1 .. n) /\ <<S \ {e}, S>> \in StrictSubsetOrdering(1 .. n)
  BY <1>1, <1>4, <1>5, FS_Subset DEF FiniteSubsetsOf, StrictSubsetOrdering
<1>7. S \subseteq Nat
  BY <1>4 DEF FiniteSubsetsOf
<1>8. CASE S \ {e} = {}
  BY <1>4, <1>5, <1>7, <1>8
<1>9. CASE \E m \in S \ {e} : \A x \in S \ {e} : x <= m
  BY <1>4, <1>5, <1>7, <1>9
<1>10. QED
  BY <1>4, <1>6, <1>8, <1>9

LEMMA AllOrdered ==
    ASSUME NEW n \in Nat, NEW R \in SUBSET (1 .. n)
    PROVE  CanBeOrdered(R)
<1> DEFINE Bad == {S \in FiniteSubsetsOf(1 .. n) : ~CanBeOrdered(S)}
<1>1. IsFiniteSet(1 .. n)
  BY FS_Interval
<1>2. R \in FiniteSubsetsOf(1 .. n)
  BY <1>1, FS_Subset DEF FiniteSubsetsOf
<1>3. SUFFICES ASSUME R \in Bad PROVE FALSE
  BY <1>2
<1>4. PICK S \in Bad : \A U \in Bad : <<U, S>> \notin StrictSubsetOrdering(1 .. n)
  <2>1. Bad \subseteq FiniteSubsetsOf(1 .. n) /\ Bad # {}
    BY <1>3
  <2> HIDE DEF Bad
  <2>2. QED
    BY <2>1, FS_StrictSubsetOrderingWellFounded, WFMin
<1>5. S \in SUBSET (1 .. n) /\ S \subseteq Nat /\ IsFiniteSet(S) /\ ~CanBeOrdered(S)
  BY <1>4 DEF FiniteSubsetsOf
<1>6. S # {}
  <2>1. SUFFICES ASSUME S = {} PROVE FALSE
    OBVIOUS
  <2>2. 1 .. Cardinality(S) = {}
    BY <2>1, FS_EmptySet
  <2>3. [x \in {} |-> x] \in [1 .. Cardinality(S) -> S]
    BY <2>2
  <2>4. QED
    BY <1>5, <2>2, <2>3 DEF CanBeOrdered, Increasing
<1>7. PICK m \in S : \A x \in S : x <= m
  BY <1>5, <1>6, LargestElement
<1> DEFINE U == S \ {m}
           c == Cardinality(U)
<1>8. U \in FiniteSubsetsOf(1 .. n) /\ <<U, S>> \in StrictSubsetOrdering(1 .. n)
  BY <1>1, <1>5, FS_Subset DEF FiniteSubsetsOf, StrictSubsetOrdering
<1>9. c \in Nat /\ Cardinality(S) = c + 1
  <2>1. IsFiniteSet(U) /\ c = Cardinality(S) - 1
    BY <1>5, FS_RemoveElement
  <2>2. c \in Nat /\ Cardinality(S) \in Nat
    BY <1>5, <2>1, FS_CardinalityType
  <2>3. QED
    BY <2>1, <2>2
<1>10. PICK s \in [1 .. c -> U] : Increasing(s)
  BY <1>4, <1>8 DEF CanBeOrdered
<1> DEFINE t == [k \in 1 .. c + 1 |-> IF k = c + 1 THEN m ELSE s[k]]
<1> HIDE DEF c, U
<1>11. \A k \in 1 .. c : s[k] \in S /\ s[k] < m
  <2>1. \A x \in U : x \in S /\ x \in Nat /\ m \in Nat /\ x <= m /\ x # m
    BY <1>5, <1>7 DEF U
  <2>2. \A x \in U : x \in S /\ x < m
    BY <2>1
  <2>3. QED
    BY <1>10, <2>2
<1>12. t \in [1 .. c + 1 -> S]
  BY <1>9, <1>11
<1>13. Increasing(t)
  <2>1. SUFFICES ASSUME NEW i \in 1 .. c + 1, NEW j \in 1 .. c + 1, i < j
                 PROVE  t[i] < t[j]
    BY DEF Increasing
  <2>2. i \in 1 .. c /\ t[i] = s[i]
    BY <1>9, <2>1
  <2>3. CASE j = c + 1
    BY <1>11, <2>2, <2>3
  <2>4. CASE j \in 1 .. c
    BY <1>9, <1>10, <2>1, <2>2, <2>4 DEF Increasing
  <2>5. QED
    BY <1>9, <2>1, <2>3, <2>4
<1>14. CanBeOrdered(S)
  BY <1>9, <1>12, <1>13 DEF CanBeOrdered
<1>15. QED
  BY <1>5, <1>14

LEMMA InOrderRight ==
    ASSUME NEW n \in Nat, NEW R \in SUBSET (1 .. n)
    PROVE  /\ InOrder(R) \in Seq(Nat) /\ DOMAIN InOrder(R) = 1 .. Cardinality(R)
           /\ Cardinality(R) \in Nat
           /\ \A i, k \in DOMAIN InOrder(R) : InOrder(R)[i] = InOrder(R)[k] => i = k
           /\ \A k \in DOMAIN InOrder(R) : InOrder(R)[k] \in R
           /\ {InOrder(R)[k] : k \in DOMAIN InOrder(R)} = R
<1> DEFINE s == InOrder(R)
           c == Cardinality(R)
<1>1. IsFiniteSet(R) /\ c \in Nat /\ R \subseteq Nat
  <2>1. IsFiniteSet(1 .. n)
    BY FS_Interval
  <2>2. IsFiniteSet(R)
    BY <2>1, FS_Subset
  <2>3. QED
    BY <2>2, FS_CardinalityType
<1>2. s \in [1 .. c -> R] /\ \A i, j \in 1 .. c : i < j => s[i] < s[j]
  <2>1. PICK f \in [1 .. c -> R] : \A i, j \in 1 .. c : i < j => f[i] < f[j]
    BY AllOrdered DEF CanBeOrdered, Increasing
  <2>2. QED
    BY <2>1 DEF InOrder
<1> HIDE DEF s, c
<1>3. \A i, k \in 1 .. c : s[i] = s[k] => i = k
  <2>1. SUFFICES ASSUME NEW i \in 1 .. c, NEW k \in 1 .. c, s[i] = s[k], i # k
                 PROVE  FALSE
    OBVIOUS
  <2>2. i \in Nat /\ k \in Nat /\ s[i] \in R /\ s[k] \in R
    BY <1>1, <1>2
  <2>3. i < k \/ k < i
    BY <2>1, <2>2
  <2>4. s[i] < s[k] \/ s[k] < s[i]
    BY <1>2, <2>1, <2>3
  <2>5. s[i] \in Nat /\ s[k] \in Nat
    BY <1>1, <2>2
  <2>6. QED
    BY <2>1, <2>4, <2>5
<1>4. s \in Surjection(1 .. c, R)
  <2>1. s \in Injection(1 .. c, R)
    BY <1>2, <1>3 DEF Injection, IsInjective
  <2>2. Cardinality(1 .. c) = c
    BY <1>1, FS_Interval
  <2>3. QED
    BY <1>1, <2>1, <2>2, FS_Injection DEF c
<1>5. s \in Seq(Nat)
  <2>1. s \in [1 .. c -> Nat]
    BY <1>1, <1>2
  <2>2. QED
    BY <1>1, <2>1
<1>6. {s[k] : k \in 1 .. c} = R
  BY <1>2, <1>4 DEF Surjection
<1>7. DOMAIN s = 1 .. c
  BY <1>2
<1>8. QED
  BY <1>1, <1>2, <1>3, <1>5, <1>6, <1>7 DEF s, c

-----------------------------------------------------------------------------
(* The invariant.                                                          *)

RowStatus == {Unstarted} \cup Step \cup Status
RowSet == [match : Job, checked : BOOLEAN, status : RowStatus]
Matches == [r \in DOMAIN rows |-> rows[r].match]

\* The rows are those of a search, and the header and its count sum them up.
Tabled ==
    /\ rows \in Seq(RowSet)
    /\ Matches \in Results \cup {<<>>}
    /\ checkedCount = Cardinality(Checked)
    /\ header = Aggregate(Cardinality(Checked), Len(rows))

\* The controls are what the state allows.
Controlled ==
    panel \in {"shown", "doomed"} =>
        controls = ControlsFor(searching, Running, Pending, checkedCount)

\* The panel lives as long as the connection, and nothing of it after it.  While
\* a message box is open nothing moves: the question is still about the rows
\* that are checked.
Quiet ==
    /\ panel \in {"shown", "doomed", "none", "undefined"}
    /\ panel = "shown" <=> connected
    /\ panel \in {"none", "undefined"} =>
         ~Running /\ ~searching /\ rows = <<>> /\ dialog = "none"
    /\ dialog # "none" =>
         ~searching /\ ~Running /\ Checked # {} /\ picked = InOrder(Checked)
    /\ dialog = "question" => JobsAt(picked) \in JobLists

\* Each job of the run has a row of its own, which says what was last said.
Told ==
    /\ jobRows \in Seq(Nat)
    /\ \A i, k \in DOMAIN jobRows : jobRows[i] = jobRows[k] => i = k
    /\ \A k \in DOMAIN jobRows \cap DOMAIN report :
         jobRows[k] \in DOMAIN rows /\ rows[jobRows[k]].status \in Status =>
            /\ rows[jobRows[k]].status = report[k]
            /\ rows[jobRows[k]].match = before.batch[k]
    /\ Running => rows[jobRows[current]].status = step

PInv == /\ IInv /\ RInv
        /\ Tabled /\ Controlled /\ Quiet /\ RunOwnsRows /\ Told /\ ViewsNotBehind

-----------------------------------------------------------------------------
LEMMA TableFacts ==
    ASSUME Tabled
    PROVE  /\ DOMAIN rows = 1 .. Len(rows) /\ Len(rows) \in Nat
           /\ \A r \in DOMAIN rows : rows[r] \in RowSet
           /\ Checked \in SUBSET (1 .. Len(rows)) /\ IsFiniteSet(Checked)
           /\ Cardinality(Checked) \in Nat
<1>1. /\ DOMAIN rows = 1 .. Len(rows) /\ Len(rows) \in Nat
      /\ \A r \in DOMAIN rows : rows[r] \in RowSet
  BY DEF Tabled
<1>2. Checked \in SUBSET (1 .. Len(rows))
  BY <1>1 DEF Checked
<1>3. IsFiniteSet(Checked)
  <2>1. IsFiniteSet(1 .. Len(rows))
    BY <1>1, FS_Interval
  <2>2. QED
    BY <1>2, <2>1, FS_Subset
<1>4. QED
  BY <1>1, <1>2, <1>3, FS_CardinalityType

\* What is asked about is a batch the runner may be given.
LEMMA PickedBatch ==
    ASSUME Tabled, Checked # {}, ConflictFree(JobsAt(InOrder(Checked)))
    PROVE  JobsAt(InOrder(Checked)) \in JobLists
<1> DEFINE s == InOrder(Checked)
<1>1. /\ DOMAIN rows = 1 .. Len(rows) /\ Len(rows) \in Nat
      /\ Checked \in SUBSET (1 .. Len(rows))
  BY TableFacts
<1>2. {s[k] : k \in DOMAIN s} = Checked
  BY <1>1, InOrderRight
<1> HIDE DEF s
<1>3. PICK m : m = Matches
  OBVIOUS
<1>4. DOMAIN m = DOMAIN rows /\ m \in Results
  <2>1. DOMAIN m = DOMAIN rows
    BY <1>3 DEF Matches
  <2>2. m # <<>>
    <3>1. PICK r : r \in Checked
      OBVIOUS
    <3>2. r \in DOMAIN m
      BY <1>1, <2>1, <3>1
    <3>3. DOMAIN <<>> = {}
      OBVIOUS
    <3>4. QED
      BY <3>2, <3>3
  <2>3. QED
    BY <1>3, <2>1, <2>2 DEF Tabled
<1>5. JobsAt(s) = MatchesAt(m, s)
  BY <1>3 DEF JobsAt, Matches
<1>6. MatchesAt(m, s) # <<>>
  <2>1. DOMAIN MatchesAt(m, s) = DOMAIN s
    BY DEF MatchesAt
  <2>2. DOMAIN s # {}
    BY <1>2
  <2>3. QED
    BY <2>1, <2>2
<1>7. Checked \in SUBSET DOMAIN m
  BY <1>1, <1>4
<1>8. QED
  BY <1>4, <1>5, <1>6, <1>7, BatchesAssumption DEF s

\* Every step of the panel is a step of the runner, or none.
LEMMA PanelDrives == PInv /\ [PanelNext]_allVars => [Next]_vars
<1> SUFFICES ASSUME PInv, [PanelNext]_allVars, ~UNCHANGED vars PROVE Next
  OBVIOUS
<1>1. CASE Confirm
  BY <1>1 DEF PInv, Quiet, Confirm, Next
<1>2. CASE Completes \/ Delivers \/ ServerStep
  BY <1>2 DEF Completes, Delivers, ServerStep, Next
<1>3. CASE OpenPanel \/ Disconnected \/ Flush \/ DeletePanel
  BY <1>3 DEF OpenPanel, Disconnected, Flush, DeletePanel, Next
<1>4. QED
  BY <1>1, <1>2, <1>3 DEF PanelNext, allVars, FinishEdit, Type, OwnAnswer, OthersAnswer,
     Listed, ListFailed, StartClicked, SearchEnds, SearchFailed, SearchFinished,
     CheckRow, ToggleAll, LinkClicked, Dismiss

LEMMA RunnerStep == PInv /\ [PanelNext]_allVars => IInv' /\ RInv'
  BY PanelDrives, InvStep, ReportStep DEF PInv

-----------------------------------------------------------------------------
(* The rows.                                                               *)

\* What the runner says changes nothing in a row but its status.
SameRows ==
    /\ rows' \in Seq(RowSet) /\ DOMAIN rows' = DOMAIN rows /\ Len(rows') = Len(rows)
    /\ \A r \in DOMAIN rows :
         rows'[r].match = rows[r].match /\ rows'[r].checked = rows[r].checked

LEMMA StatusesSet ==
    ASSUME Tabled, SetStatuses, step' \in Step, report' \in Seq(Status)
    PROVE  /\ SameRows /\ Checked' = Checked /\ Matches' = Matches
           /\ \A r \in DOMAIN rows : rows'[r].status = StatusAfter(r)
<1>1. \A r \in DOMAIN rows : StatusAfter(r) \in RowStatus
  <2>1. SUFFICES ASSUME NEW r \in DOMAIN rows PROVE StatusAfter(r) \in RowStatus
    OBVIOUS
  <2>2. rows[r].status \in RowStatus
    BY TableFacts DEF RowSet
  <2>3. CASE \E k \in DOMAIN report' \ DOMAIN report : jobRows'[k] = r
    <3>1. PICK k \in DOMAIN report' : StatusAfter(r) = report'[k]
      BY <2>3 DEF StatusAfter
    <3>2. QED
      BY <3>1 DEF RowStatus
  <2>4. CASE ~\E k \in DOMAIN report' \ DOMAIN report : jobRows'[k] = r
    BY <2>2, <2>4 DEF StatusAfter, RowStatus
  <2>5. QED
    BY <2>3, <2>4
<1>2. /\ DOMAIN rows = 1 .. Len(rows) /\ Len(rows) \in Nat
      /\ \A r \in DOMAIN rows : rows[r] \in RowSet
  BY TableFacts
<1>3. rows' = [r \in DOMAIN rows |-> [rows[r] EXCEPT !.status = StatusAfter(r)]]
  BY DEF SetStatuses
<1>4. \A r \in DOMAIN rows :
        /\ rows'[r] = [rows[r] EXCEPT !.status = StatusAfter(r)]
        /\ rows'[r] \in RowSet /\ rows'[r].status = StatusAfter(r)
        /\ rows'[r].match = rows[r].match /\ rows'[r].checked = rows[r].checked
  BY <1>1, <1>2, <1>3 DEF RowSet
<1>5. DOMAIN rows' = DOMAIN rows
  BY <1>3
<1>6. rows' \in Seq(RowSet) /\ Len(rows') = Len(rows)
  <2>1. rows' \in [1 .. Len(rows) -> RowSet]
    BY <1>2, <1>3, <1>4
  <2>2. QED
    BY <1>2, <2>1
<1>7. Checked' = Checked
  BY <1>4, <1>5 DEF Checked
<1>8. Matches' = Matches
  BY <1>4, <1>5 DEF Matches
<1>9. QED
  BY <1>4, <1>5, <1>6, <1>7, <1>8 DEF SameRows

LEMMA MatchesSet ==
    ASSUME NEW m \in Results \cup {<<>>}, SetMatches(m)
    PROVE  /\ Tabled' /\ Checked' = {}
           /\ \A r \in DOMAIN rows' : rows'[r].status = Unstarted
<1>1. m \in Seq(Job)
  <2>1. <<>> \in Seq(Job)
    OBVIOUS
  <2>2. QED
    BY <2>1, ResultsAssumption
<1>2. DOMAIN m = 1 .. Len(m) /\ Len(m) \in Nat /\ \A k \in DOMAIN m : m[k] \in Job
  BY <1>1
<1>3. rows' = [k \in DOMAIN m |-> Row(m[k])] /\ checkedCount' = 0
  BY DEF SetMatches
<1>4. \A k \in DOMAIN m :
        /\ rows'[k] \in RowSet /\ rows'[k].match = m[k]
        /\ rows'[k].checked = FALSE /\ rows'[k].status = Unstarted
  BY <1>2, <1>3 DEF Row, RowSet, RowStatus
<1>5. DOMAIN rows' = DOMAIN m
  BY <1>3
<1>6. rows' \in Seq(RowSet)
  <2>1. rows' \in [1 .. Len(m) -> RowSet]
    BY <1>2, <1>3, <1>4
  <2>2. QED
    BY <1>2, <2>1
<1>7. Checked' = {}
  BY <1>4, <1>5 DEF Checked
<1>8. Matches' = m
  <2>1. Matches' = [k \in DOMAIN m |-> m[k]]
    BY <1>4, <1>5 DEF Matches
  <2>2. QED
    BY <1>1, <2>1
<1>9. Cardinality({}) = 0
  BY FS_EmptySet
<1>10. header' = Aggregate(Cardinality(Checked'), Len(rows'))
  BY <1>3, <1>7, <1>9 DEF SetMatches, CountChanged
<1>11. QED
  BY <1>3, <1>4, <1>5, <1>6, <1>7, <1>8, <1>9, <1>10 DEF Tabled, Aggregate

LEMMA RowChecked ==
    ASSUME Tabled, NEW r \in DOMAIN rows, CheckRow(r)
    PROVE  /\ Tabled' /\ DOMAIN rows' = DOMAIN rows
           /\ \A q \in DOMAIN rows :
                rows'[q].match = rows[q].match /\ rows'[q].status = rows[q].status
<1>1. /\ DOMAIN rows = 1 .. Len(rows) /\ Len(rows) \in Nat
      /\ \A q \in DOMAIN rows : rows[q] \in RowSet
      /\ IsFiniteSet(Checked) /\ Cardinality(Checked) \in Nat
      /\ checkedCount = Cardinality(Checked)
  BY TableFacts DEF Tabled
<1>2. PICK c \in BOOLEAN : c = ~rows[r].checked
  OBVIOUS
<1>3. rows' = [rows EXCEPT ![r] = [rows[r] EXCEPT !.checked = c]]
  BY <1>2 DEF CheckRow
<1>4. /\ DOMAIN rows' = DOMAIN rows
      /\ \A q \in DOMAIN rows : rows'[q] = IF q = r THEN [rows[r] EXCEPT !.checked = c]
                                                    ELSE rows[q]
  BY <1>1, <1>3
<1>5. \A q \in DOMAIN rows :
        /\ rows'[q] \in RowSet
        /\ rows'[q].match = rows[q].match /\ rows'[q].status = rows[q].status
        /\ rows'[q].checked = IF q = r THEN c ELSE rows[q].checked
  BY <1>1, <1>4 DEF RowSet
<1>6. rows' \in Seq(RowSet) /\ Len(rows') = Len(rows)
  <2>1. rows' \in [1 .. Len(rows) -> RowSet]
    BY <1>1, <1>3, <1>4, <1>5
  <2>2. QED
    BY <1>1, <2>1
<1>7. Checked' = IF c THEN Checked \cup {r} ELSE Checked \ {r}
  BY <1>2, <1>4, <1>5 DEF Checked
<1>8. checkedCount' = Cardinality(Checked')
  <2>1. CASE c
    <3>1. r \notin Checked /\ checkedCount' = checkedCount + 1
      BY <1>1, <1>2, <2>1 DEF Checked, CheckRow, RowSet
    <3>2. QED
      BY <1>1, <1>7, <2>1, <3>1, FS_AddElement
  <2>2. CASE ~c
    <3>1. r \in Checked /\ checkedCount' = checkedCount - 1
      BY <1>1, <1>2, <2>2 DEF Checked, CheckRow, RowSet
    <3>2. QED
      BY <1>1, <1>7, <2>2, <3>1, FS_RemoveElement
  <2>3. QED
    BY <2>1, <2>2
<1>9. Matches' = Matches
  BY <1>4, <1>5 DEF Matches
<1>10. QED
  BY <1>4, <1>5, <1>6, <1>8, <1>9 DEF Tabled, CheckRow, CountChanged, Aggregate

LEMMA AllRowsChecked ==
    ASSUME Tabled, ToggleAll
    PROVE  /\ Tabled' /\ DOMAIN rows' = DOMAIN rows
           /\ \A q \in DOMAIN rows :
                rows'[q].match = rows[q].match /\ rows'[q].status = rows[q].status
<1>1. /\ DOMAIN rows = 1 .. Len(rows) /\ Len(rows) \in Nat
      /\ \A q \in DOMAIN rows : rows[q] \in RowSet
  BY TableFacts
<1>2. PICK c \in BOOLEAN : c = (header # "Checked")
  OBVIOUS
<1>3. rows' = [r \in DOMAIN rows |-> [rows[r] EXCEPT !.checked = c]]
      /\ checkedCount' = IF c THEN Len(rows) ELSE 0
  BY <1>2 DEF ToggleAll, AllChecked
<1>4. DOMAIN rows' = DOMAIN rows
  BY <1>3
<1>5. \A q \in DOMAIN rows :
        /\ rows'[q] \in RowSet /\ rows'[q].checked = c
        /\ rows'[q].match = rows[q].match /\ rows'[q].status = rows[q].status
  BY <1>1, <1>3 DEF RowSet
<1>6. rows' \in Seq(RowSet) /\ Len(rows') = Len(rows)
  <2>1. rows' \in [1 .. Len(rows) -> RowSet]
    BY <1>1, <1>3, <1>5
  <2>2. QED
    BY <1>1, <2>1
<1>7. Checked' = IF c THEN 1 .. Len(rows) ELSE {}
  BY <1>1, <1>4, <1>5 DEF Checked
<1>8. checkedCount' = Cardinality(Checked')
  <2>1. Cardinality(1 .. Len(rows)) = Len(rows)
    BY <1>1, FS_Interval
  <2>2. QED
    BY <1>3, <1>7, <2>1, FS_EmptySet
<1>9. Matches' = Matches
  BY <1>4, <1>5 DEF Matches
<1>10. QED
  BY <1>4, <1>5, <1>6, <1>8, <1>9 DEF Tabled, ToggleAll, CountChanged, Aggregate

-----------------------------------------------------------------------------
(* A completion, as the panel hears of it.                                 *)

Advances(s) ==
    /\ Running /\ report' = Append(report, s)
    /\ \/ jobs' = jobs /\ current' \in DOMAIN jobs /\ step' = "Rename"
       \/ jobs' = <<>>

LEMMA HandlerTells ==
    ASSUME TypeOK, NEW id, NEW F, NEW Q, OnOpSucceeded(id, F, Q) \/ OnOpFailed(id, F, Q)
    PROVE  \/ UNCHANGED runnerVars
           \/ Running /\ UNCHANGED <<jobs, current, report>>
           \/ \E s \in Status : Advances(s)
<1>1. CASE Ignore(F, Q)
  BY <1>1 DEF Ignore
<1>2. CASE ~NotMine(id)
  <2>1. Running
    BY <1>2 DEF NotMine
  <2>2. ASSUME NEW after, React(after, F, Q)
        PROVE  \/ Running /\ UNCHANGED <<jobs, current, report>>
               \/ \E s \in Status : Advances(s)
    <3>1. CASE NextStep(after, F, Q)
      BY <2>1, <3>1 DEF NextStep
    <3>2. CASE after \in Status /\ FinishJob(after, F, Q)
      BY <2>1, <3>2, BatchFacts DEF FinishJob, Advances
    <3>3. QED
      BY <2>2, <3>1, <3>2 DEF React
  <2>3. QED
    BY <1>2, <2>2 DEF OnOpSucceeded, OnOpFailed
<1>3. QED
  BY <1>1, <1>2 DEF OnOpSucceeded, OnOpFailed

LEMMA CompletionTells ==
    ASSUME TypeOK, Completes \/ Delivers
    PROVE  /\ UNCHANGED <<file, aside, before>>
           /\ \/ UNCHANGED runnerVars
              \/ Running /\ UNCHANGED <<jobs, current, report>>
              \/ \E s \in Status : Advances(s)
           /\ UNCHANGED <<panel, dialog, picked, form, searching, checkedCount, header,
                          jobRows>>
           /\ SetStatuses
           /\ \/ Running /\ ~Running' /\ AllFinished
              \/ ~(Running /\ ~Running') /\ UNCHANGED <<locked, controls, viewed>>
<1>1. ASSUME NEW r \in ops, Reply(r) \/ Timeout(r)
      PROVE  /\ UNCHANGED <<file, aside, before>>
             /\ \/ UNCHANGED runnerVars
                \/ Running /\ UNCHANGED <<jobs, current, report>>
                \/ \E s \in Status : Advances(s)
  BY <1>1, HandlerTells DEF Reply, Timeout, shareVars
<1>2. ASSUME NEW id \in posted, Deliver(id)
      PROVE  /\ UNCHANGED <<file, aside, before>>
             /\ \/ UNCHANGED runnerVars
                \/ Running /\ UNCHANGED <<jobs, current, report>>
                \/ \E s \in Status : Advances(s)
  BY <1>2, HandlerTells DEF Deliver, shareVars
<1>3. QED
  BY <1>1, <1>2 DEF Completes, Delivers, Slots

\* Only the question's yes starts a run, and only a completion or the deletion
\* of the panel ends one.
LEMMA RunningKept ==
    ASSUME PInv, [PanelNext]_allVars
    PROVE  \/ Confirm \/ Completes \/ Delivers \/ DeletePanel
           \/ UNCHANGED runnerVars
<1>1. CASE ServerStep
  BY <1>1 DEF ServerStep, Apply, Reject, StrayApplied, StrayDropped
<1>2. CASE OpenPanel \/ Disconnected \/ Flush
  BY <1>2 DEF OpenPanel, Disconnected, Flush, Connect, Disconnect, Teardown, vars
<1>3. CASE UNCHANGED vars
  BY <1>3 DEF vars
<1>4. QED
  BY <1>1, <1>2, <1>3 DEF PanelNext, allVars, FinishEdit, Type, OwnAnswer, OthersAnswer,
     Listed, ListFailed, StartClicked, SearchEnds, SearchFailed, SearchFinished,
     CheckRow, ToggleAll, LinkClicked, Dismiss

\* What the steps do to the table and to the search.
LEMMA TableEffects ==
    ASSUME PInv, [PanelNext]_allVars
    PROVE  \/ UNCHANGED <<table, searching>>
           \/ UNCHANGED table /\ UpdateControls /\ (StartClicked \/ SearchFailed)
           \/ /\ \E m \in Results \cup {<<>>} : SetMatches(m)
              /\ UNCHANGED <<locked, jobRows>>
              /\ StartClicked \/ \E m \in Results : SearchFinished(m)
           \/ (\E r \in DOMAIN rows : CheckRow(r)) \/ ToggleAll
           \/ Confirm \/ Completes \/ Delivers \/ DeletePanel
<1>1. CASE StartClicked
  BY <1>1 DEF StartClicked
<1>2. CASE SearchEnds
  BY <1>2 DEF SearchEnds, SearchFinished, SearchFailed
<1>3. CASE OpenPanel \/ Disconnected \/ Flush \/ ServerStep \/ UNCHANGED allVars
  BY <1>3 DEF OpenPanel, Disconnected, Flush, ServerStep, allVars, panelVars
<1>4. QED
  BY <1>1, <1>2, <1>3 DEF PanelNext, FinishEdit, Type, OwnAnswer, OthersAnswer,
     Listed, ListFailed, LinkClicked, Dismiss

-----------------------------------------------------------------------------
(* Each part of the invariant is kept.                                     *)

LEMMA EmptyTable == 
    ASSUME rows' = <<>>, checkedCount' = 0, header' = "Unchecked"
    PROVE  Tabled'
<1>1. Checked' = {} /\ Matches' = <<>> /\ Len(rows') = 0 /\ rows' \in Seq(RowSet)
  BY DEF Checked, Matches
<1>2. Cardinality({}) = 0
  BY FS_EmptySet
<1>3. QED
  BY <1>1, <1>2 DEF Tabled, Aggregate

LEMMA TabledStep == PInv /\ [PanelNext]_allVars => Tabled'
<1> SUFFICES ASSUME PInv, [PanelNext]_allVars PROVE Tabled'
  OBVIOUS
<1>0. Tabled /\ TypeOK /\ step' \in Step /\ report' \in Seq(Status)
  BY RunnerStep DEF PInv, IInv, TypeOK
<1>1. CASE UNCHANGED table
  BY <1>0, <1>1 DEF table, Tabled, Matches, Checked
<1>2. CASE \E m \in Results \cup {<<>>} : SetMatches(m)
  BY <1>2, MatchesSet
<1>3. CASE (\E r \in DOMAIN rows : CheckRow(r)) \/ ToggleAll
  BY <1>0, <1>3, RowChecked, AllRowsChecked
<1>4. CASE SetStatuses /\ UNCHANGED <<checkedCount, header>>
  BY <1>0, <1>4, StatusesSet DEF Tabled, SameRows
<1>5. CASE Confirm
  BY <1>4, <1>5 DEF Confirm
<1>6. CASE Completes \/ Delivers
  BY <1>0, <1>4, <1>6, CompletionTells
<1>7. CASE DeletePanel
  BY <1>7, EmptyTable DEF DeletePanel
<1>8. QED
  BY <1>1, <1>2, <1>3, <1>5, <1>6, <1>7, TableEffects

LEMMA ControlledStep == PInv /\ [PanelNext]_allVars => Controlled'
<1> SUFFICES ASSUME PInv, [PanelNext]_allVars PROVE Controlled'
  OBVIOUS
<1>0. Controlled /\ Quiet /\ TypeOK
  BY DEF PInv, IInv
<1>1. CASE UpdateControls
  BY <1>1 DEF UpdateControls, Controlled, ControlsFor, Pending, Running
<1>2. CASE UNCHANGED <<panel, controls, searching, validating, checkedCount, jobs>>
  BY <1>0, <1>2 DEF Controlled, ControlsFor, Pending, Running
<1>3. CASE UNCHANGED vars /\ UNCHANGED <<panel, controls, searching, validating, table>>
  BY <1>2, <1>3 DEF vars, runnerVars, table
<1>4. CASE OwnAnswer \/ OthersAnswer
  <2>1. PICK f, own : Listed(f, own) \/ ListFailed(f, own)
    BY <1>4 DEF OwnAnswer, OthersAnswer
  <2>2. CASE UpdateControls
    BY <1>1, <2>2
  <2>3. CASE validating' = validating /\ UNCHANGED controls
    BY <1>3, <2>1, <2>3 DEF Listed, ListFailed
  <2>4. QED
    BY <2>1, <2>2, <2>3 DEF Listed, ListFailed
<1>5. CASE (\E s \in Sides : FinishEdit(s) \/ \E t \in Text \cup {Blank} : Type(s, t))
           \/ LinkClicked \/ Dismiss \/ UNCHANGED allVars
  BY <1>3, <1>5 DEF FinishEdit, Type, LinkClicked, Dismiss, form, allVars, panelVars
<1>6. CASE StartClicked \/ SearchEnds \/ ToggleAll \/ (\E r \in DOMAIN rows : CheckRow(r))
           \/ Confirm
  BY <1>1, <1>6 DEF StartClicked, SearchEnds, SearchFinished, SearchFailed, SetMatches,
     CountChanged, ToggleAll, CheckRow, Confirm
<1>7. CASE Completes \/ Delivers
  <2>1. CASE AllFinished
    BY <1>1, <2>1 DEF AllFinished
  <2>2. CASE ~(Running /\ ~Running') /\ UNCHANGED <<locked, controls, viewed>>
    <3>1. Running' = Running
      BY <1>0, <1>7, <2>2, CompletionTells DEF Advances, Running, runnerVars
    <3>2. UNCHANGED <<panel, searching, validating, checkedCount>>
      BY <1>0, <1>7, CompletionTells DEF form
    <3>3. QED
      BY <1>0, <2>2, <3>1, <3>2 DEF Controlled, ControlsFor, Pending
  <2>3. QED
    BY <1>0, <1>7, <2>1, <2>2, CompletionTells
<1>8. CASE ServerStep
  BY <1>2, <1>8 DEF ServerStep, panelVars, form, table, Apply, Reject, StrayApplied,
     StrayDropped, runnerVars
<1>9. CASE Disconnected
  <2>1. panel = "shown"
    BY <1>0, <1>9 DEF Disconnected, Disconnect, Quiet
  <2>2. UNCHANGED <<controls, searching, validating, checkedCount, jobs>>
    BY <1>9 DEF Disconnected, Disconnect, form, table, runnerVars
  <2>3. QED
    BY <1>0, <2>1, <2>2 DEF Controlled, ControlsFor, Pending, Running
<1>10. CASE Flush
  BY <1>2, <1>10 DEF Flush, Teardown, table, runnerVars, vars
<1>11. CASE DeletePanel
  BY <1>11 DEF DeletePanel, Controlled
<1>12. CASE OpenPanel
  <2>1. /\ controls' = AtRest(Pending') /\ jobs' = jobs
        /\ searching' = searching /\ checkedCount' = checkedCount
        /\ panel = "none"
    BY <1>12 DEF OpenPanel, Connect, runnerVars, table
  <2>2. ~Running /\ ~searching /\ checkedCount = 0
    <3>1. ~Running /\ ~searching /\ rows = <<>>
      BY <1>0, <2>1 DEF Quiet
    <3>2. Checked = {} /\ checkedCount = Cardinality(Checked)
      BY <3>1 DEF PInv, Tabled, Checked
    <3>3. QED
      BY <3>1, <3>2, FS_EmptySet
  <2>3. QED
    BY <2>1, <2>2 DEF Controlled, ControlsFor, AtRest, Running
<1>13. QED
  BY <1>4, <1>5, <1>6, <1>7, <1>8, <1>9, <1>10, <1>11, <1>12 DEF PanelNext

\* The batch of the question, over rows that only changed their status.
LEMMA SameBatch ==
    ASSUME Matches' = Matches, DOMAIN rows' = DOMAIN rows, picked' = picked
    PROVE  JobsAt(picked)' = JobsAt(picked)
<1>1. [r \in DOMAIN rows' |-> rows'[r].match] = [r \in DOMAIN rows |-> rows[r].match]
  BY DEF Matches
<1>2. QED
  BY <1>1 DEF JobsAt, MatchesAt

LEMMA QuietStep == PInv /\ [PanelNext]_allVars => Quiet'
<1> SUFFICES ASSUME PInv, [PanelNext]_allVars PROVE Quiet'
  OBVIOUS
<1>0. Quiet /\ Tabled /\ Controlled /\ TypeOK
  BY DEF PInv, IInv
<1> DEFINE Still == UNCHANGED <<panel, connected, dialog, picked, searching, rows, jobs>>
<1>1. CASE Still
  BY <1>0, <1>1 DEF Quiet, Running, Checked, JobsAt
<1>2. ASSUME dialog = "none", UNCHANGED <<panel, connected, dialog, jobs>>, panel = "shown"
      PROVE  Quiet'
  BY <1>0, <1>2 DEF Quiet
<1>3. CASE StartClicked \/ ToggleAll \/ (\E r \in DOMAIN rows : CheckRow(r))
           \/ \E s \in Sides, t \in Text \cup {Blank} : Type(s, t)
  <2>1. UNCHANGED <<vars, panel, dialog>> /\ Idle
    BY <1>3 DEF StartClicked, ToggleAll, CheckRow, Type
  <2>2. QED
    BY <1>2, <2>1 DEF Idle, vars, runnerVars, sessionVars
<1>4. CASE SearchEnds
  <2>1. UNCHANGED <<vars, panel, dialog>> /\ searching /\ ~searching'
    BY <1>4 DEF SearchEnds, SearchFinished, SearchFailed
  <2>2. dialog = "none" /\ panel \in {"shown", "doomed"}
    BY <1>0, <2>1 DEF Quiet
  <2>3. QED
    BY <1>0, <2>1, <2>2 DEF Quiet, vars, sessionVars
<1>5. CASE LinkClicked
  <2>1. /\ UNCHANGED <<panel, connected, searching, rows, jobs>>
        /\ ~searching /\ ~Running /\ Checked # {} /\ panel = "shown"
        /\ picked' = InOrder(Checked) /\ dialog' = Find(JobsAt(picked'))
    BY <1>5 DEF LinkClicked, Idle, table, vars, runnerVars, sessionVars, CheckedRows
  <2>2. JobsAt(picked)' = JobsAt(picked')
    BY <2>1 DEF JobsAt
  <2>3. dialog' = "question" => JobsAt(picked)' \in JobLists
    BY <1>0, <2>1, <2>2, PickedBatch DEF Find
  <2>4. Checked' = Checked
    BY <2>1 DEF Checked
  <2>5. QED
    BY <1>0, <2>1, <2>3, <2>4 DEF Quiet, Running
<1>6. CASE Dismiss \/ Confirm
  <2>1. dialog' = "none" /\ panel' = "shown" /\ panel = "shown" /\ connected' = connected
    BY <1>6 DEF Dismiss, Confirm, Start, vars, sessionVars
  <2>2. QED
    BY <1>0, <2>1 DEF Quiet
<1>7. CASE Completes \/ Delivers
  <2>1. /\ UNCHANGED <<panel, dialog, picked, searching>> /\ SetStatuses
        /\ ~Running => UNCHANGED runnerVars
    BY <1>0, <1>7, CompletionTells DEF Advances
  <2>2. connected' = connected
    BY <1>7 DEF Completes, Delivers, Reply, Timeout, Deliver
  <2>3. step' \in Step /\ report' \in Seq(Status)
    BY RunnerStep DEF IInv, TypeOK
  <2>4. Matches' = Matches /\ DOMAIN rows' = DOMAIN rows /\ Checked' = Checked
        /\ Len(rows') = Len(rows) /\ rows' \in Seq(RowSet)
    BY <1>0, <2>1, <2>3, StatusesSet DEF SameRows
  <2>5. JobsAt(picked)' = JobsAt(picked)
    BY <2>1, <2>4, SameBatch
  <2>6. ~Running => ~Running'
    BY <2>1 DEF runnerVars, Running
  <2>7. rows = <<>> => rows' = <<>>
    BY <2>1 DEF SetStatuses
  <2>8. QED
    BY <1>0, <2>1, <2>2, <2>4, <2>5, <2>6, <2>7 DEF Quiet
<1>8. CASE ServerStep
  BY <1>1, <1>8 DEF ServerStep, panelVars, table, Apply, Reject, StrayApplied,
     StrayDropped, runnerVars, sessionVars
<1>9. CASE Disconnected
  <2>1. /\ UNCHANGED <<dialog, picked, searching, rows, jobs>>
        /\ panel' = "doomed" /\ ~connected'
    BY <1>9 DEF Disconnected, Disconnect, table, runnerVars
  <2>2. QED
    BY <1>0, <2>1 DEF Quiet, Running, Checked, JobsAt
<1>10. CASE Flush
  BY <1>1, <1>10 DEF Flush, Teardown, table, runnerVars, vars, sessionVars
<1>11. CASE DeletePanel
  <2>1. /\ panel = "doomed" /\ panel' \in {"none", "undefined"} /\ dialog' = "none"
        /\ ~searching' /\ rows' = <<>>
    BY <1>11 DEF DeletePanel
  <2>2. ~Running' /\ connected' = connected
    BY <1>11 DEF DeletePanel, Destroy, Running, vars, runnerVars, sessionVars
  <2>3. QED
    BY <1>0, <2>1, <2>2 DEF Quiet
<1>12. CASE OpenPanel
  <2>1. /\ panel = "none" /\ panel' = "shown" /\ connected' /\ dialog' = dialog
    BY <1>12 DEF OpenPanel, Connect
  <2>2. QED
    BY <1>0, <2>1 DEF Quiet
<1>13. CASE OwnAnswer \/ OthersAnswer
  <2>1. PICK f, own : Listed(f, own) \/ ListFailed(f, own)
    BY <1>13 DEF OwnAnswer, OthersAnswer
  <2>2. QED
    BY <1>1, <2>1 DEF Listed, ListFailed, table, vars, runnerVars, sessionVars
<1>14. CASE (\E s \in Sides : FinishEdit(s)) \/ UNCHANGED allVars
  BY <1>1, <1>14 DEF FinishEdit, table, allVars, panelVars, vars, runnerVars, sessionVars
<1>15. QED
  BY <1>3, <1>4, <1>5, <1>6, <1>7, <1>8, <1>9, <1>10, <1>11, <1>12, <1>13, <1>14
     DEF PanelNext

\* The rows are only replaced while nothing runs: a search that could end
\* began before, and the button does not offer one.
LEMMA ResetAtRest ==
    ASSUME PInv,
           \/ StartClicked /\ ~searching
           \/ \E m \in Results : SearchFinished(m)
    PROVE  ~Running
<1>1. Controlled /\ RunOwnsRows
  BY DEF PInv
<1>2. CASE StartClicked /\ ~searching
  <2>1. /\ controls.canStart /\ ~searching
        /\ controls = ControlsFor(searching, Running, Pending, checkedCount)
    BY <1>1, <1>2 DEF StartClicked, Idle, Controlled
  <2>2. ControlsFor(searching, Running, Pending, checkedCount).canStart
           = (searching \/ (~Running /\ ~Pending))
    BY DEF ControlsFor
  <2>3. searching \/ (~Running /\ ~Pending)
    BY <2>1, <2>2
  <2>4. QED
    BY <2>1, <2>3
<1>3. CASE \E m \in Results : SearchFinished(m)
  BY <1>1, <1>3 DEF SearchFinished, RunOwnsRows
<1>4. QED
  BY <1>2, <1>3

\* The rows of the batch the question was about, in the order of the table.
LEMMA ConfirmedRows ==
    ASSUME PInv, Confirm
    PROVE  /\ SameRows /\ Checked' = Checked
           /\ \A r \in DOMAIN rows : rows'[r].status = StatusAfter(r)
           /\ DOMAIN jobRows' = DOMAIN jobs' /\ jobRows' \in Seq(Nat)
           /\ \A i, k \in DOMAIN jobRows' : jobRows'[i] = jobRows'[k] => i = k
           /\ \A k \in DOMAIN jobRows' :
                jobRows'[k] \in DOMAIN rows /\ rows[jobRows'[k]].match = jobs'[k]
           /\ {jobRows'[k] : k \in DOMAIN jobRows'} = Checked
           /\ jobs' # <<>> /\ report' = <<>> /\ current' = 1 /\ step' = "Rename"
           /\ ~searching
<1>1. /\ Tabled /\ picked = InOrder(Checked) /\ ~searching
  BY DEF PInv, Quiet, Confirm
<1>2. /\ DOMAIN rows = 1 .. Len(rows) /\ Len(rows) \in Nat
      /\ Checked \in SUBSET (1 .. Len(rows))
  BY <1>1, TableFacts
<1>3. /\ picked \in Seq(Nat)
      /\ \A i, k \in DOMAIN picked : picked[i] = picked[k] => i = k
      /\ \A k \in DOMAIN picked : picked[k] \in Checked
      /\ {picked[k] : k \in DOMAIN picked} = Checked
  <2>1. PICK R, n : R = Checked /\ n = Len(rows)
    OBVIOUS
  <2>2. n \in Nat /\ R \in SUBSET (1 .. n)
    BY <1>2, <2>1
  <2> DEFINE s == InOrder(R)
  <2>3. /\ s \in Seq(Nat)
        /\ \A i, k \in DOMAIN s : s[i] = s[k] => i = k
        /\ \A k \in DOMAIN s : s[k] \in R
        /\ {s[k] : k \in DOMAIN s} = R
    BY <2>2, InOrderRight
  <2>4. picked = s
    BY <1>1, <2>1
  <2> HIDE DEF s
  <2>5. QED
    BY <2>1, <2>3, <2>4
<1>4. /\ jobRows' = picked /\ jobs' = JobsAt(picked) /\ jobs' # <<>> /\ SetStatuses
      /\ report' = <<>> /\ current' = 1 /\ step' = "Rename"
  BY DEF Confirm, Start
<1>5. /\ DOMAIN jobs' = DOMAIN picked
      /\ \A k \in DOMAIN picked : picked[k] \in DOMAIN rows => jobs'[k] = rows[picked[k]].match
  BY <1>4 DEF JobsAt, MatchesAt
<1>6. /\ SameRows /\ Checked' = Checked
      /\ \A r \in DOMAIN rows : rows'[r].status = StatusAfter(r)
  <2>1. step' \in Step /\ report' \in Seq(Status)
    BY <1>4 DEF Step
  <2>2. QED
    BY <1>1, <1>4, <2>1, StatusesSet
<1>7. QED
  BY <1>1, <1>2, <1>3, <1>4, <1>5, <1>6

LEMMA OwnedStep == PInv /\ [PanelNext]_allVars => RunOwnsRows'
<1> SUFFICES ASSUME PInv, [PanelNext]_allVars PROVE RunOwnsRows'
  OBVIOUS
<1>0. RunOwnsRows /\ Quiet /\ Tabled /\ TypeOK
  BY DEF PInv, IInv
<1>1. ASSUME UNCHANGED <<table, jobs>>, Running => ~searching' /\ dialog' = "none"
      PROVE  RunOwnsRows'
  BY <1>0, <1>1 DEF RunOwnsRows, table, Running, Checked
<1>2. ASSUME ~Running, UNCHANGED <<locked, jobs>>
      PROVE  RunOwnsRows'
  BY <1>0, <1>2 DEF RunOwnsRows, Running
<1>3. CASE StartClicked \/ \E m \in Results : SearchFinished(m)
  <2>1. UNCHANGED <<locked, jobs, dialog>>
    BY <1>3 DEF StartClicked, SearchFinished, table, vars, runnerVars
  <2>2. CASE StartClicked /\ searching
    BY <1>1, <2>1, <2>2, <1>0 DEF StartClicked, table, RunOwnsRows
  <2>3. CASE ~(StartClicked /\ searching)
    BY <1>2, <1>3, <2>1, <2>3, ResetAtRest
  <2>4. QED
    BY <2>2, <2>3
<1>4. CASE SearchFailed \/ LinkClicked \/ Dismiss
  <2>1. UNCHANGED <<table, jobs>> /\ searching' \in {FALSE, searching}
    BY <1>4 DEF SearchFailed, LinkClicked, Dismiss, vars, runnerVars
  <2>2. Running => dialog' = "none" /\ dialog = "none"
    BY <1>0, <1>4 DEF SearchFailed, LinkClicked, Dismiss, RunOwnsRows
  <2>3. QED
    BY <1>0, <1>1, <2>1, <2>2 DEF RunOwnsRows
<1>5. CASE ToggleAll \/ \E r \in DOMAIN rows : CheckRow(r)
  <2>1. ~locked /\ UNCHANGED <<locked, jobs>>
    BY <1>5 DEF ToggleAll, AllChecked, CheckRow, vars, runnerVars
  <2>2. QED
    BY <1>0, <1>2, <2>1 DEF RunOwnsRows
<1>6. CASE Confirm
  <2>1. locked' = TRUE /\ dialog' = "none" /\ searching' = searching
    BY <1>6 DEF Confirm
  <2>2. QED
    BY <1>6, <2>1, ConfirmedRows DEF RunOwnsRows, Running, SameRows
<1>7. CASE Completes \/ Delivers
  <2>1. /\ UNCHANGED <<dialog, searching, jobRows>> /\ SetStatuses
        /\ \/ Running /\ ~Running' /\ locked' = FALSE
           \/ ~(Running /\ ~Running') /\ locked' = locked
        /\ jobs' = jobs \/ (Running /\ jobs' = <<>>)
    BY <1>0, <1>7, CompletionTells DEF Advances, runnerVars, AllFinished
  <2>2. step' \in Step /\ report' \in Seq(Status)
    BY RunnerStep DEF IInv, TypeOK
  <2>3. SameRows /\ Checked' = Checked
    BY <1>0, <2>1, <2>2, StatusesSet
  <2>4. CASE jobs' = jobs
    BY <1>0, <2>1, <2>3, <2>4 DEF RunOwnsRows, Running, SameRows
  <2>5. CASE Running /\ jobs' = <<>>
    BY <2>1, <2>5 DEF RunOwnsRows, Running
  <2>6. QED
    BY <2>1, <2>4, <2>5
<1>8. CASE DeletePanel
  BY <1>8 DEF DeletePanel, Destroy, RunOwnsRows, Running, vars, runnerVars
<1>9. ASSUME UNCHANGED <<table, searching, dialog, jobs>> PROVE RunOwnsRows'
  BY <1>0, <1>1, <1>9 DEF RunOwnsRows
<1>10. CASE ServerStep \/ Disconnected \/ Flush \/ OpenPanel \/ UNCHANGED allVars
  BY <1>9, <1>10 DEF ServerStep, panelVars, Apply, Reject, StrayApplied, StrayDropped,
     Disconnected, Disconnect, Flush, Teardown, OpenPanel, Connect, allVars, vars, runnerVars,
     table
<1>11. CASE OwnAnswer \/ OthersAnswer
  <2>1. PICK f, own : Listed(f, own) \/ ListFailed(f, own)
    BY <1>11 DEF OwnAnswer, OthersAnswer
  <2>2. QED
    BY <1>9, <2>1 DEF Listed, ListFailed, vars, runnerVars
<1>12. CASE \E s \in Sides : FinishEdit(s) \/ \E t \in Text \cup {Blank} : Type(s, t)
  BY <1>9, <1>12 DEF FinishEdit, Type, vars, runnerVars
<1>13. QED
  BY <1>3, <1>4, <1>5, <1>6, <1>7, <1>8, <1>10, <1>11, <1>12 DEF PanelNext, SearchEnds

\* A message of the runner reaches the row of its job and no other.
LEMMA StatusReaches ==
    ASSUME PInv, Completes \/ Delivers, step' \in Step, report' \in Seq(Status),
           Running' => jobs' = before.batch /\ Len(report') + 1 = current'
    PROVE  Told'
<1>0. /\ Tabled /\ RunOwnsRows /\ TypeOK /\ InStep /\ Told
  BY DEF PInv, IInv, RInv
<1>1. /\ UNCHANGED <<before, jobRows>> /\ SetStatuses
      /\ \/ UNCHANGED runnerVars
         \/ Running /\ UNCHANGED <<jobs, current, report>>
         \/ \E s \in Status : Advances(s)
  BY <1>0, CompletionTells
<1>2. /\ DOMAIN rows' = DOMAIN rows
      /\ \A r \in DOMAIN rows :
           rows'[r].match = rows[r].match /\ rows'[r].status = StatusAfter(r)
  BY <1>0, <1>1, StatusesSet DEF SameRows
<1>3. /\ jobRows \in Seq(Nat) /\ report \in Seq(Status)
      /\ DOMAIN report = 1 .. Len(report) /\ Len(report) \in Nat
      /\ \A i, k \in DOMAIN jobRows : jobRows[i] = jobRows[k] => i = k
  BY <1>0, ReportedFacts DEF Told
<1>4. ASSUME Running
      PROVE  /\ DOMAIN jobRows = DOMAIN jobs /\ current \in DOMAIN jobRows /\ current \in Nat
             /\ \A k \in DOMAIN jobs : jobRows[k] \in DOMAIN rows
                                       /\ rows[jobRows[k]].match = jobs[k]
             /\ jobs = before.batch /\ Len(report) + 1 = current
  BY <1>0, <1>4, BatchFacts DEF RunOwnsRows, InStep
<1>5. CASE UNCHANGED <<jobs, current, report>>
  <2>1. \A r \in DOMAIN rows :
          StatusAfter(r) = IF Running /\ jobRows[current] = r THEN step' ELSE rows[r].status
    BY <1>1, <1>5 DEF StatusAfter, Running
  <2>2. ASSUME NEW k \in DOMAIN jobRows \cap DOMAIN report, jobRows[k] \in DOMAIN rows,
               UNCHANGED runnerVars \/ Running
        PROVE  rows'[jobRows[k]].status = rows[jobRows[k]].status
    <3>1. Running => k # current
      BY <1>3, <1>4
    <3>2. Running => jobRows[k] # jobRows[current]
      BY <1>3, <1>4, <3>1
    <3>3. QED
      BY <1>2, <2>1, <2>2, <3>2
  <2>3. UNCHANGED runnerVars \/ Running
    BY <1>1, <1>5 DEF Advances
  <2>4. Running' => (rows[jobRows[current]])'.status = step'
    BY <1>1, <1>2, <1>4, <1>5, <2>1 DEF Running
  <2>5. QED
    BY <1>0, <1>1, <1>2, <1>5, <2>2, <2>3, <2>4 DEF Told
<1>6. ASSUME NEW s \in Status, Advances(s)
      PROVE  Told'
  <2>1. /\ Running /\ report' = Append(report, s)
        /\ DOMAIN report' = 1 .. current /\ report'[current] = s
        /\ DOMAIN report' \ DOMAIN report = {current}
        /\ \A k \in DOMAIN report : report'[k] = report[k] /\ k # current
        /\ \A k \in DOMAIN report' : k = current \/ k \in DOMAIN report
    BY <1>3, <1>4, <1>6 DEF Advances
  <2>2. \A r \in DOMAIN rows :
          StatusAfter(r) = IF jobRows[current] = r THEN s
                           ELSE IF Running' /\ jobRows[current'] = r THEN step'
                           ELSE rows[r].status
    <3>1. SUFFICES ASSUME NEW r \in DOMAIN rows
                   PROVE  StatusAfter(r) = IF jobRows[current] = r THEN s
                                           ELSE IF Running' /\ jobRows[current'] = r THEN step'
                                           ELSE rows[r].status
      OBVIOUS
    <3>2. CASE jobRows[current] = r
      <4>1. \E k \in DOMAIN report' \ DOMAIN report : jobRows'[k] = r
        BY <1>1, <2>1, <3>2
      <4>2. (CHOOSE k \in DOMAIN report' \ DOMAIN report : jobRows'[k] = r) = current
        BY <1>1, <2>1, <4>1
      <4>3. QED
        BY <2>1, <3>2, <4>1, <4>2 DEF StatusAfter
    <3>3. CASE jobRows[current] # r
      BY <1>1, <2>1, <3>3 DEF StatusAfter
    <3>4. QED
      BY <3>2, <3>3
  <2>3. Running' => /\ current' \in DOMAIN jobRows /\ current' = current + 1
                    /\ \A k \in DOMAIN report' : k # current'
    <3>1. SUFFICES ASSUME Running' PROVE current' \in DOMAIN jobRows /\ current' = current + 1
      BY <1>4, <2>1
    <3>2. jobs' = jobs /\ current' \in DOMAIN jobs
      BY <1>6, <3>1 DEF Advances, Running
    <3>3. Len(report') = current
      BY <1>3, <1>4, <2>1
    <3>4. QED
      BY <1>4, <2>1, <3>1, <3>2, <3>3
  <2>4. ASSUME NEW k \in DOMAIN jobRows, k \in DOMAIN report', jobRows[k] \in DOMAIN rows,
               rows'[jobRows[k]].status \in Status
        PROVE  /\ rows'[jobRows[k]].status = report'[k]
               /\ rows'[jobRows[k]].match = before.batch[k]
    <3>1. CASE k = current
      BY <1>2, <1>4, <2>1, <2>2, <2>4, <3>1
    <3>2. CASE k \in DOMAIN report
      <4>1. jobRows[k] # jobRows[current] /\ (Running' => jobRows[k] # jobRows[current'])
        BY <1>3, <1>4, <2>1, <2>3, <2>4, <3>2
      <4>2. rows'[jobRows[k]].status = rows[jobRows[k]].status
        BY <1>2, <2>2, <2>4, <4>1
      <4>3. QED
        BY <1>0, <1>2, <2>1, <2>4, <3>2, <4>2 DEF Told
    <3>3. QED
      BY <2>1, <2>4, <3>1, <3>2
  <2>5. ASSUME Running'
        PROVE  rows'[jobRows[current']].status = step'
    <3>1. jobRows[current'] # jobRows[current]
      BY <1>3, <1>4, <2>1, <2>3, <2>5
    <3>2. jobRows[current'] \in DOMAIN rows
      BY <1>4, <2>1, <2>3, <2>5
    <3>3. QED
      BY <1>2, <2>2, <2>5, <3>1, <3>2
  <2>6. QED
    BY <1>1, <1>2, <1>3, <2>4, <2>5 DEF Told
<1>7. QED
  BY <1>1, <1>5, <1>6 DEF runnerVars

LEMMA ToldStep == PInv /\ [PanelNext]_allVars => Told'
<1> SUFFICES ASSUME PInv, [PanelNext]_allVars PROVE Told'
  OBVIOUS
<1>0. Told /\ Tabled /\ RunOwnsRows /\ TypeOK
  BY DEF PInv, IInv
<1>1. CASE UNCHANGED table /\ UNCHANGED <<runnerVars, before>>
  BY <1>0, <1>1 DEF Told, table, runnerVars, Running
<1>2. CASE /\ \E m \in Results \cup {<<>>} : SetMatches(m)
           /\ UNCHANGED <<locked, jobRows>>
           /\ StartClicked \/ \E m \in Results : SearchFinished(m)
  <2>1. \A r \in DOMAIN rows' : rows'[r].status \notin Status
    BY <1>2, MatchesSet DEF Unstarted, Status
  <2>2. UNCHANGED <<jobs, jobRows>>
    BY <1>2 DEF StartClicked, SearchFinished, vars, runnerVars
  <2>3. CASE ~Running
    BY <1>0, <2>1, <2>2, <2>3 DEF Told, Running
  <2>4. CASE StartClicked /\ searching
    BY <1>1, <2>4 DEF StartClicked, vars
  <2>5. QED
    BY <1>2, <2>3, <2>4, ResetAtRest
<1>3. CASE (\E r \in DOMAIN rows : CheckRow(r)) \/ ToggleAll
  <2>1. /\ DOMAIN rows' = DOMAIN rows
        /\ \A q \in DOMAIN rows :
             rows'[q].match = rows[q].match /\ rows'[q].status = rows[q].status
    BY <1>0, <1>3, RowChecked, AllRowsChecked
  <2>2. ~Running /\ UNCHANGED <<jobs, jobRows, report, before>>
    BY <1>0, <1>3 DEF CheckRow, ToggleAll, AllChecked, RunOwnsRows, vars, runnerVars
  <2>3. QED
    BY <1>0, <2>1, <2>2 DEF Told, Running
<1>4. CASE Confirm
  <2>1. /\ jobRows' \in Seq(Nat) /\ jobs' # <<>> /\ report' = <<>>
        /\ \A i, k \in DOMAIN jobRows' : jobRows'[i] = jobRows'[k] => i = k
        /\ 1 \in DOMAIN jobRows' /\ current' = 1 /\ step' = "Rename"
        /\ jobRows'[1] \in DOMAIN rows
    <3>1. DOMAIN jobRows' # {}
      <4>1. Checked # {} /\ {jobRows'[k] : k \in DOMAIN jobRows'} = Checked
        BY <1>4, ConfirmedRows DEF PInv, Quiet, Confirm
      <4>2. QED
        BY <4>1
    <3>2. jobRows' \in Seq(Nat)
      BY <1>4, ConfirmedRows
    <3>3. 1 \in DOMAIN jobRows'
      BY <3>1, <3>2
    <3>4. QED
      BY <1>4, <3>2, <3>3, ConfirmedRows
  <2>2. DOMAIN report' = {}
    BY <2>1
  <2>3. StatusAfter(jobRows'[1]) = "Rename"
    BY <2>1, <2>2 DEF StatusAfter, Running
  <2>4. rows'[jobRows'[1]].status = "Rename"
    BY <1>4, <2>1, <2>3, ConfirmedRows
  <2>5. QED
    BY <2>1, <2>2, <2>4 DEF Told
<1>5. CASE Completes \/ Delivers
  <2>1. step' \in Step /\ report' \in Seq(Status)
    BY RunnerStep DEF IInv, TypeOK
  <2>2. Running' => jobs' = before'.batch /\ Len(report') + 1 = current'
    BY RunnerStep DEF RInv, InStep
  <2>3. before' = before
    BY <1>0, <1>5, CompletionTells
  <2>4. QED
    BY <1>5, <2>1, <2>2, <2>3, StatusReaches
<1>6. CASE DeletePanel
  <2>1. jobRows' = <<>> /\ ~Running' /\ <<>> \in Seq(Nat) /\ DOMAIN <<>> = {}
    BY <1>6 DEF DeletePanel, Destroy, Running, vars, runnerVars
  <2>2. QED
    BY <2>1 DEF Told
<1>7. CASE UNCHANGED table
  <2>1. UNCHANGED <<runnerVars, before>> \/ Confirm \/ Completes \/ Delivers \/ DeletePanel
    <3>1. CASE ServerStep \/ OpenPanel \/ Disconnected \/ Flush
      BY <3>1 DEF ServerStep, OpenPanel, Disconnected, Flush, Apply, Reject, StrayApplied,
         StrayDropped, Connect, Disconnect, Teardown, vars
    <3>2. CASE UNCHANGED vars
      BY <3>2 DEF vars
    <3>3. QED
      BY <3>1, <3>2 DEF PanelNext, allVars, FinishEdit, Type, OwnAnswer, OthersAnswer,
         Listed, ListFailed, StartClicked, SearchEnds, SearchFailed, SearchFinished,
         CheckRow, ToggleAll, LinkClicked, Dismiss
  <2>2. QED
    BY <1>1, <1>4, <1>5, <1>6, <1>7, <2>1
<1>8. QED
  BY <1>2, <1>3, <1>4, <1>5, <1>6, <1>7, TableEffects

\* Without a run and with every answer definite nothing reaches the share.
LEMMA ViewsStep == PInv /\ [PanelNext]_allVars => ViewsNotBehind'
<1> SUFFICES ASSUME PInv, [PanelNext]_allVars, panel' = "shown", ~Running', unsure' = {}
             PROVE  viewed' = Share'
  BY DEF ViewsNotBehind
<1>0. ViewsNotBehind /\ Quiet /\ TypeOK /\ OneInFlight /\ LeftoverUnsure
  BY DEF PInv, IInv, RInv
<1>1. CASE UNCHANGED <<panel, jobs, unsure, viewed, file, aside>>
  BY <1>0, <1>1 DEF ViewsNotBehind, Running, Share
<1>2. CASE ServerStep
  <2>1. UNCHANGED <<panel, viewed, jobs, unsure>>
    BY <1>2 DEF ServerStep, panelVars, Apply, Reject, StrayApplied, StrayDropped, runnerVars
  <2>2. ops = {} /\ stray = {}
    BY <1>0, <2>1 DEF OneInFlight, LeftoverUnsure, Running
  <2>3. QED
    BY <1>2, <2>2 DEF ServerStep
<1>3. CASE Completes \/ Delivers
  <2>1. UNCHANGED <<file, aside, panel>>
    BY <1>0, <1>3, CompletionTells
  <2>2. unsure \subseteq unsure'
    BY <1>3 DEF Completes, Delivers, Reply, Timeout, Deliver, GiveUp
  <2>3. CASE Running
    <3>1. AllFinished
      BY <1>0, <1>3, <2>3, CompletionTells
    <3>2. QED
      BY <2>1, <3>1 DEF AllFinished, RefreshViews
  <2>4. CASE ~Running
    <3>1. viewed' = viewed
      BY <1>0, <1>3, <2>4, CompletionTells
    <3>2. QED
      BY <1>0, <2>1, <2>2, <2>4, <3>1 DEF ViewsNotBehind, Share
  <2>5. QED
    BY <2>3, <2>4
<1>4. CASE Confirm
  BY <1>4, ConfirmedRows DEF Running
<1>5. CASE Flush
  <2>1. /\ UNCHANGED <<panel, jobs, viewed, file, aside>> /\ unsure \subseteq unsure'
    BY <1>5 DEF Flush, Teardown, GiveUp, runnerVars, vars, shareVars
  <2>2. QED
    BY <1>0, <2>1 DEF ViewsNotBehind, Running, Share
<1>6. CASE OpenPanel
  BY <1>6 DEF OpenPanel, Connect, shareVars, Share
<1>7. CASE Disconnected \/ DeletePanel
  BY <1>7 DEF Disconnected, DeletePanel
<1>8. CASE OwnAnswer \/ OthersAnswer
  <2>1. PICK f, own : Listed(f, own) \/ ListFailed(f, own)
    BY <1>8 DEF OwnAnswer, OthersAnswer
  <2>2. QED
    BY <1>1, <2>1 DEF Listed, ListFailed, vars, runnerVars, shareVars
<1>9. CASE \/ \E s \in Sides : FinishEdit(s) \/ \E t \in Text \cup {Blank} : Type(s, t)
           \/ StartClicked \/ SearchEnds \/ ToggleAll \/ LinkClicked \/ Dismiss
           \/ (\E r \in DOMAIN rows : CheckRow(r)) \/ UNCHANGED allVars
  BY <1>1, <1>9 DEF FinishEdit, Type, StartClicked, SearchEnds, SearchFinished, SearchFailed,
     ToggleAll, LinkClicked, Dismiss, CheckRow, allVars, panelVars, vars, runnerVars,
     shareVars
<1>10. QED
  BY <1>2, <1>3, <1>4, <1>5, <1>6, <1>7, <1>8, <1>9 DEF PanelNext

LEMMA PanelInvInit == PanelInit => PInv
<1> SUFFICES ASSUME PanelInit PROVE PInv
  OBVIOUS
<1>1. /\ Init /\ panel = "shown" /\ dialog = "none" /\ ~searching /\ connected
      /\ rows = <<>> /\ checkedCount = 0 /\ ~locked /\ header = "Unchecked" /\ jobRows = <<>>
      /\ locked = FALSE /\ controls = AtRest(Pending) /\ viewed = Share /\ ~Running
  BY DEF PanelInit, Init, Running
<1>2. IInv /\ RInv
  BY <1>1, InvInit, ReportInit
<1>3. /\ Checked = {} /\ Matches = <<>> /\ Len(rows) = 0 /\ rows \in Seq(RowSet)
      /\ Cardinality({}) = 0
  BY <1>1, FS_EmptySet DEF Checked, Matches
<1>4. Tabled
  BY <1>1, <1>3 DEF Tabled, Aggregate
<1>5. Controlled
  BY <1>1 DEF Controlled, AtRest, ControlsFor
<1>6. Quiet /\ RunOwnsRows /\ ViewsNotBehind
  BY <1>1 DEF Quiet, RunOwnsRows, ViewsNotBehind
<1>7. Told
  <2>1. <<>> \in Seq(Nat) /\ DOMAIN <<>> = {}
    OBVIOUS
  <2>2. QED
    BY <1>1, <2>1 DEF Told
<1>8. QED
  BY <1>2, <1>4, <1>5, <1>6, <1>7 DEF PInv

LEMMA PanelInvStep == PInv /\ [PanelNext]_allVars => PInv'
  BY RunnerStep, TabledStep, ControlledStep, QuietStep, OwnedStep, ToldStep, ViewsStep
     DEF PInv

-----------------------------------------------------------------------------
(* The types of the form and the controls.                                 *)

Formed ==
    /\ dialog \in {"none", "warning", "question"}
    /\ edit \in Fields /\ saved \in Fields /\ inputs \in 0 .. MaxInputs
    /\ validating \in [Sides -> Folder \cup {Blank}] /\ asked \subseteq Folder
    /\ searching \in BOOLEAN /\ locked \in BOOLEAN
    /\ picked \in Seq(Nat)
    /\ controls \in ControlState
    /\ viewed \in [file : Named, aside : Named]

LEMMA ControlTypes ==
    ASSUME NEW a \in BOOLEAN, NEW b \in BOOLEAN, NEW c \in BOOLEAN, NEW n \in Nat
    PROVE  ControlsFor(a, b, c, n) \in ControlState
  BY DEF ControlsFor, ControlState

LEMMA FormTypes ==
    ASSUME NEW fields \in Fields, NEW awaited \in [Sides -> Folder \cup {Blank}], NEW F
    PROVE  /\ FieldsAfter(fields, awaited, F) \in Fields
           /\ Resolved(awaited, F) \in [Sides -> Folder \cup {Blank}]
           /\ Awaited(fields) \in [Sides -> Folder \cup {Blank}]
           /\ ToAsk(awaited) \subseteq Folder
<1>1. \A s \in Sides : fields[s] # Blank => FolderOf[fields[s]] \in Folder
  BY TextAssumption DEF Fields
<1>2. QED
  BY <1>1 DEF Fields, FieldsAfter, Resolved, Awaited, ToAsk

LEMMA SomeAwaited == NoFields \in [Sides -> Folder \cup {Blank}]
  BY DEF NoFields

LEMMA CountStaysTyped == Tabled' => checkedCount' \in Nat
<1> SUFFICES ASSUME Tabled' PROVE checkedCount' \in Nat
  OBVIOUS
<1>1. DOMAIN rows' = 1 .. Len(rows') /\ Len(rows') \in Nat
  BY DEF Tabled
<1>2. Checked' \in SUBSET (1 .. Len(rows'))
  BY <1>1 DEF Checked
<1>3. IsFiniteSet(Checked')
  <2>1. IsFiniteSet(1 .. Len(rows'))
    BY <1>1, FS_Interval
  <2>2. QED
    BY <1>2, <2>1, FS_Subset
<1>4. QED
  BY <1>3, FS_CardinalityType DEF Tabled

LEMMA FormedInit == PanelInit => Formed
<1> SUFFICES ASSUME PanelInit PROVE Formed
  OBVIOUS
<1>1. edit \in Fields /\ saved \in Fields
  BY SettingsAssumption DEF PanelInit, Fields
<1>2. validating \in [Sides -> Folder \cup {Blank}] /\ asked \subseteq Folder
  <2>1. Awaited(edit) \in [Sides -> Folder \cup {Blank}]
    BY <1>1, SomeAwaited, FormTypes
  <2>2. ToAsk(Awaited(edit)) \subseteq Folder
    BY <1>1, <2>1, FormTypes
  <2>3. QED
    BY <2>1, <2>2 DEF PanelInit
<1>3. controls \in ControlState
  BY ControlTypes DEF PanelInit, AtRest, Pending
<1>4. viewed \in [file : Named, aside : Named]
  BY PanelInvInit DEF PInv, IInv, TypeOK, PanelInit, Share
<1>5. <<>> \in Seq(Nat) /\ 0 \in 0 .. MaxInputs
  BY MaxInputsAssumption
<1>6. QED
  BY <1>1, <1>2, <1>3, <1>4, <1>5 DEF PanelInit, Formed

LEMMA FormedStep == PInv /\ Formed /\ [PanelNext]_allVars => Formed'
<1> SUFFICES ASSUME PInv, Formed, [PanelNext]_allVars PROVE Formed'
  OBVIOUS
<1>0. PInv' /\ TypeOK' /\ Share' \in [file : Named, aside : Named]
  BY PanelInvStep DEF PInv, IInv, TypeOK, Share
<1>1. Pending' \in BOOLEAN /\ Running' \in BOOLEAN /\ checkedCount' \in Nat
  <2>1. Tabled'
    BY <1>0 DEF PInv
  <2>2. checkedCount' \in Nat
    BY <2>1, CountStaysTyped
  <2>3. QED
    BY <2>2 DEF Pending, Running
<1>2. ASSUME searching' \in BOOLEAN, UpdateControls PROVE controls' \in ControlState
  BY <1>1, <1>2, ControlTypes DEF UpdateControls
<1>3. CASE \E s \in Sides : FinishEdit(s) \/ \E t \in Text \cup {Blank} : Type(s, t)
  BY <1>3, MaxInputsAssumption DEF FinishEdit, Type, Formed, Fields, table
<1>4. CASE OwnAnswer \/ OthersAnswer
  <2>1. PICK f, own : Listed(f, own) \/ ListFailed(f, own)
    BY <1>4 DEF OwnAnswer, OthersAnswer
  <2>2. /\ validating' \in [Sides -> Folder \cup {Blank}]
        /\ edit' \in Fields /\ saved' \in Fields /\ asked' \subseteq Folder
    BY <2>1, FormTypes DEF Listed, ListFailed, Formed
  <2>3. /\ UNCHANGED <<dialog, picked, inputs, searching, locked, viewed>>
        /\ UpdateControls \/ UNCHANGED controls
    BY <2>1 DEF Listed, ListFailed, table
  <2>4. QED
    BY <1>2, <2>2, <2>3 DEF Formed
<1>5. CASE StartClicked \/ SearchEnds
  <2>1. /\ UNCHANGED <<dialog, picked, edit, saved, validating, asked, locked, viewed>>
        /\ searching' \in BOOLEAN /\ UpdateControls
        /\ inputs' = inputs \/ (inputs' = inputs + 1 /\ inputs < MaxInputs)
    <3>1. CASE StartClicked /\ searching
      BY <3>1 DEF StartClicked, form, table
    <3>2. CASE StartClicked /\ ~searching
      BY <3>2 DEF StartClicked, SetMatches, CountChanged
    <3>3. CASE SearchFailed
      BY <3>3 DEF SearchFailed, form, table
    <3>4. CASE \E m \in Results : SearchFinished(m)
      BY <3>4 DEF SearchFinished, SetMatches, CountChanged, form
    <3>5. QED
      BY <1>5, <3>1, <3>2, <3>3, <3>4 DEF SearchEnds
  <2>2. QED
    BY <1>2, <2>1, MaxInputsAssumption DEF Formed
<1>6. CASE ToggleAll \/ \E r \in DOMAIN rows : CheckRow(r)
  <2>1. /\ UNCHANGED <<dialog, picked, form, searching, locked, viewed>>
        /\ UpdateControls
    BY <1>6 DEF ToggleAll, CheckRow, CountChanged
  <2>2. QED
    BY <1>2, <2>1 DEF Formed, form
<1>7. CASE LinkClicked
  <2>1. picked' = InOrder(Checked) /\ dialog' \in {"warning", "question"}
    BY <1>7 DEF LinkClicked, CheckedRows, Find
  <2>2. picked' \in Seq(Nat)
    BY <2>1, TableFacts, InOrderRight DEF PInv
  <2>3. QED
    BY <1>7, <2>1, <2>2 DEF LinkClicked, Formed, form, table
<1>8. CASE Dismiss \/ Confirm
  <2>1. /\ dialog' = "none" /\ picked' = <<>>
        /\ UNCHANGED <<form, searching, viewed>>
        /\ locked' \in BOOLEAN
        /\ UpdateControls \/ UNCHANGED controls
    BY <1>8 DEF Dismiss, Confirm, table, Formed
  <2>2. <<>> \in Seq(Nat)
    OBVIOUS
  <2>3. QED
    BY <1>2, <2>1, <2>2 DEF Formed, form
<1>9. CASE Completes \/ Delivers
  <2>1. /\ UNCHANGED <<dialog, picked, form, searching>>
        /\ \/ UpdateControls /\ locked' = FALSE /\ viewed' \in {Share', viewed}
           \/ UNCHANGED <<locked, controls, viewed>>
    BY <1>9, CompletionTells DEF AllFinished, RefreshViews, PInv, IInv
  <2>2. QED
    BY <1>0, <1>2, <2>1 DEF Formed, form
<1>10. CASE ServerStep \/ Disconnected \/ UNCHANGED allVars
  BY <1>10 DEF ServerStep, Disconnected, allVars, panelVars, form, table, Formed
<1>11. CASE Flush
  BY <1>11 DEF Flush, form, table, Formed
<1>12. CASE OpenPanel
  <2>1. PICK F : /\ validating' = Resolved(Awaited(saved), F)
                 /\ edit' = FieldsAfter(saved, Awaited(saved), F)
                 /\ saved' = FieldsAfter(saved, Awaited(saved), F)
                 /\ asked' \subseteq ToAsk(Awaited(saved))
    BY <1>12 DEF OpenPanel
  <2>2. /\ validating' \in [Sides -> Folder \cup {Blank}]
        /\ edit' \in Fields /\ saved' \in Fields /\ asked' \subseteq Folder
    BY <2>1, FormTypes DEF Formed
  <2>3. controls' \in ControlState /\ viewed' = Share'
    <3>1. controls' = AtRest(Pending') /\ viewed' = Share'
      BY <1>12 DEF OpenPanel, Connect, shareVars, Share
    <3>2. AtRest(Pending') \in ControlState
      BY <1>1, ControlTypes DEF AtRest
    <3>3. QED
      BY <3>1, <3>2
  <2>4. QED
    BY <1>0, <1>12, <2>2, <2>3 DEF OpenPanel, Formed, table
<1>13. CASE DeletePanel
  <2>1. controls' \in ControlState
    BY <1>13, ControlTypes DEF DeletePanel, AtRest
  <2>2. /\ edit' \in Fields /\ validating' \in [Sides -> Folder \cup {Blank}]
        /\ <<>> \in Seq(Nat)
    BY <1>13 DEF DeletePanel, NoFields, Fields
  <2>3. QED
    BY <1>13, <2>1, <2>2 DEF DeletePanel, Formed
<1>14. QED
  BY <1>3, <1>4, <1>5, <1>6, <1>7, <1>8, <1>9, <1>10, <1>11, <1>12, <1>13 DEF PanelNext

-----------------------------------------------------------------------------
(* The theorems.                                                           *)

\* Every variable of the panel keeps its type, and those of the runner theirs.
THEOREM PanelTypeCorrect == PanelSpec => []PanelTypeOK
<1>1. PInv /\ Formed => PanelTypeOK
  <2>1. SUFFICES ASSUME PInv, Formed PROVE PanelTypeOK
    OBVIOUS
  <2>2. checkedCount \in Nat /\ rows \in Seq(RowSet)
    BY <2>1, TableFacts DEF PInv, Tabled
  <2>3. header \in {"Unchecked", "Partial", "Checked"}
    BY <2>1 DEF PInv, Tabled, Aggregate
  <2>4. QED
    BY <2>1, <2>2, <2>3 DEF PInv, IInv, Quiet, Told, Formed, PanelTypeOK, RowSet, RowStatus
<1>2. QED
  BY <1>1, PanelInvInit, PanelInvStep, FormedInit, FormedStep, PTL DEF PanelSpec

\* Under the panel the runner is used as its own module has it used: only
\* batches without a conflict, one at a time; so every theorem about the
\* runner holds of the program.
THEOREM PanelDrivesRunner == PanelSpec => DrivesRunner
<1>1. PanelInit => Init
  BY DEF PanelInit
<1>2. QED
  BY <1>1, PanelInvInit, PanelInvStep, PanelDrives, PTL DEF PanelSpec, DrivesRunner, Spec

\* While a batch runs the rows are its own.
THEOREM RunAlwaysOwnsRows == PanelSpec => []RunOwnsRows
<1>1. PInv => RunOwnsRows
  BY DEF PInv
<1>2. QED
  BY <1>1, PanelInvInit, PanelInvStep, PTL DEF PanelSpec

\* The message a row ends with is what the share shows of its two files.
THEOREM StatusesAlwaysTruthful == PanelSpec => []StatusesTruthful
<1>1. PInv => StatusesTruthful
  BY DEF PInv, Told, StatusesTruthful, RInv, Reported
<1>2. QED
  BY <1>1, PanelInvInit, PanelInvStep, PTL DEF PanelSpec

\* What the user sees enabled, and the header's box, are what the state allows.
THEOREM ControlsAlwaysMatch == PanelSpec => []ControlsMatch
<1>1. PInv => ControlsMatch
  BY DEF PInv, Tabled, Controlled, ControlsMatch
<1>2. QED
  BY <1>1, PanelInvInit, PanelInvStep, PTL DEF PanelSpec

\* After a run the views are as fresh as the share.
THEOREM ViewsNeverBehind == PanelSpec => []ViewsNotBehind
<1>1. PInv => ViewsNotBehind
  BY DEF PInv
<1>2. QED
  BY <1>1, PanelInvInit, PanelInvStep, PTL DEF PanelSpec
=============================================================================
