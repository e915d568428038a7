------------------------- MODULE MatchSearcherProofs -------------------------
(***************************************************************************)
(* Proofs about MatchSearcher for every share, every search and every user *)
(* who starts and cancels searches, also from handlers: types, that no     *)
(* directory is asked for twice and the counts add up, that a search never *)
(* waits for an answer that does not come, one end for each start, and     *)
(* that a search which finishes is complete.                               *)
(***************************************************************************)
EXTENDS MatchSearcher, FiniteSetTheorems, SequenceTheorems, TLAPS

Call == {"pump", "progress", "end"}

\* m_inPump says whether pumpListings is under way, and it is so once at most.
Stack(c, pumping) ==
    /\ c \in Seq(Call)
    /\ pumping \in BOOLEAN
    /\ pumping <=> \E k \in 1 .. Len(c) : c[k] = "pump"
    /\ \A k, l \in 1 .. Len(c) : c[k] = "pump" /\ c[l] = "pump" => k = l

\* pumpListings is under way, or will be called when a handler returns.
Busy(c) == \E k \in 1 .. Len(c) : c[k] \in {"pump", "progress"}

\* The books of the traversal; asked may outlive a search.
Ledger ==
    /\ IsFiniteSet(visited) /\ IsFiniteSet(inFlight)
    /\ running =>
        /\ asked \subseteq visited /\ ToSet(queue) \subseteq visited
        /\ inFlight \subseteq asked
        /\ \A d \in visited : SidesOf(d) # {}
    /\ ~running => /\ visited = {} /\ queue = <<>> /\ inFlight = {}
                   /\ foldersListed = 0 /\ folderErrors = 0
    /\ EachFolderOnce

\* A search that runs has somebody who will go on with it.
Slots ==
    running =>
        \/ Busy(calls)
        \/ inFlight # {} /\ (queue # <<>> => Cardinality(inFlight) = MaxListsInFlight)

InWire == running => \A d \in inFlight : \E r \in wire : r.path = d /\ r.owner = starts

IInv == TypeOK /\ Stack(calls, inPump) /\ Ledger /\ Slots /\ InWire /\ OneEndPerStart

-----------------------------------------------------------------------------
(* The stack of calls.                                                     *)

LEMMA PushFacts ==
    ASSUME NEW c \in Seq(Call), NEW x \in Call
    PROVE  /\ <<x>> \o c \in Seq(Call) /\ Len(<<x>> \o c) = Len(c) + 1
           /\ (<<x>> \o c)[1] = x
           /\ \A k \in 1 .. Len(c) : (<<x>> \o c)[k + 1] = c[k]
           /\ \A k \in 1 .. Len(c) + 1 : k = 1 \/ (<<x>> \o c)[k] = c[k - 1]
<1>1. <<x>> \in Seq(Call) /\ Len(<<x>>) = 1 /\ <<x>>[1] = x
  OBVIOUS
<1>2. Len(c) \in Nat
  OBVIOUS
<1>3. /\ <<x>> \o c \in Seq(Call) /\ Len(<<x>> \o c) = 1 + Len(c)
      /\ \A i \in 1 .. 1 + Len(c) : (<<x>> \o c)[i] = IF i <= 1 THEN <<x>>[i] ELSE c[i - 1]
  BY <1>1, ConcatProperties
<1> QED
  BY <1>1, <1>2, <1>3

LEMMA PushStack ==
    ASSUME NEW c, NEW b, Stack(c, b), NEW x \in Call, x = "pump" => ~b
    PROVE  /\ Stack(<<x>> \o c, b \/ x = "pump")
           /\ x \in {"pump", "progress"} \/ Busy(c) => Busy(<<x>> \o c)
<1> DEFINE s == <<x>> \o c
<1>1. c \in Seq(Call) /\ Len(c) \in Nat
  BY DEF Stack
<1>2. /\ s \in Seq(Call) /\ Len(s) = Len(c) + 1 /\ s[1] = x
      /\ \A k \in 1 .. Len(c) : s[k + 1] = c[k]
      /\ \A k \in 1 .. Len(c) + 1 : k = 1 \/ s[k] = c[k - 1]
  BY <1>1, PushFacts
<1> HIDE DEF s
<1>3. (b \/ x = "pump") \in BOOLEAN
  BY DEF Stack
<1>4. (b \/ x = "pump") <=> \E k \in 1 .. Len(s) : s[k] = "pump"
  <2>1. ASSUME b PROVE \E k \in 1 .. Len(s) : s[k] = "pump"
    <3>1. PICK k \in 1 .. Len(c) : c[k] = "pump"
      BY <2>1 DEF Stack
    <3>2. k + 1 \in 1 .. Len(s) /\ s[k + 1] = "pump"
      BY <1>1, <1>2, <3>1
    <3> QED
      BY <3>2
  <2>2. ASSUME x = "pump" PROVE \E k \in 1 .. Len(s) : s[k] = "pump"
    BY <1>1, <1>2, <2>2
  <2>3. ASSUME NEW k \in 1 .. Len(s), s[k] = "pump" PROVE b \/ x = "pump"
    <3>1. k = 1 \/ (k - 1 \in 1 .. Len(c) /\ c[k - 1] = "pump")
      BY <1>1, <1>2, <2>3
    <3> QED
      BY <1>2, <2>3, <3>1 DEF Stack
  <2> QED
    BY <2>1, <2>2, <2>3
<1>5. ASSUME NEW k \in 1 .. Len(s), NEW l \in 1 .. Len(s), s[k] = "pump", s[l] = "pump"
      PROVE  k = l
  <2>1. CASE b
    <3>1. x # "pump"
      BY <2>1
    <3>2. /\ k - 1 \in 1 .. Len(c) /\ c[k - 1] = "pump"
          /\ l - 1 \in 1 .. Len(c) /\ c[l - 1] = "pump"
      BY <1>1, <1>2, <1>5, <3>1
    <3>3. k - 1 = l - 1
      BY <3>2 DEF Stack
    <3> QED
      BY <1>1, <1>2, <3>3
  <2>2. CASE ~b
    <3>1. \A i \in 1 .. Len(c) : c[i] # "pump"
      BY <2>2 DEF Stack
    <3> QED
      BY <1>1, <1>2, <1>5, <3>1
  <2> QED
    BY <2>1, <2>2 DEF Stack
<1>6. ASSUME x \in {"pump", "progress"} \/ Busy(c) PROVE Busy(s)
  <2>1. CASE x \in {"pump", "progress"}
    BY <1>1, <1>2, <2>1 DEF Busy
  <2>2. CASE Busy(c)
    <3>1. PICK k \in 1 .. Len(c) : c[k] \in {"pump", "progress"}
      BY <2>2 DEF Busy
    <3>2. k + 1 \in 1 .. Len(s) /\ s[k + 1] \in {"pump", "progress"}
      BY <1>1, <1>2, <3>1
    <3> QED
      BY <3>2 DEF Busy
  <2> QED
    BY <1>6, <2>1, <2>2
<1>7. Stack(s, b \/ x = "pump")
  BY <1>2, <1>3, <1>4, <1>5 DEF Stack
<1> QED
  BY <1>6, <1>7 DEF s

LEMMA PopStack ==
    ASSUME NEW c, NEW b, Stack(c, b), c # <<>>
    PROVE  /\ Stack(Tail(c), b /\ Head(c) # "pump")
           /\ Head(c) \in Call
           /\ Head(c) = "end" /\ Busy(c) => Busy(Tail(c))
<1> DEFINE t == Tail(c)
<1>1. c \in Seq(Call) /\ Len(c) \in Nat /\ Len(c) > 0 /\ Head(c) = c[1] /\ Head(c) \in Call
  BY DEF Stack
<1>2. /\ t \in Seq(Call) /\ Len(t) = Len(c) - 1
      /\ \A k \in 1 .. Len(t) : t[k] = c[k + 1]
  BY <1>1, HeadTailProperties
<1> HIDE DEF t
<1>3. (b /\ Head(c) # "pump") \in BOOLEAN
  BY DEF Stack
<1>4. (b /\ Head(c) # "pump") <=> \E k \in 1 .. Len(t) : t[k] = "pump"
  <2>1. ASSUME b, Head(c) # "pump" PROVE \E k \in 1 .. Len(t) : t[k] = "pump"
    <3>1. PICK k \in 1 .. Len(c) : c[k] = "pump"
      BY <2>1 DEF Stack
    <3>2. k - 1 \in 1 .. Len(t) /\ t[k - 1] = "pump"
      BY <1>1, <1>2, <2>1, <3>1
    <3> QED
      BY <3>2
  <2>2. ASSUME NEW k \in 1 .. Len(t), t[k] = "pump" PROVE b /\ Head(c) # "pump"
    <3>1. k + 1 \in 1 .. Len(c) /\ c[k + 1] = "pump" /\ 1 \in 1 .. Len(c) /\ k + 1 # 1
      BY <1>1, <1>2, <2>2
    <3> QED
      BY <1>1, <3>1 DEF Stack
  <2> QED
    BY <2>1, <2>2
<1>5. ASSUME NEW k \in 1 .. Len(t), NEW l \in 1 .. Len(t), t[k] = "pump", t[l] = "pump"
      PROVE  k = l
  <2>1. /\ k + 1 \in 1 .. Len(c) /\ c[k + 1] = "pump"
        /\ l + 1 \in 1 .. Len(c) /\ c[l + 1] = "pump"
    BY <1>1, <1>2, <1>5
  <2>2. k + 1 = l + 1
    BY <2>1 DEF Stack
  <2> QED
    BY <1>1, <1>2, <2>2
<1>6. ASSUME Head(c) = "end", Busy(c) PROVE Busy(t)
  <2>1. PICK k \in 1 .. Len(c) : c[k] \in {"pump", "progress"}
    BY <1>6 DEF Busy
  <2>2. k - 1 \in 1 .. Len(t) /\ t[k - 1] \in {"pump", "progress"}
    BY <1>1, <1>2, <1>6, <2>1
  <2> QED
    BY <2>2 DEF Busy
<1>7. Stack(t, b /\ Head(c) # "pump")
  BY <1>2, <1>3, <1>4, <1>5 DEF Stack
<1> QED
  BY <1>1, <1>6, <1>7 DEF t

\* After pumpListings was called it is under way.
LEMMA PumpStack ==
    ASSUME NEW c, Stack(c, inPump), Pump(c)
    PROVE  Stack(calls', inPump') /\ Busy(calls')
<1>1. CASE inPump /\ calls' = c /\ inPump' = inPump
  <2>1. PICK k \in 1 .. Len(c) : c[k] = "pump"
    BY <1>1 DEF Stack
  <2> QED
    BY <1>1, <2>1 DEF Busy
<1>2. CASE ~inPump /\ calls' = <<"pump">> \o c /\ inPump' = TRUE
  <2>1. "pump" \in Call
    BY DEF Call
  <2>2. Stack(<<"pump">> \o c, inPump \/ "pump" = "pump") /\ Busy(<<"pump">> \o c)
    BY <1>2, <2>1, PushStack
  <2>3. inPump' = (inPump \/ "pump" = "pump")
    BY <1>2
  <2> QED
    BY <1>2, <2>2, <2>3
<1> QED
  BY <1>1, <1>2 DEF Pump

-----------------------------------------------------------------------------
(* The queue.                                                              *)

LEMMA TailOfQueue ==
    ASSUME NEW q \in Seq(Folders), IsInjective(q), q # <<>>
    PROVE  /\ Head(q) \in ToSet(q) /\ Head(q) \in Folders
           /\ Tail(q) \in Seq(Folders) /\ IsInjective(Tail(q))
           /\ ToSet(Tail(q)) = ToSet(q) \ {Head(q)}
           /\ Len(Tail(q)) = Len(q) - 1
<1> DEFINE t == Tail(q)
<1>1. /\ Len(q) \in Nat /\ Len(q) > 0 /\ DOMAIN q = 1 .. Len(q)
      /\ Head(q) = q[1] /\ Head(q) \in Folders
  OBVIOUS
<1>2. /\ t \in Seq(Folders) /\ Len(t) = Len(q) - 1 /\ DOMAIN t = 1 .. Len(t)
      /\ \A k \in 1 .. Len(t) : t[k] = q[k + 1]
  BY HeadTailProperties
<1> HIDE DEF t
<1>3. \A i, j \in 1 .. Len(q) : q[i] = q[j] => i = j
  BY <1>1 DEF IsInjective
<1>4. IsInjective(t)
  <2>1. SUFFICES ASSUME NEW i \in 1 .. Len(t), NEW j \in 1 .. Len(t), t[i] = t[j]
                 PROVE  i = j
    BY <1>2 DEF IsInjective
  <2>2. i + 1 \in 1 .. Len(q) /\ j + 1 \in 1 .. Len(q) /\ q[i + 1] = q[j + 1]
    BY <1>1, <1>2, <2>1
  <2>3. i + 1 = j + 1
    BY <1>3, <2>2
  <2> QED
    BY <1>1, <1>2, <2>3
<1>5. ASSUME NEW x \in ToSet(t) PROVE x \in ToSet(q) \ {Head(q)}
  <2>1. PICK k \in 1 .. Len(t) : x = t[k]
    BY <1>2 DEF ToSet
  <2>2. k + 1 \in 1 .. Len(q) /\ x = q[k + 1] /\ k + 1 # 1 /\ 1 \in 1 .. Len(q)
    BY <1>1, <1>2, <2>1
  <2>3. q[k + 1] # q[1]
    BY <1>3, <2>2
  <2> QED
    BY <1>1, <2>2, <2>3 DEF ToSet
<1>6. ASSUME NEW x \in ToSet(q), x # Head(q) PROVE x \in ToSet(t)
  <2>1. PICK k \in 1 .. Len(q) : x = q[k]
    BY <1>1 DEF ToSet
  <2>2. k # 1
    BY <1>1, <1>6, <2>1
  <2>3. k - 1 \in 1 .. Len(t) /\ t[k - 1] = x
    BY <1>1, <1>2, <2>1, <2>2
  <2> QED
    BY <1>2, <2>3 DEF ToSet
<1>7. Head(q) \in ToSet(q)
  BY <1>1 DEF ToSet
<1>8. ToSet(t) = ToSet(q) \ {Head(q)}
  BY <1>5, <1>6
<1> QED
  BY <1>1, <1>2, <1>4, <1>7, <1>8 DEF t

\* New directories, none of which was queued, go to the end.
LEMMA Appended ==
    ASSUME NEW q \in Seq(Folders), IsInjective(q),
           NEW T, T \subseteq Folders, IsFiniteSet(T), T \cap ToSet(q) = {},
           NEW n \in SetToSeqs(T)
    PROVE  /\ q \o n \in Seq(Folders) /\ IsInjective(q \o n)
           /\ ToSet(q \o n) = ToSet(q) \cup T
           /\ Len(q \o n) = Len(q) + Cardinality(T)
<1> DEFINE r == q \o n
<1>1. Cardinality(T) \in Nat
  BY FS_CardinalityType
<1>2. /\ n \in [1 .. Cardinality(T) -> T]
      /\ \A i, j \in 1 .. Cardinality(T) : i # j => n[i] # n[j]
  BY DEF SetToSeqs
<1>3. n \in Seq(Folders) /\ Len(n) = Cardinality(T)
  <2>1. n \in [1 .. Cardinality(T) -> Folders]
    BY <1>2
  <2> QED
    BY <1>1, <2>1
<1>4. /\ r \in Seq(Folders) /\ Len(r) = Len(q) + Cardinality(T)
      /\ \A i \in 1 .. Len(r) : r[i] = IF i <= Len(q) THEN q[i] ELSE n[i - Len(q)]
  BY <1>3, ConcatProperties
<1>5. Len(q) \in Nat /\ DOMAIN q = 1 .. Len(q) /\ DOMAIN r = 1 .. Len(r)
  BY <1>4
<1> HIDE DEF r
<1>6. \A i, j \in 1 .. Len(q) : q[i] = q[j] => i = j
  BY <1>5 DEF IsInjective
<1>7. ASSUME NEW i \in 1 .. Len(r)
      PROVE  \/ i <= Len(q) /\ i \in 1 .. Len(q) /\ r[i] = q[i] /\ r[i] \in ToSet(q)
             \/ /\ i > Len(q) /\ i - Len(q) \in 1 .. Cardinality(T)
                /\ r[i] = n[i - Len(q)] /\ r[i] \in T
  <2>1. CASE i <= Len(q)
    <3>1. i \in 1 .. Len(q) /\ r[i] = q[i]
      BY <1>4, <1>5, <2>1
    <3> QED
      BY <1>5, <2>1, <3>1 DEF ToSet
  <2>2. CASE ~(i <= Len(q))
    <3>1. i > Len(q) /\ i - Len(q) \in 1 .. Cardinality(T) /\ r[i] = n[i - Len(q)]
      BY <1>1, <1>4, <1>5, <2>2
    <3> QED
      BY <1>2, <3>1
  <2> QED
    BY <2>1, <2>2
<1>8. ToSet(r) \subseteq ToSet(q) \cup T
  BY <1>5, <1>7 DEF ToSet
<1>9. IsInjective(r)
  <2>1. SUFFICES ASSUME NEW i \in 1 .. Len(r), NEW j \in 1 .. Len(r), r[i] = r[j]
                 PROVE  i = j
    BY <1>5 DEF IsInjective
  <2>2. CASE i <= Len(q) /\ j <= Len(q)
    BY <1>6, <1>7, <2>1, <2>2
  <2>3. CASE i > Len(q) /\ j > Len(q)
    <3>1. /\ i - Len(q) \in 1 .. Cardinality(T) /\ j - Len(q) \in 1 .. Cardinality(T)
          /\ n[i - Len(q)] = n[j - Len(q)]
      BY <1>5, <1>7, <2>1, <2>3
    <3>2. i - Len(q) = j - Len(q)
      BY <1>2, <3>1
    <3> QED
      BY <1>5, <3>2
  <2>4. CASE (i <= Len(q) /\ j > Len(q)) \/ (i > Len(q) /\ j <= Len(q))
    <3>1. r[i] \in T \cap ToSet(q)
      BY <1>5, <1>7, <2>1, <2>4
    <3> QED
      BY <3>1
  <2> QED
    BY <1>5, <2>2, <2>3, <2>4
<1>10. T \subseteq ToSet(r)
  <2>1. n \in Surjection(1 .. Cardinality(T), T)
    <3>1. n \in Injection(1 .. Cardinality(T), T)
      BY <1>2 DEF Injection, IsInjective
    <3>2. Cardinality(1 .. Cardinality(T)) = Cardinality(T)
      BY <1>1, FS_Interval
    <3> QED
      BY <3>1, <3>2, FS_Injection
  <2>2. SUFFICES ASSUME NEW x \in T PROVE x \in ToSet(r)
    OBVIOUS
  <2>3. PICK i \in 1 .. Cardinality(T) : n[i] = x
    BY <2>1 DEF Surjection
  <2>4. Len(q) + i \in 1 .. Len(r) /\ r[Len(q) + i] = x
    BY <1>1, <1>4, <1>5, <2>3
  <2> QED
    BY <1>5, <2>4 DEF ToSet
<1>11. ToSet(q) \subseteq ToSet(r)
  <2>1. \A i \in 1 .. Len(q) : i \in 1 .. Len(r) /\ r[i] = q[i]
    BY <1>1, <1>4, <1>5
  <2> QED
    BY <1>5, <2>1 DEF ToSet
<1> QED
  BY <1>4, <1>8, <1>9, <1>10, <1>11 DEF r

-----------------------------------------------------------------------------
(* What several actions do.                                                *)

\* Nothing the traversal knows changes.
LEMMA Quiet ==
    ASSUME IInv,
           UNCHANGED <<options, running, traversal, starts, open, asked>>,
           Stack(calls', inPump'), Slots', InWire',
           wire' \subseteq Requests, share' \subseteq Objects
    PROVE  IInv'
<1>1. TypeOK'
  BY DEF IInv, TypeOK, traversal, Stack, Call
<1>2. Ledger'
  BY DEF IInv, Ledger, traversal, EachFolderOnce, SidesOf
<1>3. OneEndPerStart'
  BY DEF IInv, OneEndPerStart
<1> QED
  BY <1>1, <1>2, <1>3 DEF IInv

\* The search is over.
LEMMA Over ==
    ASSUME IInv, ResetState, running' = FALSE, open' = 0, UNCHANGED options,
           Stack(calls', inPump'), wire' \subseteq Requests, share' \subseteq Objects,
           starts' \in 0 .. MaxStarts, asked' \subseteq Folders
    PROVE  IInv'
<1>1. TypeOK'
  <2>1. visited' = {} /\ queue' = <<>> /\ inFlight' = {} /\ files' = {}
    BY DEF ResetState
  <2>2. foldersListed' \in Nat /\ folderErrors' \in Nat
    BY DEF ResetState
  <2>3. queue' \in Seq(Folders)'
    BY <2>1
  <2>4. calls' \in Seq({"pump", "progress", "end"}) /\ inPump' \in BOOLEAN
    BY DEF Stack, Call
  <2>5. options' \in Options /\ running' \in BOOLEAN
    BY DEF IInv, TypeOK
  <2>6. Cardinality(inFlight') <= MaxListsInFlight
    BY <2>1, FS_EmptySet, MaxListsInFlightAssumption
  <2> QED
    BY <2>1, <2>2, <2>3, <2>4, <2>5, <2>6 DEF TypeOK
<1>2. IsFiniteSet({}) /\ Cardinality({}) = 0
  BY FS_EmptySet
<1>3. IsInjective(queue') /\ ToSet(queue') = {}
  BY DEF ResetState, IsInjective, ToSet
<1>4. EachFolderOnce'
  BY <1>2, <1>3 DEF ResetState, EachFolderOnce
<1>5. Ledger'
  BY <1>2, <1>4 DEF Ledger, ResetState
<1> QED
  BY <1>1, <1>5 DEF IInv, Slots, InWire, OneEndPerStart

\* A handler of a signal is called, with c under way.
LEMMA PushHandler ==
    ASSUME NEW c, Stack(c, inPump'), NEW x \in {"progress", "end"}, calls' = <<x>> \o c
    PROVE  Stack(calls', inPump') /\ (x = "progress" => Busy(calls'))
<1>1. x \in Call /\ x # "pump"
  BY DEF Call
<1>2. (inPump' \/ x = "pump") = inPump'
  BY <1>1 DEF Stack
<1>3. /\ Stack(<<x>> \o c, inPump' \/ x = "pump")
      /\ x \in {"pump", "progress"} \/ Busy(c) => Busy(<<x>> \o c)
  BY <1>1, PushStack
<1> QED
  BY <1>2, <1>3

LEMMA Ends ==
    ASSUME IInv, running, NEW kind, NEW c, End(kind, c), Stack(c, inPump'),
           UNCHANGED options, wire' \subseteq Requests, share' \subseteq Objects,
           starts' \in 0 .. MaxStarts, asked' \subseteq Folders
    PROVE  IInv'
<1>1. running' = FALSE /\ open' = 0 /\ ResetState
  BY DEF IInv, OneEndPerStart, End
<1>2. Stack(calls', inPump')
  BY PushHandler DEF End
<1> QED
  BY <1>1, <1>2, Over

\* A directory that is no root could not be listed: one more error and, if it
\* was in flight, one slot more.
LEMMA FailsWhenListed ==
    ASSUME IInv, NEW d, NEW owner, OnDirectoryListFailed(d, owner, <<>>), calls = <<>>,
           UNCHANGED <<options, inPump, starts, asked>>,
           wire' \subseteq Requests, share' \subseteq Objects,
           \A r \in wire : r.path # d => r \in wire'
    PROVE  IInv'
<1>1. Stack(<<>>, inPump') /\ running /\ d \in inFlight
  BY DEF IInv, OnDirectoryListFailed
<1>2. CASE End("failed", <<>>)
  BY <1>1, <1>2, Ends DEF IInv, TypeOK
<1>3. CASE /\ inFlight' = inFlight \ {d}
           /\ folderErrors' = folderErrors + 1
           /\ UNCHANGED <<running, visited, queue, files, foldersListed, open>>
           /\ Progress(<<>>)
  <2>1. Stack(calls', inPump') /\ Busy(calls')
    BY <1>1, <1>3, PushHandler DEF Progress
  <2>2. /\ IsFiniteSet(inFlight) /\ IsFiniteSet(inFlight')
        /\ Cardinality(inFlight) \in Nat
        /\ Cardinality(inFlight') = Cardinality(inFlight) - 1
    <3>1. IsFiniteSet(inFlight)
      BY DEF IInv, Ledger
    <3> QED
      BY <1>1, <1>3, <3>1, FS_RemoveElement, FS_CardinalityType
  <2>3. TypeOK'
    <3>1. Cardinality(inFlight') <= MaxListsInFlight
      BY <2>2, MaxListsInFlightAssumption DEF IInv, TypeOK
    <3> QED
      BY <1>1, <1>3, <2>1, <3>1 DEF IInv, TypeOK, Stack, Call
  <2>4. EachFolderOnce'
    <3>1. IsInjective(queue') /\ ToSet(queue') \cap asked' = {}
      BY <1>3 DEF IInv, Ledger, EachFolderOnce
    <3>2. /\ Cardinality(visited) = foldersListed + folderErrors + Len(queue)
                                      + Cardinality(inFlight)
          /\ foldersListed \in Nat /\ folderErrors \in Nat /\ Len(queue) \in Nat
      BY DEF IInv, Ledger, EachFolderOnce, TypeOK
    <3>3. Cardinality(visited') = foldersListed' + folderErrors' + Len(queue')
                                    + Cardinality(inFlight')
      BY <1>3, <2>2, <3>2
    <3> QED
      BY <3>1, <3>3 DEF EachFolderOnce
  <2>5. Ledger'
    <3>1. \A x : SidesOf(x)' = SidesOf(x)
      BY DEF SidesOf
    <3> QED
      BY <1>1, <1>3, <2>2, <2>4, <3>1 DEF IInv, Ledger
  <2>6. InWire'
    BY <1>1, <1>3 DEF IInv, InWire
  <2> QED
    BY <1>1, <1>3, <2>1, <2>3, <2>5, <2>6 DEF IInv, Slots, OneEndPerStart
<1> QED
  BY <1>2, <1>3 DEF OnDirectoryListFailed

-----------------------------------------------------------------------------
(* The actions.                                                            *)

LEMMA StartKeeps ==
    ASSUME IInv, NEW o \in Options, Start(o)
    PROVE  IInv'
<1>1. ~running /\ starts < MaxStarts
  BY DEF Start
<1>2. /\ options' = o /\ running' = TRUE
      /\ visited' = {o.primary, o.secondary}
      /\ queue' = IF o.primary = o.secondary THEN <<o.primary>>
                                             ELSE <<o.primary, o.secondary>>
      /\ inFlight' = {} /\ files' = {} /\ foldersListed' = 0 /\ folderErrors' = 0
      /\ starts' = starts + 1 /\ open' = open + 1 /\ asked' = {}
      /\ UNCHANGED <<wire, share>>
  BY DEF Start, world
<1>3. Stack(calls', inPump') /\ Busy(calls')
  BY PumpStack DEF Start, IInv
<1>4. o.primary \in Folders /\ o.secondary \in Folders
  BY DEF Folders
<1>5. /\ queue' \in Seq(Folders) /\ ToSet(queue') = visited' /\ IsInjective(queue')
      /\ IsFiniteSet(visited') /\ Cardinality(visited') = Len(queue')
  <2>1. CASE o.primary = o.secondary
    <3>1. queue' = <<o.primary>> /\ visited' = {o.primary}
      BY <1>2, <2>1
    <3>2. IsFiniteSet({o.primary}) /\ Cardinality({o.primary}) = 1
      BY FS_Singleton
    <3> QED
      BY <1>4, <3>1, <3>2 DEF ToSet, IsInjective
  <2>2. CASE o.primary # o.secondary
    <3>1. queue' = <<o.primary, o.secondary>> /\ visited' = {o.primary} \cup {o.secondary}
      BY <1>2, <2>2
    <3>2. IsFiniteSet({o.primary}) /\ Cardinality({o.primary}) = 1
      BY FS_Singleton
    <3>3. IsFiniteSet(visited') /\ Cardinality(visited') = 2
      BY <2>2, <3>1, <3>2, FS_AddElement
    <3>4. Len(queue') = 2 /\ DOMAIN queue' = {1, 2}
          /\ queue'[1] = o.primary /\ queue'[2] = o.secondary
      BY <3>1
    <3>5. ToSet(queue') = visited' /\ IsInjective(queue')
      BY <2>2, <3>1, <3>4 DEF ToSet, IsInjective
    <3> QED
      BY <1>4, <3>1, <3>3, <3>4, <3>5
  <2> QED
    BY <2>1, <2>2
<1>6. TypeOK'
  <2>1. starts' \in 0 .. MaxStarts
    BY <1>1, <1>2, BoundsAssumption DEF IInv, TypeOK
  <2>2. visited' \subseteq Folders
    BY <1>2, <1>4
  <2>3. calls' \in Seq({"pump", "progress", "end"}) /\ inPump' \in BOOLEAN
    BY <1>3 DEF Stack, Call
  <2>4. wire' \subseteq Requests /\ share' \subseteq Objects
    BY <1>2 DEF IInv, TypeOK
  <2>5. inFlight' \subseteq Folders /\ Cardinality(inFlight') <= MaxListsInFlight
    BY <1>2, FS_EmptySet, MaxListsInFlightAssumption
  <2> QED
    BY <1>2, <1>5, <2>1, <2>2, <2>3, <2>4, <2>5 DEF TypeOK
<1>7. \A d \in visited' : SidesOf(d)' # {}
  <2>1. "primary" \in Sides /\ "secondary" \in Sides
    BY DEF Sides
  <2>2. SidesOf(o.primary)' # {} /\ SidesOf(o.secondary)' # {}
    BY <1>2, <2>1 DEF SidesOf
  <2> QED
    BY <1>2, <2>2
<1>8. IsFiniteSet({}) /\ Cardinality({}) = 0
  BY FS_EmptySet
<1>9. EachFolderOnce'
  <2>1. Len(queue') \in Nat
    BY <1>5
  <2> QED
    BY <1>2, <1>5, <1>8, <2>1 DEF EachFolderOnce
<1>10. Ledger'
  BY <1>2, <1>5, <1>7, <1>8, <1>9 DEF Ledger
<1>11. OneEndPerStart'
  BY <1>1, <1>2 DEF IInv, OneEndPerStart
<1> QED
  BY <1>2, <1>3, <1>6, <1>10, <1>11 DEF IInv, Slots, InWire

LEMMA CancelKeeps == IInv /\ Cancel => IInv'
<1>1. SUFFICES ASSUME IInv, Cancel PROVE IInv'
  OBVIOUS
<1>2. /\ running /\ End("cancelled", calls) /\ Stack(calls, inPump')
      /\ UNCHANGED <<options, wire, share, starts, asked>>
  BY <1>1 DEF IInv, Cancel, world
<1> QED
  BY <1>1, <1>2, Ends DEF IInv, TypeOK

\* The innermost call is the loop.
LEMMA LoopOnTop ==
    ASSUME IInv, Top = "pump"
    PROVE  /\ calls # <<>> /\ Head(calls) = "pump"
           /\ Busy(calls) /\ inPump
           /\ Stack(Tail(calls), FALSE)
<1>1. calls # <<>> /\ Head(calls) = "pump"
  BY DEF Top
<1>2. /\ Stack(calls, inPump) /\ calls \in Seq(Call) /\ Len(calls) \in Nat
  BY DEF IInv, Stack
<1>3. Len(calls) > 0 /\ 1 \in 1 .. Len(calls) /\ calls[1] = "pump"
  BY <1>1, <1>2
<1>4. Busy(calls) /\ inPump
  BY <1>2, <1>3 DEF Busy, Stack
<1>5. Stack(Tail(calls), inPump /\ Head(calls) # "pump")
  BY <1>1, <1>2, PopStack
<1>6. (inPump /\ Head(calls) # "pump") = FALSE
  BY <1>1
<1> QED
  BY <1>1, <1>4, <1>5, <1>6

LEMMA PumpNextKeeps == IInv /\ PumpNext => IInv'
<1>1. SUFFICES ASSUME IInv, PumpNext PROVE IInv'
  OBVIOUS
<1> DEFINE d == Head(queue)
           r == [path |-> d, owner |-> starts, state |-> "Sent", entries |-> {}]
<1>2. /\ Top = "pump" /\ running /\ Cardinality(inFlight) < MaxListsInFlight
      /\ queue # <<>>
      /\ inFlight' = inFlight \cup {d} /\ queue' = Tail(queue)
      /\ wire' = wire \cup {r} /\ asked' = asked \cup {d}
      /\ UNCHANGED <<options, running, inPump, visited, files, foldersListed,
                     folderErrors, calls, starts, open, share>>
  BY <1>1 DEF PumpNext, world
<1>3. queue \in Seq(Folders) /\ IsInjective(queue)
  BY <1>1 DEF IInv, TypeOK, Ledger, EachFolderOnce
<1>4. /\ d \in ToSet(queue) /\ d \in Folders
      /\ queue' \in Seq(Folders) /\ IsInjective(queue')
      /\ ToSet(queue') = ToSet(queue) \ {d} /\ Len(queue') = Len(queue) - 1
  BY <1>2, <1>3, TailOfQueue
<1>5. r \in Requests /\ r.path = d /\ r.owner = starts
  BY <1>1, <1>4 DEF Requests, IInv, TypeOK
<1> HIDE DEF d, r
<1>6. /\ IsFiniteSet(inFlight) /\ asked \subseteq visited /\ ToSet(queue) \subseteq visited
      /\ inFlight \subseteq asked /\ ToSet(queue) \cap asked = {}
  BY <1>1, <1>2 DEF IInv, Ledger, EachFolderOnce
<1>7. d \notin asked /\ d \notin inFlight /\ d \in visited
  BY <1>4, <1>6
<1>8. /\ IsFiniteSet(inFlight') /\ Cardinality(inFlight) \in Nat
      /\ Cardinality(inFlight') = Cardinality(inFlight) + 1
  BY <1>2, <1>6, <1>7, FS_AddElement, FS_CardinalityType
<1>9. TypeOK'
  <2>1. Cardinality(inFlight') <= MaxListsInFlight
    BY <1>2, <1>8, MaxListsInFlightAssumption
  <2> QED
    BY <1>1, <1>2, <1>4, <1>5, <2>1 DEF IInv, TypeOK
<1>10. EachFolderOnce'
  <2>1. /\ Cardinality(visited) = foldersListed + folderErrors + Len(queue)
                                    + Cardinality(inFlight)
        /\ foldersListed \in Nat /\ folderErrors \in Nat /\ Len(queue) \in Nat
    BY <1>1, <1>3 DEF IInv, Ledger, EachFolderOnce, TypeOK
  <2>2. Cardinality(visited') = foldersListed' + folderErrors' + Len(queue')
                                  + Cardinality(inFlight')
    BY <1>2, <1>4, <1>8, <2>1
  <2>3. ToSet(queue') \cap asked' = {}
    BY <1>2, <1>4, <1>6
  <2> QED
    BY <1>4, <2>2, <2>3 DEF EachFolderOnce
<1>11. Ledger'
  <2>1. \A x : SidesOf(x)' = SidesOf(x)
    BY <1>2 DEF SidesOf
  <2>2. /\ asked' \subseteq visited' /\ ToSet(queue') \subseteq visited'
        /\ inFlight' \subseteq asked'
    BY <1>2, <1>4, <1>6, <1>7
  <2> QED
    BY <1>1, <1>2, <1>8, <1>10, <2>1, <2>2 DEF IInv, Ledger
<1>12. Slots' /\ Stack(calls', inPump') /\ OneEndPerStart'
  BY <1>1, <1>2, LoopOnTop DEF IInv, Slots, OneEndPerStart
<1>13. InWire'
  BY <1>1, <1>2, <1>5 DEF IInv, InWire
<1> QED
  BY <1>9, <1>11, <1>12, <1>13 DEF IInv

LEMMA PumpNextFailsKeeps == IInv /\ PumpNextFails => IInv'
<1>1. SUFFICES ASSUME IInv, PumpNextFails PROVE IInv'
  OBVIOUS
<1> DEFINE d == Head(queue)
<1>2. /\ Top = "pump" /\ running /\ queue # <<>>
      /\ asked' = asked \cup {d}
      /\ UNCHANGED <<options, inPump, wire, starts, share>>
  BY <1>1 DEF PumpNextFails, world
<1>3. queue \in Seq(Folders) /\ IsInjective(queue)
  BY <1>1 DEF IInv, TypeOK, Ledger, EachFolderOnce
<1>4. /\ d \in ToSet(queue) /\ d \in Folders
      /\ Tail(queue) \in Seq(Folders) /\ IsInjective(Tail(queue))
      /\ ToSet(Tail(queue)) = ToSet(queue) \ {d} /\ Len(Tail(queue)) = Len(queue) - 1
  BY <1>2, <1>3, TailOfQueue
<1>5. Stack(calls, inPump')
  BY <1>1, <1>2 DEF IInv
<1>6. asked' \subseteq Folders /\ wire' \subseteq Requests /\ share' \subseteq Objects
      /\ starts' \in 0 .. MaxStarts
  BY <1>1, <1>2, <1>4 DEF IInv, TypeOK
<1>7. \/ End("failed", calls)
      \/ /\ queue' = Tail(queue) /\ folderErrors' = folderErrors + 1
         /\ UNCHANGED <<running, visited, inFlight, files, foldersListed, open>>
         /\ Progress(calls)
  BY <1>1 DEF PumpNextFails
<1> HIDE DEF d
<1>8. CASE End("failed", calls)
  BY <1>1, <1>2, <1>5, <1>6, <1>8, Ends
<1>9. CASE /\ queue' = Tail(queue) /\ folderErrors' = folderErrors + 1
           /\ UNCHANGED <<running, visited, inFlight, files, foldersListed, open>>
           /\ Progress(calls)
  <2>1. Stack(calls', inPump') /\ Busy(calls')
    BY <1>5, <1>9, PushHandler DEF Progress
  <2>2. /\ asked \subseteq visited /\ ToSet(queue) \subseteq visited
        /\ inFlight \subseteq asked /\ ToSet(queue) \cap asked = {}
    BY <1>1, <1>2 DEF IInv, Ledger, EachFolderOnce
  <2>3. TypeOK'
    <3>1. calls' \in Seq({"pump", "progress", "end"}) /\ inPump' \in BOOLEAN
      BY <2>1 DEF Stack, Call
    <3> QED
      BY <1>1, <1>2, <1>4, <1>6, <1>9, <3>1 DEF IInv, TypeOK
  <2>4. EachFolderOnce'
    <3>1. IsFiniteSet(inFlight) /\ Cardinality(inFlight) \in Nat
      BY <1>1, FS_CardinalityType DEF IInv, Ledger
    <3>2. /\ Cardinality(visited) = foldersListed + folderErrors + Len(queue)
                                      + Cardinality(inFlight)
          /\ foldersListed \in Nat /\ folderErrors \in Nat /\ Len(queue) \in Nat
      BY <1>1, <1>3 DEF IInv, Ledger, EachFolderOnce, TypeOK
    <3>3. Cardinality(visited') = foldersListed' + folderErrors' + Len(queue')
                                    + Cardinality(inFlight')
      BY <1>4, <1>9, <3>1, <3>2
    <3>4. ToSet(queue') \cap asked' = {}
      BY <1>2, <1>4, <1>9, <2>2
    <3> QED
      BY <1>4, <1>9, <3>3, <3>4 DEF EachFolderOnce
  <2>5. Ledger'
    <3>1. \A x : SidesOf(x)' = SidesOf(x)
      BY <1>2 DEF SidesOf
    <3>2. asked' \subseteq visited' /\ ToSet(queue') \subseteq visited'
          /\ inFlight' \subseteq asked'
      BY <1>2, <1>4, <1>9, <2>2
    <3> QED
      BY <1>1, <1>2, <1>9, <2>4, <3>1, <3>2 DEF IInv, Ledger
  <2>6. InWire' /\ Slots' /\ OneEndPerStart'
    BY <1>1, <1>2, <1>9, <2>1 DEF IInv, InWire, Slots, OneEndPerStart
  <2> QED
    BY <2>1, <2>3, <2>5, <2>6 DEF IInv
<1> QED
  BY <1>7, <1>8, <1>9

\* When the loop is over all slots are taken or nothing is queued; maybeFinish
\* leaves no search behind that has nothing in flight.
LEMMA PumpEndsKeeps == IInv /\ PumpEnds => IInv'
<1>1. SUFFICES ASSUME IInv, PumpEnds PROVE IInv'
  OBVIOUS
<1>2. /\ Top = "pump" /\ inPump' = FALSE
      /\ ~(running /\ Cardinality(inFlight) < MaxListsInFlight /\ queue # <<>>)
      /\ UNCHANGED <<options, wire, starts, asked, share>>
  BY <1>1 DEF PumpEnds, world
<1>3. Stack(Tail(calls), inPump')
  BY <1>1, <1>2, LoopOnTop
<1>4. CASE running /\ End("finished", Tail(calls))
  BY <1>1, <1>2, <1>3, <1>4, Ends DEF IInv, TypeOK
<1>5. CASE /\ ~(running /\ queue = <<>> /\ inFlight = {})
           /\ calls' = Tail(calls)
           /\ UNCHANGED <<running, traversal, open>>
  <2>1. Slots'
    <3>1. SUFFICES ASSUME running
                   PROVE  inFlight # {} /\ (queue # <<>> =>
                                              Cardinality(inFlight) = MaxListsInFlight)
      BY <1>5 DEF Slots, traversal
    <3>2. IsFiniteSet(inFlight) /\ Cardinality(inFlight) \in Nat
          /\ Cardinality(inFlight) <= MaxListsInFlight
      BY <1>1, FS_CardinalityType DEF IInv, Ledger, TypeOK
    <3>3. CASE queue = <<>>
      BY <1>5, <3>1, <3>3
    <3>4. CASE queue # <<>>
      <4>1. Cardinality(inFlight) = MaxListsInFlight
        BY <1>2, <3>1, <3>2, <3>4, MaxListsInFlightAssumption
      <4>2. inFlight # {}
        BY <4>1, FS_EmptySet, MaxListsInFlightAssumption
      <4> QED
        BY <4>1, <4>2
    <3> QED
      BY <3>3, <3>4
  <2>2. InWire' /\ wire' \subseteq Requests /\ share' \subseteq Objects
    BY <1>1, <1>2, <1>5 DEF IInv, InWire, TypeOK, traversal
  <2> QED
    BY <1>1, <1>2, <1>3, <1>5, <2>1, <2>2, Quiet
<1> QED
  BY <1>1, <1>4, <1>5 DEF PumpEnds

LEMMA HandlerReturnsKeeps == IInv /\ HandlerReturns => IInv'
<1>1. SUFFICES ASSUME IInv, HandlerReturns PROVE IInv'
  OBVIOUS
<1>2. UNCHANGED <<options, running, traversal, wire, starts, open, asked, share>>
  BY <1>1 DEF HandlerReturns, history, world
<1>3. InWire' /\ wire' \subseteq Requests /\ share' \subseteq Objects
  BY <1>1, <1>2 DEF IInv, InWire, TypeOK, traversal
<1>4. Top \in {"progress", "end"} => /\ calls # <<>> /\ Head(calls) = Top
                                     /\ Stack(Tail(calls), inPump)
                                     /\ Top = "end" /\ Busy(calls) => Busy(Tail(calls))
  <2>1. SUFFICES ASSUME Top \in {"progress", "end"}
                 PROVE  /\ calls # <<>> /\ Head(calls) = Top
                        /\ Stack(Tail(calls), inPump)
                        /\ Top = "end" /\ Busy(calls) => Busy(Tail(calls))
    OBVIOUS
  <2>2. calls # <<>> /\ Head(calls) = Top
    BY <2>1 DEF Top
  <2>3. Stack(calls, inPump)
    BY <1>1 DEF IInv
  <2>4. (inPump /\ Head(calls) # "pump") = inPump
    BY <2>1, <2>2, <2>3 DEF Stack
  <2>5. /\ Stack(Tail(calls), inPump /\ Head(calls) # "pump")
        /\ Head(calls) = "end" /\ Busy(calls) => Busy(Tail(calls))
    BY <2>2, <2>3, PopStack
  <2> QED
    BY <2>2, <2>4, <2>5
<1>5. CASE Top = "progress" /\ Pump(Tail(calls))
  <2>1. Stack(calls', inPump') /\ Busy(calls')
    BY <1>4, <1>5, PumpStack
  <2>2. Slots'
    BY <2>1 DEF Slots
  <2> QED
    BY <1>1, <1>2, <1>3, <2>1, <2>2, Quiet
<1>6. CASE Top = "end" /\ calls' = Tail(calls) /\ UNCHANGED inPump
  <2>1. Stack(calls', inPump')
    BY <1>4, <1>6
  <2>2. Slots'
    BY <1>1, <1>2, <1>4, <1>6 DEF IInv, Slots, traversal
  <2> QED
    BY <1>1, <1>2, <1>3, <2>1, <2>2, Quiet
<1> QED
  BY <1>1, <1>5, <1>6 DEF HandlerReturns

LEMMA ServerListsKeeps ==
    ASSUME IInv, NEW r \in wire, ServerLists(r)
    PROVE  IInv'
<1>1. UNCHANGED <<options, running, inPump, traversal, calls, starts, open, asked, share>>
  BY DEF ServerLists, history, world
<1>2. r \in Requests /\ share \subseteq Objects /\ wire \subseteq Requests
  BY DEF IInv, TypeOK
<1>3. PICK q \in Requests : /\ wire' = (wire \ {r}) \cup {q}
                            /\ q.path = r.path /\ q.owner = r.owner
  <2> DEFINE q1 == [r EXCEPT !.state = "Failed"]
             q2 == [r EXCEPT !.state = "Listed", !.entries = Contents(r.path)]
  <2>1. Contents(r.path) \subseteq Objects
    BY <1>2 DEF Contents
  <2>2. q1 \in Requests /\ q1.path = r.path /\ q1.owner = r.owner
    BY <1>2 DEF Requests
  <2>3. q2 \in Requests /\ q2.path = r.path /\ q2.owner = r.owner
    BY <1>2, <2>1 DEF Requests
  <2>4. wire' = (wire \ {r}) \cup {q1} \/ wire' = (wire \ {r}) \cup {q2}
    BY DEF ServerLists
  <2> QED
    BY <2>2, <2>3, <2>4
<1>4. wire' \subseteq Requests /\ share' \subseteq Objects
  BY <1>1, <1>2, <1>3
<1>5. InWire'
  BY <1>1, <1>3 DEF IInv, InWire, traversal
<1>6. Slots' /\ Stack(calls', inPump')
  BY <1>1 DEF IInv, Slots, traversal
<1> QED
  BY <1>1, <1>4, <1>5, <1>6, Quiet

\* An answer nobody waits for.
LEMMA DroppedKeeps ==
    ASSUME IInv, NEW d, Dropped(d), UNCHANGED <<options, inPump, starts, asked>>,
           wire' \subseteq Requests, share' \subseteq Objects,
           \A r \in wire : r.path # d => r \in wire'
    PROVE  IInv'
<1>1. UNCHANGED <<running, traversal, calls, open>> /\ ~(running /\ d \in inFlight)
  BY DEF Dropped
<1>2. InWire'
  BY <1>1 DEF IInv, InWire, traversal
<1>3. Slots' /\ Stack(calls', inPump')
  BY <1>1 DEF IInv, Slots, traversal
<1> QED
  BY <1>1, <1>2, <1>3, Quiet

LEMMA FoundDirsFacts ==
    ASSUME NEW d, NEW E, E \subseteq Objects
    PROVE  /\ IsFiniteSet(FoundDirs(d, E))
           /\ FoundDirs(d, E) \subseteq Folders
           /\ FoundDirs(d, E) \cap visited = {}
           /\ \A x \in FoundDirs(d, E) : SidesOf(x) # {}
<1> DEFINE S == {x \in E : x.isDir /\ SidesOf(PathOf(x)) # {}}
           T == {PathOf(e) : e \in S}
           f == [e \in S |-> PathOf(e)]
<1>1. IsFiniteSet(S)
  <2>1. S \in SUBSET Objects
    OBVIOUS
  <2> QED
    BY <2>1, ObjectsAssumption, FS_Subset
<1>2. f \in Surjection(S, T)
  BY DEF Surjection
<1>3. IsFiniteSet(T)
  BY <1>1, <1>2, FS_Surjection
<1>4. FoundDirs(d, E) = T \ visited
  BY DEF FoundDirs
<1>5. T \subseteq Folders /\ \A x \in T : SidesOf(x) # {}
  BY DEF Folders
<1>6. IsFiniteSet(T \ visited)
  BY <1>3, FS_Difference
<1> QED
  BY <1>4, <1>5, <1>6

LEMMA ListedKeeps ==
    ASSUME IInv, NEW d, NEW owner, NEW E, E \subseteq Objects,
           OnDirectoryListed(d, owner, E), calls = <<>>,
           UNCHANGED <<options, inPump, starts, asked>>,
           wire' \subseteq Requests, share' \subseteq Objects,
           \A r \in wire : r.path # d => r \in wire'
    PROVE  IInv'
<1> DEFINE T == FoundDirs(d, E)
<1>1. /\ running /\ d \in inFlight
      /\ inFlight' = inFlight \ {d}
      /\ foldersListed' = foldersListed + 1
      /\ visited' = visited \cup T
      /\ files' = files \cup FoundFiles(d, E)
      /\ UNCHANGED <<running, folderErrors, open>>
  BY DEF OnDirectoryListed
<1>2. PICK n \in SetToSeqs(T) : queue' = queue \o n
  BY DEF OnDirectoryListed
<1>3. /\ IsFiniteSet(T) /\ T \subseteq Folders /\ T \cap visited = {}
      /\ \A x \in T : SidesOf(x) # {}
  BY FoundDirsFacts
<1>4. Stack(calls', inPump') /\ Busy(calls')
  <2>1. Stack(<<>>, inPump') /\ calls' = <<"progress">> \o <<>>
    BY DEF IInv, OnDirectoryListed, Progress
  <2> QED
    BY <2>1, PushHandler
<1> HIDE DEF T
<1>5. /\ IsFiniteSet(visited) /\ IsFiniteSet(inFlight)
      /\ asked \subseteq visited /\ ToSet(queue) \subseteq visited
      /\ inFlight \subseteq asked /\ \A x \in visited : SidesOf(x) # {}
      /\ IsInjective(queue) /\ ToSet(queue) \cap asked = {}
  BY <1>1 DEF IInv, Ledger, EachFolderOnce
<1>6. queue \in Seq(Folders) /\ T \cap ToSet(queue) = {}
  BY <1>3, <1>5 DEF IInv, TypeOK
<1>7. /\ queue' \in Seq(Folders) /\ IsInjective(queue')
      /\ ToSet(queue') \subseteq ToSet(queue) \cup T
      /\ Len(queue') = Len(queue) + Cardinality(T)
  BY <1>2, <1>3, <1>5, <1>6, Appended
<1>8. /\ IsFiniteSet(inFlight') /\ Cardinality(inFlight) \in Nat
      /\ Cardinality(inFlight') = Cardinality(inFlight) - 1
  BY <1>1, <1>5, FS_RemoveElement, FS_CardinalityType
<1>9. TypeOK'
  <2>1. \A f \in FoundFiles(d, E) : /\ f.path \in Paths /\ f.size \in Nat
                                    /\ f.sides \in (SUBSET Sides) \ {{}}
    <3>1. SidesOf(d) # {} /\ SidesOf(d) \subseteq Sides
      BY <1>1, <1>5 DEF SidesOf
    <3>2. SUFFICES ASSUME NEW e \in E, ~e.isDir,
                          NEW f, f = [path |-> PathOf(e), size |-> e.size,
                                      sides |-> SidesOf(d)]
                   PROVE  /\ f.path \in Paths /\ f.size \in Nat
                          /\ f.sides \in (SUBSET Sides) \ {{}}
      BY DEF FoundFiles
    <3>3. PathOf(e) \in Paths /\ e.size \in Nat
      BY ObjectsAssumption DEF Paths
    <3> QED
      BY <3>1, <3>2, <3>3
  <2>2. \A f \in files' : /\ f.path \in Paths /\ f.size \in Nat
                          /\ f.sides \in (SUBSET Sides) \ {{}}
    BY <1>1, <2>1 DEF IInv, TypeOK
  <2>3. calls' \in Seq({"pump", "progress", "end"}) /\ inPump' \in BOOLEAN
    BY <1>4 DEF Stack, Call
  <2>4. visited' \subseteq Folders /\ inFlight' \subseteq Folders /\ foldersListed' \in Nat
    BY <1>1, <1>3 DEF IInv, TypeOK
  <2>5. /\ options' \in Options /\ running' \in BOOLEAN /\ folderErrors' \in Nat
        /\ starts' \in 0 .. MaxStarts /\ asked' \subseteq Folders
    BY <1>1 DEF IInv, TypeOK
  <2>6. Cardinality(inFlight') <= MaxListsInFlight
    BY <1>8, MaxListsInFlightAssumption DEF IInv, TypeOK
  <2> QED
    BY <1>7, <2>2, <2>3, <2>4, <2>5, <2>6 DEF TypeOK
<1>10. /\ IsFiniteSet(visited') /\ Cardinality(visited) \in Nat /\ Cardinality(T) \in Nat
       /\ Cardinality(visited') = Cardinality(visited) + Cardinality(T)
  <2>1. Cardinality(visited \cap T) = 0
    <3>1. visited \cap T = {}
      BY <1>3
    <3> QED
      BY <3>1, FS_EmptySet
  <2>2. Cardinality(visited) \in Nat /\ Cardinality(T) \in Nat
    BY <1>3, <1>5, FS_CardinalityType
  <2>3. /\ IsFiniteSet(visited \cup T)
        /\ Cardinality(visited \cup T)
             = Cardinality(visited) + Cardinality(T) - Cardinality(visited \cap T)
    BY <1>3, <1>5, FS_Union
  <2> QED
    BY <1>1, <2>1, <2>2, <2>3
<1>11. EachFolderOnce'
  <2>1. /\ Cardinality(visited) = foldersListed + folderErrors + Len(queue)
                                    + Cardinality(inFlight)
        /\ foldersListed \in Nat /\ folderErrors \in Nat /\ Len(queue) \in Nat
    BY <1>6 DEF IInv, Ledger, EachFolderOnce, TypeOK
  <2>2. Cardinality(visited') = foldersListed' + folderErrors' + Len(queue')
                                  + Cardinality(inFlight')
    BY <1>1, <1>7, <1>8, <1>10, <2>1
  <2>3. ToSet(queue') \cap asked' = {}
    BY <1>3, <1>5, <1>7
  <2> QED
    BY <1>7, <2>2, <2>3 DEF EachFolderOnce
<1>12. Ledger'
  <2>1. \A x : SidesOf(x)' = SidesOf(x)
    BY DEF SidesOf
  <2>2. /\ asked' \subseteq visited' /\ ToSet(queue') \subseteq visited'
        /\ inFlight' \subseteq asked'
    BY <1>1, <1>5, <1>7
  <2>3. \A x \in visited' : SidesOf(x)' # {}
    BY <1>1, <1>3, <1>5, <2>1
  <2> QED
    BY <1>1, <1>8, <1>10, <1>11, <2>2, <2>3 DEF Ledger
<1>13. InWire' /\ Slots' /\ OneEndPerStart'
  BY <1>1, <1>4 DEF IInv, InWire, Slots, OneEndPerStart
<1> QED
  BY <1>4, <1>9, <1>12, <1>13 DEF IInv

LEMMA DeliverKeeps ==
    ASSUME IInv, NEW r \in wire, Deliver(r)
    PROVE  IInv'
<1>1. /\ calls = <<>> /\ wire' = wire \ {r}
      /\ UNCHANGED <<options, inPump, starts, asked, share>>
  <2>1. Top = "loop" /\ wire' = wire \ {r} /\ UNCHANGED <<options, inPump, starts, asked, share>>
    BY DEF Deliver, world
  <2>2. calls = <<>> \/ Head(calls) \in Call
    BY PopStack DEF IInv
  <2> QED
    BY <2>1, <2>2 DEF Top, Call
<1>2. /\ r \in Requests /\ wire' \subseteq Requests /\ share' \subseteq Objects
      /\ \A q \in wire : q.path # r.path => q \in wire'
  BY <1>1 DEF IInv, TypeOK
<1>3. r.entries \subseteq Objects
  BY <1>2 DEF Requests
<1>4. CASE OnDirectoryListed(r.path, r.owner, r.entries)
  BY <1>1, <1>2, <1>3, <1>4, ListedKeeps
<1>5. CASE OnDirectoryListFailed(r.path, r.owner, <<>>)
  BY <1>1, <1>2, <1>5, FailsWhenListed
<1>6. CASE Dropped(r.path)
  BY <1>1, <1>2, <1>6, DroppedKeeps
<1> QED
  BY <1>4, <1>5, <1>6 DEF Deliver

LEMMA OtherListsKeeps ==
    ASSUME IInv, NEW d \in Shown, OtherLists(d)
    PROVE  IInv'
<1> DEFINE r == [path |-> d, owner |-> 0, state |-> "Sent", entries |-> {}]
<1>1. /\ wire' = wire \cup {r}
      /\ UNCHANGED <<options, running, inPump, traversal, calls, starts, open, asked, share>>
  BY DEF OtherLists, history
<1>2. r \in Requests
  BY WorldAssumption, BoundsAssumption DEF Requests
<1> HIDE DEF r
<1>3. wire' \subseteq Requests /\ share' \subseteq Objects
  BY <1>1, <1>2 DEF IInv, TypeOK
<1>4. InWire' /\ Slots' /\ Stack(calls', inPump')
  BY <1>1 DEF IInv, InWire, Slots, traversal
<1> QED
  BY <1>1, <1>3, <1>4, Quiet

LEMMA OtherFailsKeeps ==
    ASSUME IInv, NEW d \in Shown, OtherFails(d)
    PROVE  IInv'
<1>1. calls = <<>> /\ UNCHANGED <<options, inPump, wire, starts, asked, share>>
  <2>1. Top = "loop" /\ UNCHANGED <<options, inPump, wire, starts, asked, share>>
    BY DEF OtherFails
  <2>2. calls = <<>> \/ Head(calls) \in Call
    BY PopStack DEF IInv
  <2> QED
    BY <2>1, <2>2 DEF Top, Call
<1>2. /\ wire' \subseteq Requests /\ share' \subseteq Objects
      /\ \A q \in wire : q.path # d => q \in wire'
  BY <1>1 DEF IInv, TypeOK
<1>3. CASE OnDirectoryListFailed(d, 0, <<>>)
  BY <1>1, <1>2, <1>3, FailsWhenListed
<1>4. CASE Dropped(d)
  BY <1>1, <1>2, <1>4, DroppedKeeps
<1> QED
  BY <1>3, <1>4 DEF OtherFails

LEMMA ChangeKeeps ==
    ASSUME IInv, NEW o \in Changing, Change(o)
    PROVE  IInv'
<1>1. UNCHANGED <<options, running, inPump, traversal, calls, wire, starts, open, asked>>
  BY DEF Change, history
<1>2. wire' \subseteq Requests /\ share' \subseteq Objects
  BY <1>1, WorldAssumption DEF IInv, TypeOK, Change
<1>3. InWire' /\ Slots' /\ Stack(calls', inPump')
  BY <1>1 DEF IInv, InWire, Slots, traversal
<1> QED
  BY <1>1, <1>2, <1>3, Quiet

LEMMA DisconnectKeeps == IInv /\ Disconnect => IInv'
<1>1. SUFFICES ASSUME IInv, Disconnect PROVE IInv'
  OBVIOUS
<1>2. /\ wire' = {} /\ running' = FALSE /\ open' = 0 /\ ResetState
      /\ UNCHANGED <<options, inPump, calls, starts, asked, share>>
  BY <1>1 DEF Disconnect, world
<1>3. /\ Stack(calls', inPump') /\ wire' \subseteq Requests /\ share' \subseteq Objects
      /\ starts' \in 0 .. MaxStarts /\ asked' \subseteq Folders
  BY <1>1, <1>2 DEF IInv, TypeOK
<1> QED
  BY <1>1, <1>2, <1>3, Over

-----------------------------------------------------------------------------
(* The invariant.                                                          *)

LEMMA InitInv == Init => IInv
<1>1. SUFFICES ASSUME Init PROVE IInv
  OBVIOUS
<1>2. IsFiniteSet({}) /\ Cardinality({}) = 0
  BY FS_EmptySet
<1>3. TypeOK
  <2>1. queue \in Seq(Folders) /\ calls \in Seq({"pump", "progress", "end"})
    BY <1>1 DEF Init
  <2>2. 0 \in 0 .. MaxStarts /\ share \subseteq Objects
    BY <1>1, BoundsAssumption, WorldAssumption DEF Init
  <2>3. inFlight \subseteq Folders /\ Cardinality(inFlight) <= MaxListsInFlight
    BY <1>1, <1>2, MaxListsInFlightAssumption DEF Init
  <2> QED
    BY <1>1, <2>1, <2>2, <2>3 DEF Init, TypeOK
<1>4. Stack(calls, inPump)
  <2>1. calls = <<>> /\ inPump = FALSE
    BY <1>1 DEF Init
  <2>2. <<>> \in Seq(Call) /\ ~\E k \in 1 .. Len(<<>>) : TRUE
    OBVIOUS
  <2> QED
    BY <2>1, <2>2 DEF Stack
<1>5. EachFolderOnce
  BY <1>1, <1>2 DEF Init, EachFolderOnce, IsInjective, ToSet
<1>6. Ledger
  BY <1>1, <1>2, <1>5 DEF Init, Ledger
<1> QED
  BY <1>1, <1>3, <1>4, <1>6 DEF Init, IInv, Slots, InWire, OneEndPerStart

LEMMA StepInv == IInv /\ [Next]_vars => IInv'
<1>1. SUFFICES ASSUME IInv, [Next]_vars PROVE IInv'
  OBVIOUS
<1>2. CASE Searcher
  BY <1>1, <1>2, PumpNextKeeps, PumpNextFailsKeeps, PumpEndsKeeps, HandlerReturnsKeeps
     DEF Searcher
<1>3. CASE Session
  <2>1. PICK r \in wire : ServerLists(r) \/ Deliver(r)
    BY <1>3 DEF Session
  <2> QED
    BY <1>1, <2>1, ServerListsKeeps, DeliverKeeps
<1>4. ASSUME NEW o \in Options, Start(o) PROVE IInv'
  BY <1>1, <1>4, StartKeeps
<1>5. CASE Cancel
  BY <1>1, <1>5, CancelKeeps
<1>6. ASSUME NEW d \in Shown, OtherLists(d) \/ OtherFails(d) PROVE IInv'
  BY <1>1, <1>6, OtherListsKeeps, OtherFailsKeeps
<1>7. ASSUME NEW o \in Changing, Change(o) PROVE IInv'
  BY <1>1, <1>7, ChangeKeeps
<1>8. CASE Disconnect
  BY <1>1, <1>8, DisconnectKeeps
<1>9. CASE UNCHANGED vars
  <2>1. UNCHANGED <<options, running, inPump, traversal, calls, wire, starts, open, asked, share>>
    BY <1>9 DEF vars, history, world
  <2>2. /\ wire' \subseteq Requests /\ share' \subseteq Objects
        /\ InWire' /\ Slots' /\ Stack(calls', inPump')
    BY <1>1, <2>1 DEF IInv, TypeOK, InWire, Slots, traversal
  <2> QED
    BY <1>1, <2>1, <2>2, Quiet
<1> QED
  BY <1>1, <1>2, <1>3, <1>4, <1>5, <1>6, <1>7, <1>8, <1>9 DEF Next

LEMMA InvAlways == Spec => []IInv
<1> QED
  BY InitInv, StepInv, PTL DEF Spec

-----------------------------------------------------------------------------

\* Every variable of the searcher keeps its type, also when handlers of its
\* signals start and cancel searches.
THEOREM TypeCorrect == Spec => []TypeOK
<1>1. IInv => TypeOK
  BY DEF IInv
<1> QED
  BY <1>1, InvAlways, PTL

\* No search asks for a directory twice, whatever the trees and the order of
\* the answers (m_visited), and the counts of progress add up.
THEOREM NoFolderTwice == Spec => []EachFolderOnce
<1>1. IInv => EachFolderOnce
  BY DEF IInv, Ledger
<1> QED
  BY <1>1, InvAlways, PTL

\* A search that runs is never left waiting for an answer that does not come:
\* maybeFinish after the loop, and a loop after each answer, see to it.
THEOREM SearchGoesOn == Spec => []NeverStranded
<1>1. ASSUME IInv PROVE NeverStranded
  <2>1. SUFFICES ASSUME running, Top = "loop"
                 PROVE  /\ inFlight # {}
                        /\ queue # <<>> => Cardinality(inFlight) = MaxListsInFlight
                        /\ \A d \in inFlight : \E r \in wire : r.path = d /\ r.owner = starts
    BY DEF NeverStranded
  <2>2. calls = <<>> \/ Head(calls) \in Call
    BY <1>1, PopStack DEF IInv
  <2>3. calls = <<>>
    BY <2>1, <2>2 DEF Top, Call
  <2>4. ~Busy(calls)
    BY <2>3 DEF Busy
  <2> QED
    BY <1>1, <2>1, <2>4 DEF IInv, Slots, InWire
<1> QED
  BY <1>1, InvAlways, PTL

\* Each start is answered by finished or failed exactly once.
THEOREM EachStartAnswered == Spec => []OneEndPerStart
<1>1. IInv => OneEndPerStart
  BY DEF IInv
<1> QED
  BY <1>1, InvAlways, PTL

-----------------------------------------------------------------------------
(* What the answers say.                                                   *)

\* The directories scheduled and not yet answered.
Pending == ToSet(queue) \cup inFlight

Roots == {options.primary, options.secondary}

\* The directories an answer leads to.
Children(r) == {PathOf(e) : e \in {x \in r.entries : x.isDir /\ SidesOf(PathOf(x)) # {}}}

AnswerType == [path : Folders, owner : 0 .. MaxStarts, ok : BOOLEAN, entries : SUBSET Objects]

\* While a search runs its books agree with the answers it accepted: each
\* directory scheduled is pending or has one answer, the roots and what the
\* answers show are scheduled and nothing is that they do not lead to, only
\* directories below the roots failed, and errors and files are those of the
\* answers.
Tally ==
    running =>
        /\ answers \subseteq AnswerType /\ IsFiniteSet(answers)
        /\ \A q, r \in answers : q.path = r.path => q = r
        /\ visited = Answered \cup Pending
        /\ Answered \cap Pending = {}
        /\ Roots \subseteq visited
        /\ \A r \in answers : Children(r) \subseteq visited
        /\ \A D \in SUBSET Folders :
             /\ Roots \subseteq D
             /\ \A r \in answers : r.path \in D => Children(r) \subseteq D
             => visited \subseteq D
        /\ \A r \in answers : ~r.ok => r.entries = {} /\ r.path \notin Roots
        /\ folderErrors = Cardinality({r \in answers : ~r.ok})
        /\ files = UNION {FoundFiles(r.path, r.entries) : r \in answers}

\* sideMaskOf compares prefixes: a directory is on the sides that reach it.
LEMMA SidesAreReached ==
    ASSUME options \in Options, NEW d \in Folders
    PROVE  SidesOf(d) = {s \in Sides : OnSide(d, s)}
<1>1. SUFFICES ASSUME NEW s \in Sides
               PROVE  s \in SidesOf(d) <=> OnSide(d, s)
  BY DEF SidesOf
<1> DEFINE q == options[s]
<1>2. q \in Folders
  BY DEF Folders, Sides
<1>3. /\ d \in Seq(ToSet(d)) /\ q \in Seq(ToSet(q))
      /\ Len(d) \in Nat /\ Len(q) \in Nat
  BY <1>2, PathsAssumption
<1>4. SubSeq(d, 1, Len(d)) = d /\ SubSeq(q, 1, Len(q)) = q
  BY <1>3, SubSeqFull
<1>5. CASE s \in options.recursive
  <2>1. ASSUME s \in SidesOf(d) PROVE \E k \in 0 .. Len(d) : SubSeq(d, 1, k) = q
    <3>1. CASE d = q
      BY <1>3, <1>4, <3>1
    <3>2. CASE Len(q) <= Len(d) /\ SubSeq(q, 1, Len(q)) = SubSeq(d, 1, Len(q))
      BY <1>3, <1>4, <3>2
    <3> QED
      BY <2>1, <3>1, <3>2 DEF SidesOf, Under, IsStrictPrefix, IsPrefix
  <2>2. ASSUME NEW k \in 0 .. Len(d), SubSeq(d, 1, k) = q PROVE s \in SidesOf(d)
    <3>1. Len(SubSeq(d, 1, k)) = k
      BY <1>3
    <3>2. Len(q) = k
      BY <2>2, <3>1
    <3>3. IsPrefix(q, d)
      BY <1>3, <1>4, <2>2, <3>2 DEF IsPrefix
    <3> QED
      BY <1>5, <3>3 DEF SidesOf, Under, IsStrictPrefix
  <2> QED
    BY <1>5, <2>1, <2>2 DEF OnSide
<1>6. CASE s \notin options.recursive
  BY <1>6 DEF SidesOf, OnSide
<1> QED
  BY <1>5, <1>6

\* An answer to a pending directory is entered in the books.
LEMMA Answering ==
    ASSUME IInv, Tally, running, UNCHANGED options, NEW r \in AnswerType,
           answers' = answers \cup {r}, r.path \in Pending,
           visited' = visited \cup FoundDirs(r.path, r.entries),
           Pending' = (Pending \ {r.path}) \cup FoundDirs(r.path, r.entries),
           files' = files \cup FoundFiles(r.path, r.entries),
           folderErrors' = folderErrors + (IF r.ok THEN 0 ELSE 1),
           ~r.ok => r.entries = {} /\ r.path \notin Roots
    PROVE  Tally'
<1> DEFINE T == FoundDirs(r.path, r.entries)
           F == {q \in answers : ~q.ok}
<1>1. /\ answers \subseteq AnswerType /\ IsFiniteSet(answers)
      /\ \A q, s \in answers : q.path = s.path => q = s
      /\ visited = Answered \cup Pending /\ Answered \cap Pending = {}
      /\ Roots \subseteq visited
      /\ \A q \in answers : Children(q) \subseteq visited
  BY DEF Tally
<1>2. /\ \A q \in answers : ~q.ok => q.entries = {} /\ q.path \notin Roots
      /\ folderErrors = Cardinality(F)
      /\ files = UNION {FoundFiles(q.path, q.entries) : q \in answers}
  BY DEF Tally
<1>3. /\ Roots' = Roots
      /\ \A q : Children(q)' = Children(q)
      /\ \A d, E : FoundFiles(d, E)' = FoundFiles(d, E)
  BY DEF Roots, Children, FoundFiles, SidesOf
<1>4. Answered' = Answered \cup {r.path}
  BY DEF Answered
<1>5. T = Children(r) \ visited
  BY DEF FoundDirs, Children
<1>6. r \notin answers /\ \A q \in answers : q.path # r.path
  BY <1>1 DEF Answered
<1>7. answers' \subseteq AnswerType /\ IsFiniteSet(answers')
  BY <1>1, FS_AddElement
<1>8. \A q, s \in answers' : q.path = s.path => q = s
  BY <1>1, <1>6
<1> HIDE DEF T
<1>9. visited' = Answered' \cup Pending' /\ Answered' \cap Pending' = {}
  BY <1>1, <1>4, <1>5 DEF T
<1>10. Roots' \subseteq visited' /\ \A q \in answers' : Children(q)' \subseteq visited'
  BY <1>1, <1>3, <1>5 DEF T
<1>11. ASSUME NEW D \in SUBSET Folders, Roots \subseteq D,
              \A q \in answers' : q.path \in D => Children(q) \subseteq D
       PROVE  visited' \subseteq D
  <2>1. \A q \in answers : q.path \in D => Children(q) \subseteq D
    BY <1>11
  <2>2. visited \subseteq D
    BY <1>11, <2>1 DEF Tally
  <2>3. r.path \in D /\ r \in answers'
    BY <1>1, <2>2
  <2>4. Children(r) \subseteq D
    BY <1>11, <2>3
  <2> QED
    BY <1>5, <2>2, <2>4 DEF T
<1>12. \A q \in answers' : ~q.ok => q.entries = {} /\ q.path \notin Roots'
  BY <1>2, <1>3
<1>13. folderErrors' = Cardinality({q \in answers' : ~q.ok})
  <2>1. IsFiniteSet(F)
    <3>1. F \in SUBSET answers
      OBVIOUS
    <3> QED
      BY <1>1, <3>1, FS_Subset
  <2>2. r \notin F /\ Cardinality(F) \in Nat
    BY <1>6, <2>1, FS_CardinalityType
  <2>3. CASE r.ok
    <3>1. {q \in answers' : ~q.ok} = F
      BY <2>3
    <3>2. folderErrors' = Cardinality(F)
      BY <1>2, <2>2, <2>3
    <3> QED
      BY <3>1, <3>2
  <2>4. CASE ~r.ok
    <3>1. {q \in answers' : ~q.ok} = F \cup {r}
      BY <2>4
    <3>2. Cardinality(F \cup {r}) = Cardinality(F) + 1
      BY <2>1, <2>2, FS_AddElement
    <3> QED
      BY <1>2, <2>4, <3>1, <3>2
  <2> QED
    BY <2>3, <2>4
<1>14. files' = UNION {FoundFiles(q.path, q.entries)' : q \in answers'}
  <2>1. files' = UNION {FoundFiles(q.path, q.entries) : q \in answers'}
    BY <1>2
  <2> QED
    BY <1>3, <2>1
<1> QED
  BY <1>3, <1>7, <1>8, <1>9, <1>10, <1>11, <1>12, <1>13, <1>14 DEF Tally

LEMMA NothingFound ==
    ASSUME NEW d
    PROVE  FoundDirs(d, {}) = {} /\ FoundFiles(d, {}) = {}
<1> QED
  BY DEF FoundDirs, FoundFiles

\* A pending directory could not be listed and is no root.
LEMMA FailureAnswered ==
    ASSUME IInv, Tally, running, NEW r \in AnswerType, ~r.ok, r.entries = {},
           r.path \in Pending, r.path \notin Roots,
           answers' = answers \cup {r}, Pending' = Pending \ {r.path},
           folderErrors' = folderErrors + 1, UNCHANGED <<options, visited, files>>
    PROVE  Tally'
<1>1. /\ FoundDirs(r.path, r.entries) = {} /\ FoundFiles(r.path, r.entries) = {}
  BY NothingFound
<1>2. /\ visited' = visited \cup FoundDirs(r.path, r.entries)
      /\ Pending' = (Pending \ {r.path}) \cup FoundDirs(r.path, r.entries)
      /\ files' = files \cup FoundFiles(r.path, r.entries)
      /\ folderErrors' = folderErrors + (IF r.ok THEN 0 ELSE 1)
  BY <1>1
<1> QED
  BY <1>2, Answering

\* Neither the books nor the answers change.
LEMMA TallyStays ==
    ASSUME Tally, UNCHANGED <<options, running, visited, files, folderErrors, answers>>,
           running => Pending' = Pending
    PROVE  Tally'
<1>1. SUFFICES ASSUME running PROVE Tally'
  BY DEF Tally
<1>2. /\ Roots' = Roots /\ Answered' = Answered
      /\ \A q : Children(q)' = Children(q)
      /\ \A d, E : FoundFiles(d, E)' = FoundFiles(d, E)
  BY DEF Roots, Children, FoundFiles, SidesOf, Answered
<1>3. files' = UNION {FoundFiles(q.path, q.entries)' : q \in answers'}
  <2>1. files' = UNION {FoundFiles(q.path, q.entries) : q \in answers'}
    BY <1>1 DEF Tally
  <2> QED
    BY <1>2, <2>1
<1>4. /\ answers' \subseteq AnswerType /\ IsFiniteSet(answers')
      /\ \A q, r \in answers' : q.path = r.path => q = r
      /\ visited' = Answered' \cup Pending' /\ Answered' \cap Pending' = {}
      /\ Roots' \subseteq visited'
      /\ \A r \in answers' : ~r.ok => r.entries = {} /\ r.path \notin Roots'
      /\ folderErrors' = Cardinality({r \in answers' : ~r.ok})
  BY <1>1, <1>2 DEF Tally
<1>5. \A r \in answers' : Children(r)' \subseteq visited'
  BY <1>1, <1>2 DEF Tally
<1>6. ASSUME NEW D \in SUBSET Folders, Roots \subseteq D,
             \A q \in answers : q.path \in D => Children(q) \subseteq D
      PROVE  visited \subseteq D
  BY <1>1, <1>6 DEF Tally
<1> QED
  BY <1>2, <1>3, <1>4, <1>5, <1>6 DEF Tally

LEMMA TallyStarts ==
    ASSUME NEW o \in Options, Start(o)
    PROVE  Tally'
<1>1. /\ options' = o /\ visited' = {o.primary, o.secondary} /\ inFlight' = {}
      /\ queue' = IF o.primary = o.secondary THEN <<o.primary>>
                                             ELSE <<o.primary, o.secondary>>
      /\ files' = {} /\ folderErrors' = 0 /\ answers' = {}
  BY DEF Start
<1>2. ToSet(queue') = visited'
  <2>1. CASE o.primary = o.secondary
    BY <1>1, <2>1 DEF ToSet
  <2>2. CASE o.primary # o.secondary
    <3>1. DOMAIN queue' = {1, 2} /\ queue'[1] = o.primary /\ queue'[2] = o.secondary
      BY <1>1, <2>2
    <3> QED
      BY <1>1, <3>1 DEF ToSet
  <2> QED
    BY <2>1, <2>2
<1>3. Answered' = {} /\ Pending' = visited' /\ Roots' = visited'
  BY <1>1, <1>2 DEF Answered, Pending, Roots
<1>4. IsFiniteSet({}) /\ Cardinality({}) = 0
  BY FS_EmptySet
<1>5. {r \in answers' : ~r.ok} = {}
  BY <1>1
<1> QED
  BY <1>1, <1>3, <1>4, <1>5 DEF Tally

LEMMA TallyFails ==
    ASSUME IInv, Tally, NEW d, NEW owner \in 0 .. MaxStarts, NEW c,
           OnDirectoryListFailed(d, owner, c), UNCHANGED options
    PROVE  Tally'
<1> DEFINE r == [path |-> d, owner |-> owner, ok |-> FALSE, entries |-> {}]
<1>1. running /\ d \in inFlight /\ answers' = answers \cup {r}
  BY DEF OnDirectoryListFailed
<1>2. d \in Folders /\ d \notin ToSet(queue) /\ d \in Pending
  BY <1>1 DEF IInv, TypeOK, Ledger, EachFolderOnce, Pending
<1>3. r \in AnswerType /\ r.path = d /\ ~r.ok /\ r.entries = {}
  BY <1>2 DEF AnswerType
<1> HIDE DEF r
<1>4. CASE End("failed", c)
  BY <1>4 DEF End, Tally
<1>5. CASE /\ d \notin {options.primary, options.secondary}
           /\ inFlight' = inFlight \ {d}
           /\ folderErrors' = folderErrors + 1
           /\ UNCHANGED <<running, visited, queue, files, foldersListed, open>>
  <2>1. Pending' = Pending \ {r.path} /\ r.path \notin Roots
    BY <1>2, <1>3, <1>5 DEF Pending, Roots
  <2> QED
    BY <1>1, <1>2, <1>3, <1>5, <2>1, FailureAnswered
<1> QED
  BY <1>4, <1>5 DEF OnDirectoryListFailed

LEMMA TallyListed ==
    ASSUME IInv, Tally, NEW d, NEW owner \in 0 .. MaxStarts, NEW E, E \subseteq Objects,
           OnDirectoryListed(d, owner, E), UNCHANGED options
    PROVE  Tally'
<1> DEFINE r == [path |-> d, owner |-> owner, ok |-> TRUE, entries |-> E]
           T == FoundDirs(d, E)
<1>1. /\ running /\ d \in inFlight /\ answers' = answers \cup {r}
      /\ inFlight' = inFlight \ {d} /\ visited' = visited \cup T
      /\ files' = files \cup FoundFiles(d, E) /\ folderErrors' = folderErrors
  BY DEF OnDirectoryListed
<1>2. PICK n \in SetToSeqs(T) : queue' = queue \o n
  BY DEF OnDirectoryListed
<1>3. IsFiniteSet(T) /\ T \subseteq Folders /\ T \cap visited = {}
  BY FoundDirsFacts
<1> HIDE DEF T
<1>4. /\ d \in Folders /\ d \notin ToSet(queue) /\ d \in Pending
      /\ queue \in Seq(Folders) /\ IsInjective(queue)
      /\ ToSet(queue) \subseteq visited /\ d \in visited
  BY <1>1 DEF IInv, TypeOK, Ledger, EachFolderOnce, Pending
<1>5. T \cap ToSet(queue) = {}
  BY <1>3, <1>4
<1>6. ToSet(queue') = ToSet(queue) \cup T
  BY <1>2, <1>3, <1>4, <1>5, Appended
<1>7. /\ r \in AnswerType /\ r.path = d /\ r.ok /\ r.entries = E
  BY <1>4 DEF AnswerType
<1> HIDE DEF r
<1>8. Pending' = (Pending \ {d}) \cup T
  BY <1>1, <1>3, <1>4, <1>6 DEF Pending
<1>9. folderErrors' = folderErrors + (IF r.ok THEN 0 ELSE 1)
  <2>1. folderErrors \in Nat
    BY DEF IInv, TypeOK
  <2> QED
    BY <1>1, <1>7, <2>1
<1> QED
  BY <1>1, <1>4, <1>7, <1>8, <1>9, Answering DEF T

LEMMA TallyPumps ==
    ASSUME IInv, Tally, PumpNext
    PROVE  Tally'
<1>1. /\ running /\ queue # <<>>
      /\ inFlight' = inFlight \cup {Head(queue)} /\ queue' = Tail(queue)
      /\ UNCHANGED <<options, running, visited, files, folderErrors, answers>>
  BY DEF PumpNext
<1>2. queue \in Seq(Folders) /\ IsInjective(queue)
  BY DEF IInv, TypeOK, Ledger, EachFolderOnce
<1>3. /\ Head(queue) \in ToSet(queue)
      /\ ToSet(Tail(queue)) = ToSet(queue) \ {Head(queue)}
  BY <1>1, <1>2, TailOfQueue
<1>4. Pending' = Pending
  BY <1>1, <1>3 DEF Pending
<1> QED
  BY <1>1, <1>4, TallyStays

LEMMA TallyPumpFails ==
    ASSUME IInv, Tally, PumpNextFails
    PROVE  Tally'
<1> DEFINE d == Head(queue)
           r == [path |-> d, owner |-> starts, ok |-> FALSE, entries |-> {}]
<1>1. running /\ queue # <<>> /\ answers' = answers \cup {r} /\ UNCHANGED options
  BY DEF PumpNextFails
<1>2. queue \in Seq(Folders) /\ IsInjective(queue)
  BY DEF IInv, TypeOK, Ledger, EachFolderOnce
<1>3. /\ d \in ToSet(queue) /\ d \in Folders
      /\ ToSet(Tail(queue)) = ToSet(queue) \ {d}
  BY <1>1, <1>2, TailOfQueue
<1>4. /\ r \in AnswerType /\ r.path = d /\ ~r.ok /\ r.entries = {}
  BY <1>3 DEF AnswerType, IInv, TypeOK
<1>5. \/ End("failed", calls)
      \/ /\ d \notin {options.primary, options.secondary}
         /\ queue' = Tail(queue) /\ folderErrors' = folderErrors + 1
         /\ UNCHANGED <<running, visited, inFlight, files, foldersListed, open>>
  BY DEF PumpNextFails
<1>6. d \in Pending /\ d \notin inFlight
  BY <1>1, <1>3 DEF Pending, IInv, Ledger, EachFolderOnce
<1> HIDE DEF d, r
<1>7. CASE End("failed", calls)
  BY <1>7 DEF End, Tally
<1>8. CASE /\ d \notin {options.primary, options.secondary}
           /\ queue' = Tail(queue) /\ folderErrors' = folderErrors + 1
           /\ UNCHANGED <<running, visited, inFlight, files, foldersListed, open>>
  <2>1. Pending' = Pending \ {r.path} /\ r.path \notin Roots
    BY <1>3, <1>4, <1>6, <1>8 DEF Pending, Roots
  <2> QED
    BY <1>1, <1>4, <1>6, <1>8, <2>1, FailureAnswered
<1> QED
  BY <1>5, <1>7, <1>8

LEMMA TallyStep == IInv /\ Tally /\ [Next]_vars => Tally'
<1>1. SUFFICES ASSUME IInv, Tally, [Next]_vars PROVE Tally'
  OBVIOUS
<1>2. ASSUME UNCHANGED <<options, running, traversal, answers>> PROVE Tally'
  <2>1. UNCHANGED <<options, running, visited, files, folderErrors, answers>>
        /\ Pending' = Pending
    BY <1>2 DEF traversal, Pending
  <2> QED
    BY <1>1, <2>1, TallyStays
<1>3. ASSUME ~running' PROVE Tally'
  BY <1>3 DEF Tally
<1>4. CASE Searcher
  <2>1. CASE PumpEnds
    BY <1>2, <1>3, <2>1 DEF PumpEnds, End
  <2>2. CASE HandlerReturns
    BY <1>2, <2>2 DEF HandlerReturns, history
  <2> QED
    BY <1>1, <1>4, <2>1, <2>2, TallyPumps, TallyPumpFails DEF Searcher
<1>5. ASSUME NEW r \in wire, ServerLists(r) \/ Deliver(r) PROVE Tally'
  <2>1. CASE ServerLists(r)
    BY <1>2, <2>1 DEF ServerLists, history
  <2>2. CASE Deliver(r)
    <3>1. r.owner \in 0 .. MaxStarts /\ r.entries \subseteq Objects /\ UNCHANGED options
      <4>1. r \in Requests
        BY <1>1 DEF IInv, TypeOK
      <4> QED
        BY <2>2, <4>1 DEF Requests, Deliver
    <3>2. CASE Dropped(r.path)
      BY <1>2, <3>1, <3>2 DEF Dropped
    <3> QED
      BY <1>1, <2>2, <3>1, <3>2, TallyListed, TallyFails DEF Deliver
  <2> QED
    BY <1>5, <2>1, <2>2
<1>6. ASSUME NEW o \in Options, Start(o) PROVE Tally'
  BY <1>6, TallyStarts
<1>7. CASE Cancel
  BY <1>3, <1>7 DEF Cancel, End
<1>8. ASSUME NEW d \in Shown, OtherLists(d) \/ OtherFails(d) PROVE Tally'
  <2>1. CASE OtherLists(d)
    BY <1>2, <2>1 DEF OtherLists, history
  <2>2. CASE OtherFails(d)
    <3>1. UNCHANGED options /\ 0 \in 0 .. MaxStarts
      BY <2>2, BoundsAssumption DEF OtherFails
    <3>2. CASE Dropped(d)
      BY <1>2, <3>1, <3>2 DEF Dropped
    <3> QED
      BY <1>1, <2>2, <3>1, <3>2, TallyFails DEF OtherFails
  <2> QED
    BY <1>8, <2>1, <2>2
<1>9. ASSUME NEW o \in Changing, Change(o) PROVE Tally'
  BY <1>2, <1>9 DEF Change, history
<1>10. CASE Disconnect
  BY <1>3, <1>10 DEF Disconnect
<1>11. CASE UNCHANGED vars
  BY <1>2, <1>11 DEF vars, history
<1> QED
  BY <1>1, <1>4, <1>5, <1>6, <1>7, <1>8, <1>9, <1>10, <1>11 DEF Next, Session

-----------------------------------------------------------------------------
(* A search that finishes.                                                 *)

Finishes == PumpEnds /\ running /\ queue = <<>> /\ inFlight = {} /\ End("finished", Tail(calls))

\* finished goes out from one place.
LEMMA FinishedOnce == Next => Finishes \/ signal'.kind # "finished"
<1>1. SUFFICES ASSUME Next PROVE Finishes \/ signal'.kind # "finished"
  OBVIOUS
<1>2. /\ NoSignal.kind # "finished"
      /\ \A c : Progress(c) => signal'.kind # "finished"
      /\ \A kind, c : End(kind, c) => signal'.kind = kind
  BY DEF NoSignal, Progress, End
<1>3. CASE Searcher
  <2>1. CASE PumpEnds
    BY <1>2, <2>1 DEF PumpEnds, Finishes
  <2>2. CASE ~PumpEnds
    BY <1>2, <1>3, <2>2 DEF Searcher, PumpNext, PumpNextFails, HandlerReturns
  <2> QED
    BY <2>1, <2>2
<1>4. \A d, owner, c : OnDirectoryListFailed(d, owner, c) => signal'.kind # "finished"
  BY <1>2 DEF OnDirectoryListFailed
<1>5. CASE Session
  BY <1>2, <1>4, <1>5 DEF Session, ServerLists, Deliver, OnDirectoryListed, Dropped
<1>6. ASSUME NEW d \in Shown, OtherLists(d) \/ OtherFails(d) PROVE signal'.kind # "finished"
  BY <1>2, <1>4, <1>6 DEF OtherLists, OtherFails, Dropped
<1>7. ASSUME NEW o \in Options, Start(o) PROVE signal'.kind # "finished"
  BY <1>2, <1>7 DEF Start
<1>8. ASSUME NEW o \in Changing, Change(o) PROVE signal'.kind # "finished"
  BY <1>2, <1>8 DEF Change
<1>9. CASE Cancel \/ Disconnect
  BY <1>2, <1>9 DEF Cancel, Disconnect
<1> QED
  BY <1>1, <1>3, <1>5, <1>6, <1>7, <1>8, <1>9 DEF Next

\* With nothing pending the directories answered are those the roots lead to.
LEMMA AllAnswered ==
    ASSUME IInv, Tally, running, queue = <<>>, inFlight = {}
    PROVE  /\ Closed(Answered)
           /\ \A D \in SUBSET Answered : Closed(D) => D = Answered
           /\ \A d \in {options.primary, options.secondary} : AnswerOf(d).ok
<1>1. visited = Answered /\ visited \subseteq Folders
  <2>1. Pending = {}
    BY DEF Pending, ToSet
  <2> QED
    BY <2>1 DEF Tally, IInv, TypeOK
<1>2. \A r \in answers : AnswerOf(r.path) = r
  BY DEF Tally, AnswerOf
<1>3. \A d \in Answered : \E r \in answers : r.path = d /\ AnswerOf(d) = r
  BY <1>2 DEF Answered
<1>4. Closed(Answered)
  <2>1. {options.primary, options.secondary} \subseteq Answered
    BY <1>1 DEF Tally, Roots
  <2>2. ASSUME NEW d \in Answered, NEW e \in AnswerOf(d).entries,
               e.isDir, SidesOf(PathOf(e)) # {}
        PROVE  PathOf(e) \in Answered
    <3>1. PICK r \in answers : r.path = d /\ AnswerOf(d) = r
      BY <1>3
    <3>2. PathOf(e) \in Children(r)
      BY <2>2, <3>1 DEF Children
    <3> QED
      BY <1>1, <3>2 DEF Tally
  <2> QED
    BY <2>1, <2>2 DEF Closed
<1>5. ASSUME NEW D \in SUBSET Answered, Closed(D) PROVE D = Answered
  <2>1. Roots \subseteq D /\ D \in SUBSET Folders
    BY <1>1, <1>5 DEF Closed, Roots
  <2>2. ASSUME NEW r \in answers, r.path \in D PROVE Children(r) \subseteq D
    <3>1. r.path \in D \cap Answered /\ AnswerOf(r.path) = r
      BY <1>2, <2>2 DEF Answered
    <3> QED
      BY <1>5, <3>1 DEF Closed, Children
  <2>3. visited \subseteq D
    BY <2>1, <2>2 DEF Tally
  <2> QED
    BY <1>1, <2>3
<1>6. ASSUME NEW d \in {options.primary, options.secondary} PROVE AnswerOf(d).ok
  <2>1. d \in Answered /\ d \in Roots
    BY <1>1 DEF Tally, Roots
  <2>2. PICK r \in answers : r.path = d /\ AnswerOf(d) = r
    BY <1>3, <2>1
  <2> QED
    BY <2>1, <2>2 DEF Tally
<1> QED
  BY <1>4, <1>5, <1>6

LEMMA FilesAnswered ==
    ASSUME IInv, Tally, running
    PROVE  files = UNION {{[path |-> PathOf(e), size |-> e.size,
                            sides |-> {s \in Sides : OnSide(r.path, s)}] :
                             e \in {x \in r.entries :
                                      /\ ~x.isDir /\ x.name \notin TmpNames
                                      /\ x.size >= options.sizeMinBytes}} :
                           r \in answers}
<1> DEFINE Shows(r) == {[path |-> PathOf(e), size |-> e.size,
                         sides |-> {s \in Sides : OnSide(r.path, s)}] :
                          e \in {x \in r.entries :
                                   /\ ~x.isDir /\ x.name \notin TmpNames
                                   /\ x.size >= options.sizeMinBytes}}
<1>1. files = UNION {FoundFiles(r.path, r.entries) : r \in answers}
  BY DEF Tally
<1>2. ASSUME NEW r \in answers PROVE FoundFiles(r.path, r.entries) = Shows(r)
  <2>1. r.path \in Folders /\ options \in Options
    BY DEF Tally, AnswerType, IInv, TypeOK
  <2>2. SidesOf(r.path) = {s \in Sides : OnSide(r.path, s)}
    BY <2>1, SidesAreReached
  <2> HIDE DEF OnSide
  <2> QED
    BY <2>2 DEF FoundFiles
<1> HIDE DEF Shows
<1>3. {FoundFiles(r.path, r.entries) : r \in answers} = {Shows(r) : r \in answers}
  BY <1>2
<1>4. files = UNION {Shows(r) : r \in answers}
  BY <1>1, <1>3
<1> QED
  BY <1>4 DEF Shows

LEMMA CompleteStep ==
    IInv /\ Tally /\ FinishedIsComplete /\ [Next]_vars => FinishedIsComplete'
<1>1. SUFFICES ASSUME IInv, Tally, FinishedIsComplete, [Next]_vars
               PROVE  FinishedIsComplete'
  OBVIOUS
<1>2. ASSUME UNCHANGED <<options, answers>>
      PROVE  /\ Answered' = Answered
             /\ \A d : AnswerOf(d)' = AnswerOf(d)
             /\ \A D : Closed(D)' = Closed(D)
             /\ \A d, s : OnSide(d, s)' = OnSide(d, s)
  BY <1>2 DEF Answered, AnswerOf, Closed, SidesOf, OnSide
<1>3. CASE Finishes
  <2>1. /\ running /\ queue = <<>> /\ inFlight = {}
        /\ UNCHANGED <<options, answers>>
        /\ signal' = [kind |-> "finished", files |-> files, errors |-> folderErrors]
    BY <1>3 DEF Finishes, PumpEnds, End
  <2>2. /\ Closed(Answered)
        /\ \A D \in SUBSET Answered : Closed(D) => D = Answered
        /\ \A d \in {options.primary, options.secondary} : AnswerOf(d).ok
    BY <1>1, <2>1, AllAnswered
  <2>3. signal'.errors = Cardinality({r \in answers : ~r.ok})
    BY <1>1, <2>1 DEF Tally
  <2>4. signal'.files = files
    BY <2>1
  <2>5. signal'.files = UNION {{[path |-> PathOf(e), size |-> e.size,
                                 sides |-> {s \in Sides : OnSide(r.path, s)}] :
                                  e \in {x \in r.entries :
                                           /\ ~x.isDir /\ x.name \notin TmpNames
                                           /\ x.size >= options.sizeMinBytes}} :
                                r \in answers}
    BY <1>1, <2>1, <2>4, FilesAnswered
  <2> QED
    BY <1>2, <2>1, <2>2, <2>3, <2>5 DEF FinishedIsComplete
<1>4. CASE signal'.kind # "finished"
  BY <1>4 DEF FinishedIsComplete
<1>5. CASE UNCHANGED vars
  <2>1. UNCHANGED <<options, answers, signal>>
    BY <1>5 DEF vars, history
  <2> QED
    BY <1>1, <1>2, <2>1 DEF FinishedIsComplete
<1> QED
  BY <1>1, <1>3, <1>4, <1>5, FinishedOnce

\* A search that finishes has an answer for exactly the directories that its
\* two walks reach and gathered exactly the files they show, whatever the
\* share, the order of the answers and the listings of other consumers.
THEOREM FinishesComplete == Spec => []FinishedIsComplete
<1>1. Init => Tally /\ FinishedIsComplete
  BY DEF Init, Tally, FinishedIsComplete, NoSignal
<1> QED
  BY <1>1, InvAlways, StepInv, TallyStep, CompleteStep, PTL DEF Spec
=============================================================================
