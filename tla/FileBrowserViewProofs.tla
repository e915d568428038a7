------------------------ MODULE FileBrowserViewProofs ------------------------
(***************************************************************************)
(* Proofs about FileBrowserView for every share and every user: that each  *)
(* row of a listing is accounted for, that the view waits for nothing that *)
(* does not come, that it comes to show the last path asked for, and that  *)
(* it selects only what it was asked to reveal.                            *)
(***************************************************************************)
EXTENDS FileBrowserView, FiniteSetTheorems, TLAPS

\* The order of the stats has every row, what the cursor has passed was asked
\* for, and rows are those of a folder.
Ordered ==
    /\ ToSet(statOrder) = DOMAIN nlink
    /\ statRequested \subseteq DOMAIN nlink
    /\ \A k \in 1 .. statCursor - 1 : statOrder[k] \in statRequested
    /\ DOMAIN nlink # {} => currentPath # None /\ shown # 0

\* The listing that is pending is for the reveal that is pending.
Reveal ==
    pendingReveal # None /\ pendingPath # None => wanted = <<pendingPath, pendingReveal>>

\* The parts of NeverStranded.
Pending == pendingPath # None => \E r \in wire : r.kind = "list" /\ r.dir = pendingPath
Answering == \A n \in statInFlight : StatOf(currentPath, n, shown) \in wire
Asking == ~pumping /\ SlotFree => DOMAIN nlink \subseteq statRequested

IInv == /\ TypeOK /\ Ordered /\ EveryRowAccounted
        /\ Pending /\ Answering /\ Asking
        /\ LastRequestWins /\ Reveal

-----------------------------------------------------------------------------
(* Slots and the order of the stats.                                       *)

LEMMA SlotsFinite == ASSUME TypeOK PROVE IsFiniteSet(statInFlight) /\ Cardinality(statInFlight) \in Nat
<1>1. statInFlight \subseteq Files
  BY DEF TypeOK
<1> QED
  BY <1>1, FilesAssumption, FS_Subset, FS_CardinalityType

\* Whatever order the rows get in, each is in it.
LEMMA OrderHasAll ==
    ASSUME NEW N \in SUBSET Files, NEW s \in SetToSeqs(N)
    PROVE  s \in Seq(Files) /\ ToSet(s) = N
<1> DEFINE D == 1 .. Cardinality(N)
<1>1. IsFiniteSet(N) /\ Cardinality(N) \in Nat
  BY FilesAssumption, FS_Subset, FS_CardinalityType
<1>2. s \in [D -> N] /\ \A i, j \in D : i # j => s[i] # s[j]
  BY DEF SetToSeqs
<1>3. s \in Seq(Files) /\ DOMAIN s = D
  BY <1>1, <1>2
<1>4. IsFiniteSet(D) /\ Cardinality(D) = Cardinality(N)
  BY <1>1, FS_Interval
<1>5. s \in Injection(D, N)
  BY <1>2 DEF Injection, IsInjective
<1>6. s \in Surjection(D, N)
  BY <1>1, <1>4, <1>5, FS_Injection
<1>7. \A n \in N : \E i \in D : s[i] = n
  BY <1>6 DEF Surjection
<1> QED
  BY <1>2, <1>3, <1>7 DEF ToSet

LEMMA RequestFacts ==
    ASSUME NEW l \in Nat, NEW s \in Nat, NEW r \in Requests(l, s)
    PROVE  /\ r.kind \in {"list", "stat"} /\ r.dir \in Dirs
           /\ r.kind = "stat" => r.name \in Files /\ r.of \in 1 .. s
<1>1. CASE r \in {ListOf(d, k) : d \in Dirs, k \in 1 .. l}
  BY <1>1 DEF ListOf
<1>2. CASE r \in {StatOf(d, n, k) : d \in Dirs, n \in Files, k \in 1 .. s}
  BY <1>2 DEF StatOf
<1> QED
  BY <1>1, <1>2 DEF Requests

LEMMA MoreRequests ==
    ASSUME NEW l \in Nat, NEW s \in Nat, NEW m \in Nat, NEW t \in Nat, l <= m, s <= t
    PROVE  Requests(l, s) \subseteq Requests(m, t)
<1>1. 1 .. l \subseteq 1 .. m /\ 1 .. s \subseteq 1 .. t
  OBVIOUS
<1> QED
  BY <1>1 DEF Requests

-----------------------------------------------------------------------------
(* Navigation.                                                             *)

LEMMA AskKeeps ==
    ASSUME IInv, NEW d \in Dirs, Ask(d), pendingReveal' \in Files \cup {None},
           pendingReveal' # None => wanted' = <<d, pendingReveal'>>
    PROVE  IInv'
<1>1. /\ navs' = navs + 1 /\ asked' = d
      /\ UNCHANGED <<currentPath, selected, nlink, statOrder, statCursor, statRequested,
                     statInFlight, pumping, shown>>
      /\ \/ pendingPath' = d /\ wire' = wire \cup {ListOf(d, navs + 1)}
         \/ pendingPath' = None /\ failed' = TRUE /\ wire' = wire
  BY DEF Ask, ListDirectory, stats
<1>2. d # None
  BY NamesAssumption DEF None
<1>3. TypeOK'
  <2>1. navs \in Nat /\ navs' \in Nat /\ shown \in Nat /\ wire \subseteq Requests(navs, shown)
    BY <1>1 DEF IInv, TypeOK
  <2>2. ListOf(d, navs + 1) \in Requests(navs', shown)
    BY <1>1, <2>1 DEF Requests
  <2>3. Requests(navs, shown) \subseteq Requests(navs', shown)
    BY <1>1, <2>1, MoreRequests
  <2>4. wire' \subseteq Requests(navs', shown')
    BY <1>1, <2>1, <2>2, <2>3
  <2> QED
    BY <1>1, <2>1, <2>4 DEF IInv, TypeOK
<1>4. Ordered' /\ EveryRowAccounted'
  BY <1>1 DEF IInv, Ordered, EveryRowAccounted, Unknown
<1>5. Pending'
  <2>1. ListOf(d, navs + 1).kind = "list" /\ ListOf(d, navs + 1).dir = d
    BY DEF ListOf
  <2> QED
    BY <1>1, <2>1 DEF Pending
<1>6. Answering' /\ Asking'
  BY <1>1 DEF IInv, Answering, Asking, SlotFree, StatOf
<1>7. LastRequestWins' /\ Reveal'
  BY <1>1, <1>2 DEF LastRequestWins, Reveal
<1> QED
  BY <1>3, <1>4, <1>5, <1>6, <1>7 DEF IInv

LEMMA NavigateToKeeps == ASSUME IInv, NEW d \in Dirs, NavigateTo(d) PROVE IInv'
<1> QED
  BY AskKeeps DEF NavigateTo

LEMMA NavigateToAndRevealKeeps ==
    ASSUME IInv, NEW d \in Dirs, NEW n \in Files, NavigateToAndReveal(d, n) PROVE IInv'
<1>1. CASE Ask(d) /\ pendingReveal' = n
  BY <1>1, AskKeeps DEF NavigateToAndReveal
<1>2. CASE /\ d = currentPath /\ pendingPath = None /\ Select(n)
           /\ UNCHANGED <<currentPath, pendingPath, pendingReveal, nlink, stats,
                          pumping, wire, navs, asked, failed, shown, others>>
  <2>1. TypeOK'
    BY <1>2 DEF IInv, TypeOK, Select, stats
  <2>2. Ordered' /\ EveryRowAccounted' /\ Pending' /\ Answering' /\ Asking' /\ LastRequestWins'
    BY <1>2 DEF IInv, Ordered, EveryRowAccounted, Pending, Answering, Asking, SlotFree,
                LastRequestWins, stats
  <2>3. Reveal'
    BY <1>2 DEF Reveal
  <2> QED
    BY <2>1, <2>2, <2>3 DEF IInv
<1> QED
  BY <1>1, <1>2 DEF NavigateToAndReveal

\* A listing lands; the answer to it is the only request that goes.
LEMMA ListedKeeps ==
    ASSUME IInv, NEW d \in Dirs, NEW N \in SUBSET Files, ~pumping, OnDirectoryListed(d, N),
           wire' \subseteq wire, \A r \in wire \ wire' : r.kind = "list" /\ r.dir = d
    PROVE  IInv'
<1>1. UNCHANGED <<navs, asked, failed, wanted>>
  BY DEF OnDirectoryListed
<1>2. CASE Show(d, N)
  <2>1. /\ d = pendingPath /\ pendingPath' = None /\ currentPath' = d /\ shown' = shown + 1
        /\ nlink' = [n \in N |-> Unknown] /\ statOrder' \in SetToSeqs(N)
        /\ statCursor' = 1 /\ statRequested' = {} /\ statInFlight' = {}
        /\ pumping' = TRUE /\ pendingReveal' = None
        /\ selected' = IF pendingReveal \in N THEN pendingReveal ELSE None
    BY <1>2 DEF Show, SetEntries
  <2>2. statOrder' \in Seq(Files) /\ ToSet(statOrder') = N
    BY <2>1, OrderHasAll
  <2>3. shown \in Nat /\ shown' \in Nat /\ navs \in Nat /\ d # None
    BY <2>1, NamesAssumption DEF IInv, TypeOK, None
  <2>4. TypeOK'
    <3>1. nlink' \in [DOMAIN nlink' -> [state : {"unknown", "counted", "unavailable"}, of : 0 .. shown']]
          /\ DOMAIN nlink' = N
      BY <2>1, <2>3 DEF Unknown
    <3>2. Cardinality(statInFlight') <= MaxStatsInFlight
      BY <2>1, FS_EmptySet, BoundsAssumption
    <3>3. statCursor' \in 1 .. Len(statOrder') + 1
      BY <2>1, <2>2
    <3>4. Requests(navs, shown) \subseteq Requests(navs, shown')
      BY <2>1, <2>3, MoreRequests
    <3>5. wire' \subseteq Requests(navs', shown')
      BY <1>1, <3>4 DEF IInv, TypeOK
    <3>6. selected' \in Files \cup {None}
      BY <2>1
    <3> QED
      BY <1>1, <2>1, <2>2, <2>3, <3>1, <3>2, <3>3, <3>5, <3>6 DEF IInv, TypeOK
  <2>5. Ordered'
    BY <2>1, <2>2, <2>3 DEF Ordered
  <2>6. EveryRowAccounted'
    BY <2>1, <2>2 DEF EveryRowAccounted, Unknown
  <2>7. Pending' /\ Answering' /\ Asking' /\ Reveal'
    BY <2>1 DEF Pending, Answering, Asking, Reveal
  <2>8. LastRequestWins'
    BY <1>1, <2>1, <2>3 DEF IInv, LastRequestWins
  <2> QED
    BY <2>4, <2>5, <2>6, <2>7, <2>8 DEF IInv
<1>3. CASE /\ d # pendingPath
           /\ UNCHANGED <<currentPath, pendingPath, pendingReveal, selected, nlink,
                          stats, pumping, shown>>
  <2>1. TypeOK'
    BY <1>1, <1>3 DEF IInv, TypeOK, stats
  <2>2. Ordered' /\ EveryRowAccounted' /\ Asking' /\ LastRequestWins' /\ Reveal'
    BY <1>1, <1>3 DEF IInv, Ordered, EveryRowAccounted, Asking, SlotFree, LastRequestWins, Reveal, stats
  <2>3. Pending'
    BY <1>3 DEF IInv, Pending
  <2>4. Answering'
    BY <1>3 DEF IInv, Answering, StatOf, stats
  <2> QED
    BY <2>1, <2>2, <2>3, <2>4 DEF IInv
<1> QED
  BY <1>2, <1>3 DEF OnDirectoryListed

LEMMA ListFailedKeeps ==
    ASSUME IInv, NEW d \in Dirs, OnDirectoryListFailed(d),
           wire' \subseteq wire, \A r \in wire \ wire' : r.kind = "list" /\ r.dir = d
    PROVE  IInv'
<1>1. /\ UNCHANGED <<currentPath, selected, nlink, stats, pumping, navs, asked, wanted, shown>>
      /\ \/ d = pendingPath /\ pendingPath' = None /\ pendingReveal' = None /\ failed' = TRUE
         \/ d # pendingPath /\ UNCHANGED <<pendingPath, pendingReveal, failed>>
  BY DEF OnDirectoryListFailed
<1>2. TypeOK'
  BY <1>1 DEF IInv, TypeOK, stats
<1>3. Ordered' /\ EveryRowAccounted' /\ Asking'
  BY <1>1 DEF IInv, Ordered, EveryRowAccounted, Asking, SlotFree, stats
<1>4. Pending' /\ LastRequestWins' /\ Reveal'
  BY <1>1 DEF IInv, Pending, LastRequestWins, Reveal
<1>5. Answering'
  BY <1>1 DEF IInv, Answering, StatOf, stats
<1> QED
  BY <1>2, <1>3, <1>4, <1>5 DEF IInv

-----------------------------------------------------------------------------
(* Link counts.                                                            *)

\* The row pumpStats takes next is one of the listing that was not asked for.
LEMMA NextRow ==
    ASSUME IInv, NEW n \in Files, NextStatRow(n)
    PROVE  /\ n \in DOMAIN nlink /\ nlink[n] = Unknown
           /\ n \notin statRequested /\ n \notin statInFlight
           /\ statCursor' \in 1 .. Len(statOrder) + 1
           /\ \A k \in 1 .. statCursor' - 1 : statOrder[k] \in statRequested
<1>1. statOrder \in Seq(Files) /\ statCursor \in 1 .. Len(statOrder) + 1 /\ Len(statOrder) \in Nat
  BY DEF IInv, TypeOK
<1>2. CASE /\ n \in DOMAIN nlink /\ nlink[n] = Unknown /\ n \notin statRequested
           /\ UNCHANGED statCursor
  BY <1>1, <1>2 DEF IInv, TypeOK, Ordered
<1>3. ASSUME NEW k \in Ahead, \A l \in Ahead : k <= l, statOrder[k] = n, statCursor' = k
      PROVE  /\ n \in DOMAIN nlink /\ nlink[n] = Unknown
             /\ n \notin statRequested /\ n \notin statInFlight
             /\ statCursor' \in 1 .. Len(statOrder) + 1
             /\ \A l \in 1 .. statCursor' - 1 : statOrder[l] \in statRequested
  <2>1. k \in statCursor .. Len(statOrder) /\ k \in 1 .. Len(statOrder) /\ n \notin statRequested
    BY <1>1, <1>3 DEF Ahead
  <2>2. n \in DOMAIN nlink
    BY <1>1, <1>3, <2>1 DEF IInv, Ordered, ToSet
  <2>3. nlink[n] = Unknown /\ n \notin statInFlight
    BY <2>1, <2>2 DEF IInv, TypeOK, EveryRowAccounted
  <2>4. ASSUME NEW l \in 1 .. k - 1 PROVE statOrder[l] \in statRequested
    <3>1. l \in 1 .. statCursor - 1 \/ l \in statCursor .. Len(statOrder)
      BY <1>1, <2>1
    <3>2. l \notin Ahead
      BY <1>1, <1>3, <2>1
    <3> QED
      BY <3>1, <3>2 DEF Ahead, IInv, Ordered
  <2> QED
    BY <1>1, <1>3, <2>1, <2>2, <2>3, <2>4
<1> QED
  BY <1>2, <1>3 DEF NextStatRow

LEMMA PumpNextKeeps == ASSUME IInv, PumpNext PROVE IInv'
<1>1. PICK n \in Files : /\ NextStatRow(n)
                         /\ statRequested' = statRequested \cup {n}
                         /\ statInFlight' = statInFlight \cup {n}
                         /\ wire' = wire \cup {StatOf(currentPath, n, shown)}
  BY DEF PumpNext
<1>2. /\ pumping /\ SlotFree
      /\ UNCHANGED <<currentPath, pendingPath, pendingReveal, selected, nlink,
                     statOrder, pumping, navs, asked, failed, wanted, shown>>
  BY DEF PumpNext, history
<1>3. /\ n \in DOMAIN nlink /\ nlink[n] = Unknown
      /\ n \notin statRequested /\ n \notin statInFlight
      /\ statCursor' \in 1 .. Len(statOrder) + 1
      /\ \A k \in 1 .. statCursor' - 1 : statOrder[k] \in statRequested
  BY <1>1, NextRow
<1>4. currentPath \in Dirs /\ shown \in Nat \ {0}
  BY <1>3 DEF IInv, TypeOK, Ordered
<1>5. TypeOK'
  <2>1. Cardinality(statInFlight') <= MaxStatsInFlight
    <3>1. Cardinality(statInFlight') = Cardinality(statInFlight) + 1 /\ Cardinality(statInFlight) \in Nat
      BY <1>1, <1>3, SlotsFinite, FS_AddElement DEF IInv
    <3> QED
      BY <1>2, <3>1, BoundsAssumption DEF SlotFree
  <2>2. StatOf(currentPath, n, shown) \in Requests(navs, shown)
    BY <1>4 DEF Requests
  <2>3. wire' \subseteq Requests(navs', shown')
    BY <1>1, <1>2, <2>2 DEF IInv, TypeOK
  <2> QED
    BY <1>1, <1>2, <1>3, <2>1, <2>3 DEF IInv, TypeOK
<1>6. Ordered'
  BY <1>1, <1>2, <1>3 DEF IInv, Ordered
<1>7. EveryRowAccounted'
  BY <1>1, <1>2, <1>3 DEF IInv, EveryRowAccounted, Unknown
<1>8. Pending' /\ Answering' /\ Asking'
  BY <1>1, <1>2 DEF IInv, Pending, Answering, Asking
<1>9. LastRequestWins' /\ Reveal'
  BY <1>2 DEF IInv, LastRequestWins, Reveal
<1> QED
  BY <1>5, <1>6, <1>7, <1>8, <1>9 DEF IInv

LEMMA PumpNextFailsKeeps == ASSUME IInv, PumpNextFails PROVE IInv'
<1>1. PICK n \in Files : /\ NextStatRow(n)
                         /\ statRequested' = statRequested \cup {n}
                         /\ SetNlink(n, [state |-> "unavailable", of |-> shown])
  BY DEF PumpNextFails
<1>2. /\ pumping
      /\ UNCHANGED <<currentPath, pendingPath, pendingReveal, selected, statInFlight,
                     statOrder, pumping, wire, navs, asked, failed, wanted, shown>>
  BY DEF PumpNextFails, history
<1>3. /\ n \in DOMAIN nlink /\ nlink[n] = Unknown
      /\ n \notin statRequested /\ n \notin statInFlight
      /\ statCursor' \in 1 .. Len(statOrder) + 1
      /\ \A k \in 1 .. statCursor' - 1 : statOrder[k] \in statRequested
  BY <1>1, NextRow
<1>4. /\ nlink' = [nlink EXCEPT ![n] = [state |-> "unavailable", of |-> shown]]
      /\ DOMAIN nlink' = DOMAIN nlink
      /\ \A m \in DOMAIN nlink : nlink'[m] = IF m = n THEN [state |-> "unavailable", of |-> shown] ELSE nlink[m]
  BY <1>1 DEF SetNlink, IInv, TypeOK
<1>5. TypeOK'
  <2>1. shown \in Nat
    BY DEF IInv, TypeOK
  <2>2. nlink' \in [DOMAIN nlink' -> [state : {"unknown", "counted", "unavailable"}, of : 0 .. shown']]
    <3>1. [state |-> "unavailable", of |-> shown] \in [state : {"unknown", "counted", "unavailable"}, of : 0 .. shown]
      BY <2>1
    <3>2. nlink \in [DOMAIN nlink -> [state : {"unknown", "counted", "unavailable"}, of : 0 .. shown]]
      BY DEF IInv, TypeOK
    <3> QED
      BY <1>2, <1>4, <3>1, <3>2
  <2> QED
    BY <1>1, <1>2, <1>3, <1>4, <2>2 DEF IInv, TypeOK
<1>6. Ordered'
  BY <1>1, <1>2, <1>3, <1>4 DEF IInv, Ordered
<1>7. EveryRowAccounted'
  BY <1>1, <1>2, <1>3, <1>4 DEF IInv, EveryRowAccounted, Unknown
<1>8. Pending' /\ Answering' /\ Asking'
  BY <1>2 DEF IInv, Pending, Answering, Asking
<1>9. LastRequestWins' /\ Reveal'
  BY <1>2 DEF IInv, LastRequestWins, Reveal
<1> QED
  BY <1>5, <1>6, <1>7, <1>8, <1>9 DEF IInv

LEMMA PumpEndsKeeps == ASSUME IInv, PumpEnds PROVE IInv'
<1>1. /\ pumping' = FALSE
      /\ UNCHANGED <<currentPath, pendingPath, pendingReveal, selected, nlink,
                     statOrder, statRequested, statInFlight, wire, navs, asked, failed, wanted, shown>>
      /\ \/ ~SlotFree /\ UNCHANGED statCursor
         \/ SlotFree /\ Ahead = {} /\ statCursor' = Len(statOrder) + 1
  BY DEF PumpEnds, history
<1>2. statOrder \in Seq(Files) /\ statCursor \in 1 .. Len(statOrder) + 1 /\ Len(statOrder) \in Nat
  BY DEF IInv, TypeOK
<1>3. ASSUME Ahead = {} PROVE \A k \in 1 .. Len(statOrder) : statOrder[k] \in statRequested
  <2>1. ASSUME NEW k \in 1 .. Len(statOrder) PROVE statOrder[k] \in statRequested
    <3>1. k \in 1 .. statCursor - 1 \/ k \in statCursor .. Len(statOrder)
      BY <1>2
    <3> QED
      BY <1>3, <3>1 DEF Ahead, IInv, Ordered
  <2> QED
    BY <2>1
<1>4. TypeOK'
  <2>1. statCursor' \in 1 .. Len(statOrder) + 1
    BY <1>1, <1>2
  <2>2. pumping' \in BOOLEAN
    BY <1>1
  <2> QED
    BY <1>1, <2>1, <2>2 DEF IInv, TypeOK
<1>5. Ordered'
  BY <1>1, <1>2, <1>3 DEF IInv, Ordered
<1>6. Asking'
  <2>1. SUFFICES ASSUME SlotFree PROVE DOMAIN nlink \subseteq statRequested
    BY <1>1 DEF Asking, SlotFree
  <2>2. \A n \in DOMAIN nlink : \E k \in 1 .. Len(statOrder) : statOrder[k] = n
    BY <1>2 DEF IInv, Ordered, ToSet
  <2> QED
    BY <1>1, <1>3, <2>1, <2>2
<1>7. EveryRowAccounted' /\ Pending' /\ Answering' /\ LastRequestWins' /\ Reveal'
  BY <1>1 DEF IInv, EveryRowAccounted, Pending, Answering, LastRequestWins, Reveal
<1> QED
  BY <1>4, <1>5, <1>6, <1>7 DEF IInv

LEMMA ScrollKeeps == ASSUME IInv, Scroll PROVE IInv'
<1>1. TypeOK'
  BY DEF IInv, TypeOK, Scroll, stats, history
<1>2. Ordered' /\ EveryRowAccounted' /\ Pending' /\ Answering' /\ Asking' /\ LastRequestWins' /\ Reveal'
  BY DEF IInv, Ordered, EveryRowAccounted, Pending, Answering, Asking, LastRequestWins, Reveal,
         Scroll, stats, history
<1> QED
  BY <1>1, <1>2 DEF IInv

\* A stat is answered; the answer to it is the only request that goes.
LEMMA StatReplyKeeps ==
    ASSUME IInv, NEW d \in Dirs, NEW n \in Files, NEW k \in 0 .. shown,
           NEW state \in {"counted", "unavailable"}, OnStatReply(d, n, k, state),
           wire' \subseteq wire,
           \A r \in wire \ wire' : r.kind = "stat" /\ r.dir = d /\ r.name = n
    PROVE  IInv'
<1>1. UNCHANGED <<currentPath, pendingPath, pendingReveal, selected,
                  statOrder, statCursor, statRequested, navs, asked, failed, wanted, shown>>
  BY DEF OnStatReply
<1>2. Pending'
  BY <1>1 DEF IInv, Pending
<1>3. LastRequestWins' /\ Reveal'
  BY <1>1 DEF IInv, LastRequestWins, Reveal
<1>4. CASE ~(d = currentPath /\ n \in statInFlight) /\ UNCHANGED <<statInFlight, nlink, pumping>>
  <2>1. TypeOK'
    BY <1>1, <1>4 DEF IInv, TypeOK
  <2>2. Ordered' /\ EveryRowAccounted' /\ Asking'
    BY <1>1, <1>4 DEF IInv, Ordered, EveryRowAccounted, Asking, SlotFree
  <2>3. Answering'
    BY <1>1, <1>4 DEF IInv, Answering, StatOf
  <2> QED
    BY <1>2, <1>3, <2>1, <2>2, <2>3 DEF IInv
<1>5. CASE /\ d = currentPath /\ n \in statInFlight
           /\ statInFlight' = statInFlight \ {n}
           /\ SetNlink(n, [state |-> state, of |-> k])
           /\ pumping' = TRUE
  <2>1. n \in statRequested /\ n \in DOMAIN nlink
    BY <1>5 DEF IInv, TypeOK, Ordered
  <2>2. /\ DOMAIN nlink' = DOMAIN nlink
        /\ nlink' = [nlink EXCEPT ![n] = [state |-> state, of |-> k]]
        /\ \A m \in DOMAIN nlink : nlink'[m] = IF m = n THEN [state |-> state, of |-> k] ELSE nlink[m]
    BY <1>5 DEF SetNlink, IInv, TypeOK
  <2>3. TypeOK'
    <3>1. Cardinality(statInFlight') <= MaxStatsInFlight
      <4>1. Cardinality(statInFlight') <= Cardinality(statInFlight) /\ Cardinality(statInFlight') \in Nat
        BY <1>5, SlotsFinite, FS_Subset, FS_CardinalityType DEF IInv
      <4> QED
        BY <4>1, SlotsFinite, BoundsAssumption DEF IInv, TypeOK
    <3>2. nlink' \in [DOMAIN nlink' -> [state : {"unknown", "counted", "unavailable"}, of : 0 .. shown']]
      BY <1>1, <2>2 DEF IInv, TypeOK
    <3> QED
      BY <1>1, <1>5, <2>2, <3>1, <3>2 DEF IInv, TypeOK
  <2>4. Ordered'
    BY <1>1, <2>2 DEF IInv, Ordered
  <2>5. EveryRowAccounted'
    BY <1>1, <1>5, <2>1, <2>2 DEF IInv, EveryRowAccounted, Unknown
  <2>6. Answering' /\ Asking'
    BY <1>1, <1>5 DEF IInv, Answering, Asking, StatOf
  <2> QED
    BY <1>2, <1>3, <2>3, <2>4, <2>5, <2>6 DEF IInv
<1> QED
  BY <1>4, <1>5 DEF OnStatReply

-----------------------------------------------------------------------------
(* Every step keeps the invariant.                                         *)

LEMMA ReplyKeeps == ASSUME IInv, NEW r \in wire, Reply(r) PROVE IInv'
<1>1. ~pumping /\ wire' = wire \ {r}
  BY DEF Reply
<1>2. /\ r.kind \in {"list", "stat"} /\ r.dir \in Dirs
      /\ r.kind = "stat" => r.name \in Files /\ r.of \in 0 .. shown
  BY RequestFacts DEF IInv, TypeOK
<1>3. CASE r.kind = "list"
  <2>1. (\E N \in SUBSET Files : OnDirectoryListed(r.dir, N)) \/ OnDirectoryListFailed(r.dir)
    BY <1>3 DEF Reply
  <2>2. wire' \subseteq wire /\ \A q \in wire \ wire' : q.kind = "list" /\ q.dir = r.dir
    BY <1>1, <1>3
  <2> QED
    BY <1>1, <1>2, <2>1, <2>2, ListedKeeps, ListFailedKeeps
<1>4. CASE r.kind = "stat"
  <2>1. PICK state \in {"counted", "unavailable"} : OnStatReply(r.dir, r.name, r.of, state)
    BY <1>4 DEF Reply
  <2>2. wire' \subseteq wire /\ \A q \in wire \ wire' : q.kind = "stat" /\ q.dir = r.dir /\ q.name = r.name
    BY <1>1, <1>4
  <2> QED
    BY <1>2, <1>4, <2>1, <2>2, StatReplyKeeps
<1> QED
  BY <1>2, <1>3, <1>4

LEMMA OtherReplyKeeps == ASSUME IInv, OtherReply PROVE IInv'
<1>1. ~pumping /\ wire' \subseteq wire /\ wire \ wire' = {}
  BY DEF OtherReply
<1>2. ASSUME NEW d \in Dirs, NEW N \in SUBSET Files, OnDirectoryListed(d, N) PROVE IInv'
  BY <1>1, <1>2, ListedKeeps
<1>3. ASSUME NEW d \in Dirs, OnDirectoryListFailed(d) PROVE IInv'
  BY <1>1, <1>3, ListFailedKeeps
<1>4. ASSUME NEW d \in Dirs, NEW n \in Files, NEW state \in {"counted", "unavailable"},
             OnStatReply(d, n, shown, state)
      PROVE IInv'
  <2>1. shown \in 0 .. shown
    BY DEF IInv, TypeOK
  <2> QED
    BY <1>1, <1>4, <2>1, StatReplyKeeps
<1> QED
  BY <1>2, <1>3, <1>4 DEF OtherReply

LEMMA InitInv == Init => IInv
<1> SUFFICES ASSUME Init PROVE IInv
  OBVIOUS
<1>1. DOMAIN nlink = {} /\ statOrder = <<>> /\ Len(statOrder) = 0 /\ DOMAIN statOrder = {}
  BY DEF Init
<1>2. TypeOK
  <2>1. nlink \in [DOMAIN nlink -> [state : {"unknown", "counted", "unavailable"}, of : 0 .. shown]]
    BY <1>1 DEF Init
  <2>2. Cardinality(statInFlight) <= MaxStatsInFlight
    BY FS_EmptySet, BoundsAssumption DEF Init
  <2>3. wire \subseteq Requests(navs, shown)
    BY RootAssumption DEF Init, Requests
  <2> QED
    <3>1. statOrder \in Seq(Files) /\ statCursor \in 1 .. Len(statOrder) + 1
      BY <1>1 DEF Init
    <3>2. statRequested = {} /\ statInFlight = {} /\ pumping \in BOOLEAN /\ navs \in Nat /\ shown \in Nat
      BY DEF Init
    <3>3. /\ currentPath = None /\ pendingPath \in Dirs /\ pendingReveal = None /\ selected = None
      BY RootAssumption DEF Init
    <3> QED
      BY <1>1, <2>1, <2>2, <2>3, <3>1, <3>2, <3>3 DEF TypeOK
<1>3. Ordered
  BY <1>1 DEF Init, Ordered, ToSet
<1>4. EveryRowAccounted /\ Asking
  BY <1>1 DEF EveryRowAccounted, Asking
<1>5. Pending /\ Answering
  BY DEF Init, Pending, Answering, ListOf
<1>6. LastRequestWins /\ Reveal
  BY RootAssumption, NamesAssumption DEF Init, LastRequestWins, Reveal, None
<1> QED
  BY <1>2, <1>3, <1>4, <1>5, <1>6 DEF IInv

LEMMA StepInv == IInv /\ [Next]_vars => IInv'
<1>1. SUFFICES ASSUME IInv, [Next]_vars PROVE IInv'
  OBVIOUS
<1>2. ASSUME NEW d \in Dirs, NavigateTo(d) PROVE IInv'
  BY <1>1, <1>2, NavigateToKeeps
<1>3. ASSUME NEW d \in Dirs, NEW n \in Files, NavigateToAndReveal(d, n) PROVE IInv'
  BY <1>1, <1>3, NavigateToAndRevealKeeps
<1>4. CASE Refresh
  <2>1. currentPath \in Dirs
    BY <1>1, <1>4 DEF IInv, TypeOK, Refresh
  <2> QED
    BY <1>1, <1>4, <2>1, NavigateToKeeps DEF Refresh
<1>5. CASE Pump
  BY <1>1, <1>5, PumpNextKeeps, PumpNextFailsKeeps, PumpEndsKeeps DEF Pump
<1>6. CASE Scroll
  BY <1>1, <1>6, ScrollKeeps
<1>7. ASSUME NEW r \in wire, Reply(r) PROVE IInv'
  BY <1>1, <1>7, ReplyKeeps
<1>8. CASE OtherReply
  BY <1>1, <1>8, OtherReplyKeeps
<1>9. CASE UNCHANGED vars
  <2>1. TypeOK'
    BY <1>1, <1>9 DEF IInv, TypeOK, vars, stats, history
  <2>2. Ordered' /\ EveryRowAccounted' /\ Pending' /\ Answering' /\ Asking' /\ LastRequestWins' /\ Reveal'
    BY <1>1, <1>9 DEF IInv, Ordered, EveryRowAccounted, Pending, Answering, Asking, SlotFree,
                      LastRequestWins, Reveal, vars, stats, history
  <2> QED
    BY <2>1, <2>2 DEF IInv
<1> QED
  BY <1>1, <1>2, <1>3, <1>4, <1>5, <1>6, <1>7, <1>8, <1>9 DEF Next

LEMMA InvAlways == Spec => []IInv
<1> QED
  BY InitInv, StepInv, PTL DEF Spec

-----------------------------------------------------------------------------

\* Every variable of the view keeps its type, and the stats in flight their
\* bound.
THEOREM TypeCorrect == Spec => []TypeOK
<1>1. IInv => TypeOK
  BY DEF IInv
<1> QED
  BY <1>1, InvAlways, PTL

\* Each row waits to be asked for, waits for its answer or has its count,
\* whatever replies of other listings or other consumers land.
THEOREM RowsAccounted == Spec => []EveryRowAccounted
<1>1. IInv => EveryRowAccounted
  BY DEF IInv
<1> QED
  BY <1>1, InvAlways, PTL

\* The view waits only for answers that are to come, and pumpStats leaves a row
\* unasked only when every slot is taken.
THEOREM NeverLeftWaiting == Spec => []NeverStranded
<1>1. IInv => NeverStranded
  BY DEF IInv, Pending, Answering, Asking, NeverStranded
<1> QED
  BY <1>1, InvAlways, PTL

\* The last path asked for is the one that is shown or pending, unless listing
\* it failed.
THEOREM LastRequestAlwaysWins == Spec => []LastRequestWins
<1>1. IInv => LastRequestWins
  BY DEF IInv
<1> QED
  BY <1>1, InvAlways, PTL

\* A row is selected only as the view was last asked to reveal it: a listing
\* that fails at once, or an earlier one that lands late, selects nothing.
THEOREM SelectsOnlyAsAsked == Spec => RevealsOnlyAsAsked
<1> DEFINE Asked == selected' # selected /\ selected' # None => wanted' = <<currentPath', selected'>>
<1>1. ASSUME IInv, [Next]_vars PROVE Asked
  <2>1. SUFFICES ASSUME selected' # selected, selected' # None
                 PROVE  wanted' = <<currentPath', selected'>>
    OBVIOUS
  <2>2. ASSUME NEW d \in Dirs, NEW N \in SUBSET Files, OnDirectoryListed(d, N)
        PROVE  wanted' = <<currentPath', selected'>>
    <3>1. Show(d, N) /\ UNCHANGED wanted
      BY <2>1, <2>2 DEF OnDirectoryListed
    <3>2. d # None /\ None \notin N
      BY NamesAssumption DEF None
    <3> QED
      BY <1>1, <2>1, <3>1, <3>2 DEF Show, IInv, Reveal
  <2>3. ASSUME NEW d \in Dirs, NEW n \in Files, NavigateToAndReveal(d, n)
        PROVE  wanted' = <<currentPath', selected'>>
    BY <2>1, <2>3 DEF NavigateToAndReveal, Select, Ask
  <2>4. ASSUME NEW r \in wire, Reply(r) PROVE wanted' = <<currentPath', selected'>>
    <3>1. r.dir \in Dirs
      BY <1>1, RequestFacts DEF IInv, TypeOK
    <3>2. r.kind = "list" /\ \E N \in SUBSET Files : OnDirectoryListed(r.dir, N)
      BY <2>1, <2>4 DEF Reply, OnDirectoryListFailed, OnStatReply
    <3> QED
      BY <2>2, <3>1, <3>2
  <2>5. CASE OtherReply
    BY <2>1, <2>2, <2>5 DEF OtherReply, OnDirectoryListFailed, OnStatReply
  <2>6. ~(\E d \in Dirs : NavigateTo(d)) /\ ~Refresh /\ ~Pump /\ ~Scroll /\ ~UNCHANGED vars
    BY <2>1 DEF NavigateTo, Refresh, Ask, Pump, PumpNext, PumpNextFails, PumpEnds, Scroll, vars
  <2> QED
    BY <1>1, <2>3, <2>4, <2>5, <2>6 DEF Next
<1>2. IInv /\ [Next]_vars => [Asked]_vars
  BY <1>1
<1> QED
  BY <1>2, InvAlways, PTL DEF Spec, RevealsOnlyAsAsked
=============================================================================
