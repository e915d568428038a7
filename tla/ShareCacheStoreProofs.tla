------------------------ MODULE ShareCacheStoreProofs ------------------------
(***************************************************************************)
(* Proofs about ShareCacheStore for every share and every sequence of      *)
(* calls: its types, that the inode index is exact, that the cursor of a   *)
(* directory passes no row that wants a stat, and what nextStats returns.  *)
(*                                                                         *)
(* All but applyListing and clear keep the rows and touch what is known of *)
(* them (Quiet); the index is changed only together with the rows.  The    *)
(* paths nextStats returns are sets of rows, each put in an order (Kept).  *)
(***************************************************************************)
EXTENDS ShareCacheStore, FiniteSetTheorems, TLAPS

\* The rows are the same files.
SameRows(r, q) ==
    /\ DOMAIN q.entries = DOMAIN r.entries
    /\ \A n \in DOMAIN r.entries : /\ q.entries[n].isDir = r.entries[n].isDir
                                   /\ q.entries[n].inode = r.entries[n].inode

\* The cursor is past rows that want no stat.
Sound(r) == \A n \in r.skipped : n \in DOMAIN r.entries => ~NeedsStat(r.entries[n])

Quiet(c) ==
    /\ c \in [Dirs -> Record]
    /\ \A d \in Dirs : SameRows(cache[d], c[d]) /\ Sound(c[d])

IInv == TypeOK /\ IndexExact /\ CursorSound

-----------------------------------------------------------------------------
(* Records and their entries.                                              *)

LEMMA EntriesAre ==
    ASSUME NEW E
    PROVE  E \in Entries <=> /\ E \in [DOMAIN E -> Entry]
                             /\ DOMAIN E \in SUBSET Names
BY DEF Entries

LEMMA RecordFields ==
    ASSUME NEW r \in Record
    PROVE  /\ r.state \in {"Missing", "Loading", "Fresh", "Stale", "Failed"}
           /\ r.entries \in Entries /\ r.staleOnLand \in BOOLEAN
           /\ r.skipped \in SUBSET Names
           /\ DOMAIN r.entries \in SUBSET Names
           /\ r.entries = [n \in DOMAIN r.entries |-> r.entries[n]]
           /\ \A n \in DOMAIN r.entries : r.entries[n] \in Entry
<1>1. /\ r.state \in {"Missing", "Loading", "Fresh", "Stale", "Failed"}
      /\ r.entries \in Entries /\ r.staleOnLand \in BOOLEAN
      /\ r.skipped \in SUBSET Names
  BY DEF Record
<1>2. r.entries \in [DOMAIN r.entries -> Entry] /\ DOMAIN r.entries \in SUBSET Names
  BY <1>1, EntriesAre
<1> QED
  BY <1>1, <1>2

LEMMA FlaggedKeeps ==
    ASSUME NEW r \in Record, NEW S \in SUBSET Names
    PROVE  /\ Flagged(r, S) \in Record
           /\ SameRows(r, Flagged(r, S))
           /\ Sound(r) => Sound(Flagged(r, S))
<1> DEFINE E == [n \in DOMAIN r.entries |-> [r.entries[n] EXCEPT !.stale = @ \/ n \in S]]
           K == {n \in r.skipped : \A k \in S : n < k}
           q == [r EXCEPT !.entries = E, !.skipped = K]
<1>1. /\ DOMAIN r.entries \in SUBSET Names /\ r.skipped \in SUBSET Names
      /\ \A n \in DOMAIN r.entries : r.entries[n] \in Entry
  BY RecordFields
<1>2. ASSUME NEW n \in DOMAIN r.entries
      PROVE  /\ E[n] \in Entry
             /\ E[n].isDir = r.entries[n].isDir /\ E[n].inode = r.entries[n].inode
             /\ E[n].nlink = r.entries[n].nlink
             /\ n \notin S => E[n].stale = r.entries[n].stale
  BY <1>1 DEF Entry
<1>3. E \in [DOMAIN r.entries -> Entry] /\ DOMAIN E = DOMAIN r.entries
  BY <1>2
<1>4. E \in Entries
  BY <1>1, <1>3, EntriesAre
<1>5. K \in SUBSET Names
  BY <1>1
<1>6. Flagged(r, S) = q
  BY DEF Flagged
<1>7. q \in Record /\ q.entries = E /\ q.skipped = K
  <2> HIDE DEF E, K
  <2> QED
    BY <1>4, <1>5 DEF Record
<1>8. SameRows(r, q)
  BY <1>2, <1>3, <1>7 DEF SameRows
<1>9. ASSUME Sound(r) PROVE Sound(q)
  <2>1. ASSUME NEW n \in K, n \in DOMAIN r.entries PROVE ~NeedsStat(E[n])
    <3>1. n \notin S
      BY <1>1, MaxNameAssumption DEF Names
    <3>2. ~NeedsStat(r.entries[n])
      BY <1>9, <2>1 DEF Sound
    <3> QED
      BY <1>2, <2>1, <3>1, <3>2 DEF NeedsStat
  <2> QED
    BY <1>3, <1>7, <2>1 DEF Sound
<1> QED
  BY <1>6, <1>7, <1>8, <1>9

LEMMA MarkKeeps ==
    ASSUME NEW c \in [Dirs -> Record], NEW D
    PROVE  /\ Mark(c, D) \in [Dirs -> Record]
           /\ \A d \in Dirs : /\ Mark(c, D)[d].entries = c[d].entries
                              /\ Mark(c, D)[d].skipped = c[d].skipped
<1>1. ASSUME NEW d \in Dirs
      PROVE  /\ Mark(c, D)[d] \in Record
             /\ Mark(c, D)[d].entries = c[d].entries
             /\ Mark(c, D)[d].skipped = c[d].skipped
  <2>1. c[d] \in Record
    OBVIOUS
  <2>2. \/ Mark(c, D)[d] = c[d]
        \/ Mark(c, D)[d] = [c[d] EXCEPT !.staleOnLand = TRUE]
        \/ Mark(c, D)[d] = [c[d] EXCEPT !.state = "Stale"]
    BY DEF Mark
  <2> QED
    BY <2>1, <2>2 DEF Record
<1> QED
  BY <1>1 DEF Mark

LEMMA MarkQuiet ==
    ASSUME NEW c, Quiet(c), NEW D
    PROVE  Quiet(Mark(c, D))
<1>1. ASSUME NEW d \in Dirs
      PROVE  SameRows(cache[d], Mark(c, D)[d]) /\ Sound(Mark(c, D)[d])
  BY MarkKeeps DEF Quiet, SameRows, Sound
<1> QED
  BY <1>1, MarkKeeps DEF Quiet

LEMMA CacheQuiet ==
    ASSUME IInv
    PROVE  Quiet(cache)
BY DEF IInv, TypeOK, CursorSound, Quiet, SameRows, Sound, EntryAt, Rows

LEMMA StaleCountsQuiet ==
    ASSUME IInv, NEW i
    PROVE  Quiet(StaleCounts(cache, i))
<1> DEFINE S(d) == {n \in DOMAIN cache[d].entries :
                      /\ i # 0 /\ <<i, <<d, n>>>> \in index
                      /\ cache[d].entries[n].nlink # Unknown}
<1>1. cache \in [Dirs -> Record]
  BY DEF IInv, TypeOK
<1>2. ASSUME NEW d \in Dirs
      PROVE  /\ Flagged(cache[d], S(d)) \in Record
             /\ SameRows(cache[d], Flagged(cache[d], S(d)))
             /\ Sound(Flagged(cache[d], S(d)))
  <2>1. cache[d] \in Record /\ S(d) \in SUBSET Names
    BY <1>1, RecordFields
  <2>2. Sound(cache[d])
    BY CacheQuiet DEF Quiet
  <2> HIDE DEF S
  <2> QED
    BY <2>1, <2>2, FlaggedKeeps
<1>3. StaleCounts(cache, i) = [d \in Dirs |-> Flagged(cache[d], S(d))]
  BY DEF StaleCounts
<1> HIDE DEF S
<1> QED
  BY <1>2, <1>3 DEF Quiet

LEMMA StaleCountsOfQuiet ==
    ASSUME IInv, NEW p
    PROVE  Quiet(StaleCountsOf(p))
BY CacheQuiet, StaleCountsQuiet DEF StaleCountsOf

\* A stat reply for a cached path.
LEMMA WithStatQuiet ==
    ASSUME IInv, NEW p \in Paths, Cached(p), NEW i,
           NEW nlink \in {Unavailable} \cup 0 .. MaxLinks
    PROVE  Quiet(WithStat(p, nlink, i))
<1> DEFINE d == p[1]  n == p[2]  r == cache[d]
           e == [r.entries[n] EXCEPT !.nlink = nlink, !.stale = FALSE]
           E == [r.entries EXCEPT ![n] = e]
           q == [r EXCEPT !.entries = E]
           c == [cache EXCEPT ![d] = q]
<1>1. d \in Dirs /\ n \in Names
  BY DEF Paths
<1>2. cache \in [Dirs -> Record] /\ r \in Record /\ n \in DOMAIN r.entries
  BY <1>1 DEF IInv, TypeOK, Cached, Rows
<1>3. /\ DOMAIN r.entries \in SUBSET Names /\ r.entries \in [DOMAIN r.entries -> Entry]
      /\ r.skipped \in SUBSET Names /\ r.entries[n] \in Entry
  BY <1>2, RecordFields
<1>4. /\ e \in Entry /\ e.isDir = r.entries[n].isDir /\ e.inode = r.entries[n].inode
      /\ e.nlink = nlink /\ e.stale = FALSE
  BY <1>3 DEF Entry
<1>5. ~NeedsStat(e)
  <2>1. nlink # Unknown
    BY MaxLinksAssumption DEF Unknown, Unavailable
  <2> QED
    BY <1>4, <2>1 DEF NeedsStat
<1>6. /\ E \in [DOMAIN r.entries -> Entry] /\ E[n] = e
      /\ \A k \in DOMAIN r.entries \ {n} : E[k] = r.entries[k]
  BY <1>2, <1>3, <1>4
<1>7. E \in Entries
  BY <1>3, <1>6, EntriesAre
<1>8. q \in Record /\ q.entries = E /\ q.skipped = r.skipped
  BY <1>2, <1>7 DEF Record
<1>9. SameRows(r, q)
  BY <1>4, <1>6, <1>8 DEF SameRows
<1>10. Sound(r)
  BY <1>1, CacheQuiet DEF Quiet
<1>11. Sound(q)
  BY <1>5, <1>6, <1>8, <1>10 DEF Sound
<1>12. c \in [Dirs -> Record] /\ c[d] = q /\ \A x \in Dirs \ {d} : c[x] = cache[x]
  BY <1>1, <1>2, <1>8
<1>13. Quiet(c)
  BY <1>9, <1>11, <1>12, CacheQuiet DEF Quiet
<1>14. /\ Flagged(q, {n}) \in Record /\ SameRows(q, Flagged(q, {n}))
       /\ Sound(Flagged(q, {n}))
  BY <1>1, <1>8, <1>11, FlaggedKeeps
<1>15. SameRows(r, Flagged(q, {n}))
  BY <1>9, <1>14 DEF SameRows
<1>16. Quiet([c EXCEPT ![d] = Flagged(q, {n})])
  <2> DEFINE c2 == [c EXCEPT ![d] = Flagged(q, {n})]
  <2>1. /\ c2 \in [Dirs -> Record] /\ c2[d] = Flagged(q, {n})
        /\ \A x \in Dirs \ {d} : c2[x] = cache[x]
    BY <1>1, <1>12, <1>14
  <2>2. ASSUME NEW x \in Dirs PROVE SameRows(cache[x], c2[x]) /\ Sound(c2[x])
    BY <2>1, <1>14, <1>15, CacheQuiet DEF Quiet
  <2> QED
    BY <2>1, <2>2 DEF Quiet
<1>17. Quiet(Mark([c EXCEPT ![d] = Flagged(q, {n})], {d}))
  BY <1>16, MarkQuiet
<1>18. c = [cache EXCEPT ![d].entries[n].nlink = nlink, ![d].entries[n].stale = FALSE]
  BY <1>1, <1>2, <1>3, <1>8
<1>19. WithStat(p, nlink, i) \in {c, Mark([c EXCEPT ![d] = Flagged(q, {n})], {d})}
  BY <1>12, <1>18 DEF WithStat
<1> QED
  BY <1>13, <1>17, <1>19

-----------------------------------------------------------------------------
(* What the index holds.                                                   *)

\* The pairs of two lists of the same files are the same.
LEMMA SamePairs ==
    ASSUME NEW d, NEW r, NEW q, SameRows(r, q)
    PROVE  Pairs(d, q.entries, DOMAIN q.entries) = Pairs(d, r.entries, DOMAIN r.entries)
<1>1. \A n \in DOMAIN r.entries : /\ q.entries[n].isDir = r.entries[n].isDir
                                  /\ q.entries[n].inode = r.entries[n].inode
  BY DEF SameRows
<1>2. {k \in DOMAIN q.entries : ~q.entries[k].isDir /\ q.entries[k].inode # 0}
        = {k \in DOMAIN r.entries : ~r.entries[k].isDir /\ r.entries[k].inode # 0}
  BY <1>1 DEF SameRows
<1> QED
  BY <1>1, <1>2 DEF Pairs

\* A change that is quiet and leaves the index alone keeps the invariant.
LEMMA QuietStep ==
    ASSUME IInv, Quiet(cache'), UNCHANGED index
    PROVE  IInv'
<1>1. cache' \in [Dirs -> Record] /\ cache \in [Dirs -> Record]
  BY DEF Quiet, IInv, TypeOK
<1>2. TypeOK'
  BY <1>1 DEF IInv, TypeOK
<1>3. \A d \in Dirs : Pairs(d, cache'[d].entries, DOMAIN cache'[d].entries)
                        = Pairs(d, cache[d].entries, DOMAIN cache[d].entries)
  BY SamePairs DEF Quiet
<1>4. IndexExact'
  BY <1>3 DEF IInv, IndexExact, Rows
<1>5. CursorSound'
  BY DEF Quiet, CursorSound, Sound, EntryAt, Rows
<1> QED
  BY <1>2, <1>4, <1>5 DEF IInv

-----------------------------------------------------------------------------
(* The operations.                                                         *)

LEMMA InitInv == Init => IInv
<1> SUFFICES ASSUME Init PROVE IInv
  OBVIOUS
<1>1. NoRecord \in Record /\ NoRecord.entries = <<>> /\ NoRecord.skipped = {}
  <2>1. <<>> \in [{} -> Entry]
    OBVIOUS
  <2>2. <<>> \in Entries
    BY <2>1 DEF Entries
  <2> QED
    BY <2>2 DEF NoRecord, Record
<1>2. DOMAIN NoRecord.entries = {}
  BY <1>1
<1>3. cache = [d \in Dirs |-> NoRecord] /\ index = {}
  BY DEF Init
<1>4. TypeOK
  BY <1>1, <1>3 DEF TypeOK
<1>5. \A d \in Dirs : Pairs(d, cache[d].entries, Rows(d)) = {}
  BY <1>2, <1>3 DEF Pairs, Rows
<1>6. IndexExact
  BY <1>3, <1>5 DEF IndexExact
<1>7. CursorSound
  BY <1>1, <1>3 DEF CursorSound
<1> QED
  BY <1>4, <1>6, <1>7 DEF IInv

LEMMA ClearStep == IInv /\ Clear => IInv'
<1> SUFFICES ASSUME Clear PROVE IInv'
  OBVIOUS
<1>1. Init'
  BY DEF Clear, Init
<1> QED
  BY <1>1, InitInv, PTL

LEMMA StateQuiet ==
    ASSUME IInv, NEW d \in Dirs, NEW q \in Record,
           q.entries = cache[d].entries, q.skipped = cache[d].skipped
    PROVE  Quiet([cache EXCEPT ![d] = q])
<1> DEFINE c == [cache EXCEPT ![d] = q]
<1>1. cache \in [Dirs -> Record]
  BY DEF IInv, TypeOK
<1>2. c \in [Dirs -> Record] /\ c[d] = q /\ \A x \in Dirs \ {d} : c[x] = cache[x]
  BY <1>1
<1> HIDE DEF c
<1>3. ASSUME NEW x \in Dirs PROVE SameRows(cache[x], c[x]) /\ Sound(c[x])
  <2>1. SameRows(cache[x], cache[x]) /\ Sound(cache[x])
    BY CacheQuiet DEF Quiet
  <2> QED
    BY <1>2, <2>1 DEF SameRows, Sound
<1>4. Quiet(c)
  BY <1>2, <1>3 DEF Quiet
<1> QED
  BY <1>4 DEF c

LEMMA MarkLoadingStep ==
    ASSUME IInv, NEW d \in Dirs, MarkLoading(d)
    PROVE  IInv'
<1> DEFINE q == [cache[d] EXCEPT !.state = "Loading"]
<1>1. cache[d] \in Record
  BY DEF IInv, TypeOK
<1>2. q \in Record /\ q.entries = cache[d].entries /\ q.skipped = cache[d].skipped
  BY <1>1 DEF Record
<1>3. cache' = [cache EXCEPT ![d] = q]
  BY DEF MarkLoading
<1>4. Quiet(cache')
  BY <1>2, <1>3, StateQuiet
<1> QED
  BY <1>4, QuietStep DEF MarkLoading

LEMMA ApplyListFailureStep ==
    ASSUME IInv, NEW d \in Dirs, ApplyListFailure(d)
    PROVE  IInv'
<1> DEFINE q == [cache[d] EXCEPT !.state = "Failed", !.staleOnLand = FALSE]
<1>1. cache \in [Dirs -> Record] /\ cache[d] \in Record
  BY DEF IInv, TypeOK
<1>2. q \in Record /\ q.entries = cache[d].entries /\ q.skipped = cache[d].skipped
  BY <1>1 DEF Record
<1>3. cache' = [cache EXCEPT ![d] = q]
  BY <1>1 DEF ApplyListFailure
<1>4. Quiet(cache')
  BY <1>2, <1>3, StateQuiet
<1> QED
  BY <1>4, QuietStep DEF ApplyListFailure

LEMMA ApplyStatStep ==
    ASSUME IInv, NEW p \in Paths, NEW k \in 0 .. MaxLinks, NEW i, ApplyStat(p, k, i)
    PROVE  IInv'
<1>1. Quiet(cache')
  BY CacheQuiet, WithStatQuiet DEF ApplyStat
<1> QED
  BY <1>1, QuietStep DEF ApplyStat

LEMMA ApplyStatFailureStep ==
    ASSUME IInv, NEW p \in Paths, ApplyStatFailure(p)
    PROVE  IInv'
<1>1. Quiet(cache')
  BY CacheQuiet, WithStatQuiet DEF ApplyStatFailure
<1> QED
  BY <1>1, QuietStep DEF ApplyStatFailure

\* The three notes of a mutation.
LEMMA NoteStep ==
    ASSUME IInv, NEW p, NEW q, NoteRenamed(p, q) \/ NoteLinked(p, q) \/ NoteUnlinked(p)
    PROVE  IInv'
<1>1. UNCHANGED index
  BY DEF NoteRenamed, NoteLinked, NoteUnlinked
<1>2. Quiet(cache) /\ Quiet(StaleCountsOf(p))
  BY CacheQuiet, StaleCountsOfQuiet
<1>3. Quiet(cache')
  BY <1>2, MarkQuiet DEF NoteRenamed, NoteLinked, NoteUnlinked
<1> QED
  BY <1>1, <1>3, QuietStep

LEMMA MarkAllStaleStep ==
    ASSUME IInv, MarkAllStale
    PROVE  IInv'
<1> DEFINE M == Mark(cache, Dirs)
           stale(d, n) == cache[d].entries[n].stale \/
                            (/\ ~cache[d].entries[n].isDir
                             /\ cache[d].entries[n].nlink # Unknown)
           E(d) == [n \in DOMAIN M[d].entries |-> [M[d].entries[n] EXCEPT !.stale = stale(d, n)]]
           q(d) == [M[d] EXCEPT !.skipped = {}, !.entries = E(d)]
<1>1. cache \in [Dirs -> Record]
  BY DEF IInv, TypeOK
<1>2. M \in [Dirs -> Record] /\ \A d \in Dirs : M[d].entries = cache[d].entries
  BY <1>1, MarkKeeps
<1>3. cache' = [d \in Dirs |-> q(d)]
  BY <1>2 DEF MarkAllStale
<1> HIDE DEF M
<1>4. ASSUME NEW d \in Dirs
      PROVE  q(d) \in Record /\ SameRows(cache[d], q(d)) /\ Sound(q(d))
  <2>1. /\ M[d] \in Record /\ M[d].entries = cache[d].entries /\ cache[d] \in Record
    BY <1>1, <1>2
  <2>2. /\ DOMAIN M[d].entries \in SUBSET Names
        /\ \A n \in DOMAIN M[d].entries : M[d].entries[n] \in Entry
    BY <2>1, RecordFields
  <2>3. ASSUME NEW n \in DOMAIN M[d].entries
        PROVE  /\ E(d)[n] \in Entry
               /\ E(d)[n].isDir = cache[d].entries[n].isDir
               /\ E(d)[n].inode = cache[d].entries[n].inode
    <3>1. stale(d, n) \in BOOLEAN
      BY <2>1, <2>2 DEF Entry
    <3> HIDE DEF stale
    <3> QED
      BY <2>1, <2>2, <3>1 DEF Entry
  <2>4. E(d) \in [DOMAIN M[d].entries -> Entry] /\ DOMAIN E(d) = DOMAIN M[d].entries
    BY <2>3
  <2>5. E(d) \in Entries
    BY <2>2, <2>4, EntriesAre
  <2>6. q(d) \in Record /\ q(d).entries = E(d) /\ q(d).skipped = {}
    <3> HIDE DEF E
    <3> QED
      BY <2>1, <2>5 DEF Record
  <2> QED
    BY <2>1, <2>3, <2>4, <2>6 DEF SameRows, Sound
<1> HIDE DEF q
<1>5. Quiet(cache')
  BY <1>3, <1>4 DEF Quiet
<1> QED
  BY <1>5, QuietStep DEF MarkAllStale

LEMMA NextStatsStep ==
    ASSUME IInv, NEW subs, NEW ex, NEW max, NextStats(subs, ex, max)
    PROVE  IInv'
<1>1. PICK walked : cache' = [d \in Dirs |-> IF d \in walked
                                             THEN [cache[d] EXCEPT !.skipped = Passed(d)]
                                             ELSE cache[d]]
  BY DEF NextStats
<1>2. ASSUME NEW d \in Dirs
      PROVE  cache'[d] \in Record /\ SameRows(cache[d], cache'[d]) /\ Sound(cache'[d])
  <2> DEFINE q == [cache[d] EXCEPT !.skipped = Passed(d)]
  <2>1. cache[d] \in Record /\ SameRows(cache[d], cache[d]) /\ Sound(cache[d])
    BY CacheQuiet DEF Quiet
  <2>2. DOMAIN cache[d].entries \in SUBSET Names
    BY <2>1, RecordFields
  <2>3. Passed(d) \in SUBSET Names
    BY <2>2 DEF Passed, Rows
  <2>4. q \in Record /\ q.entries = cache[d].entries /\ q.skipped = Passed(d)
    BY <2>1, <2>3 DEF Record
  <2>5. ASSUME NEW n \in Passed(d) PROVE ~NeedsStat(cache[d].entries[n])
    <3>1. n \in DOMAIN cache[d].entries /\ n \in Nat
      BY <2>2 DEF Passed, Rows, Names
    <3>2. n \in cache[d].skipped \/ ~NeedsStat(cache[d].entries[n])
      BY <3>1 DEF Passed, Rows, EntryAt
    <3> QED
      BY <2>1, <3>1, <3>2 DEF Sound
  <2>6. SameRows(cache[d], q) /\ Sound(q)
    BY <2>1, <2>4, <2>5 DEF SameRows, Sound
  <2> HIDE DEF q
  <2> QED
    BY <1>1, <2>1, <2>4, <2>6 DEF q
<1>3. Quiet(cache')
  BY <1>1, <1>2 DEF Quiet
<1> QED
  BY <1>3, QuietStep DEF NextStats

-----------------------------------------------------------------------------
(* A listing lands.                                                        *)

LEMMA PairsMember ==
    ASSUME NEW d, NEW E, NEW N, NEW z
    PROVE  z \in Pairs(d, E, N) <=>
             \E n \in N : ~E[n].isDir /\ E[n].inode # 0 /\ z = <<E[n].inode, <<d, n>>>>
BY DEF Pairs

\* Replacing row by row what the index holds of old gives what it holds of new:
\* rows that stay as they were keep their pair.
LEMMA ReindexedPairs ==
    ASSUME NEW d, NEW old, NEW new, NEW others,
           \A z \in others : \A n, i : z # <<i, <<d, n>>>>,
           index = others \cup Pairs(d, old, DOMAIN old)
    PROVE  Reindexed(d, old, new) = others \cup Pairs(d, new, DOMAIN new)
<1> DEFINE both == DOMAIN old \cap DOMAIN new
           changed == {n \in both : old[n].isDir # new[n].isDir \/ old[n].inode # new[n].inode}
           A == (DOMAIN old \ both) \cup changed
           B == (DOMAIN new \ both) \cup changed
           after == (index \ Pairs(d, old, A)) \cup Pairs(d, new, B)
<1>1. Reindexed(d, old, new) = after
  BY DEF Reindexed
<1>2. B \subseteq DOMAIN new /\ A \subseteq DOMAIN old
  OBVIOUS
<1>3. \A n \in DOMAIN new \ B : /\ n \in DOMAIN old \ A
                               /\ old[n].isDir = new[n].isDir
                               /\ old[n].inode = new[n].inode
  OBVIOUS
<1>4. \A n \in DOMAIN old \ A : n \in DOMAIN new \ B
  OBVIOUS
<1> HIDE DEF A, B
<1>5. ASSUME NEW z \in after PROVE z \in others \cup Pairs(d, new, DOMAIN new)
  <2>1. CASE z \in Pairs(d, new, B)
    BY <1>2, <2>1, PairsMember
  <2>2. CASE z \in others
    BY <2>2
  <2>3. CASE z \in Pairs(d, old, DOMAIN old) /\ z \notin Pairs(d, old, A)
    <3>1. PICK n \in DOMAIN old : /\ ~old[n].isDir /\ old[n].inode # 0
                                  /\ z = <<old[n].inode, <<d, n>>>>
      BY <2>3, PairsMember
    <3>2. n \notin A
      BY <2>3, <3>1, PairsMember
    <3>3. n \in DOMAIN new \ B
      BY <1>4, <3>1, <3>2
    <3> QED
      BY <1>3, <3>1, <3>3, PairsMember
  <2> QED
    BY <1>5, <2>1, <2>2, <2>3
<1>6. ASSUME NEW z \in others PROVE z \in after
  <2>1. z \notin Pairs(d, old, A)
    BY PairsMember
  <2> QED
    BY <2>1
<1>7. ASSUME NEW z \in Pairs(d, new, DOMAIN new) PROVE z \in after
  <2>1. PICK n \in DOMAIN new : /\ ~new[n].isDir /\ new[n].inode # 0
                                /\ z = <<new[n].inode, <<d, n>>>>
    BY <1>7, PairsMember
  <2>2. CASE n \in B
    BY <2>1, <2>2, PairsMember
  <2>3. CASE n \notin B
    <3>1. /\ n \in DOMAIN old \ A
          /\ old[n].isDir = new[n].isDir /\ old[n].inode = new[n].inode
      BY <1>3, <2>1, <2>3
    <3>2. z \in Pairs(d, old, DOMAIN old)
      BY <2>1, <3>1, PairsMember
    <3>3. z \notin Pairs(d, old, A)
      <4>1. ASSUME NEW k \in A, z = <<old[k].inode, <<d, k>>>> PROVE FALSE
        BY <2>1, <3>1, <4>1
      <4> QED
        BY <4>1, PairsMember
    <3> QED
      BY <3>2, <3>3
  <2> QED
    BY <2>2, <2>3
<1> HIDE DEF after
<1> QED
  BY <1>1, <1>5, <1>6, <1>7

LEMMA ApplyListingStep ==
    ASSUME IInv, NEW d \in Dirs, NEW L \in Listing, ApplyListing(d, L)
    PROVE  IInv'
<1> DEFINE old == cache[d].entries
           new == [n \in DOMAIN L |->
                     IF n \in DOMAIN old THEN Carried(old[n], L[n]) ELSE New(L[n])]
           q == [state |-> IF cache[d].staleOnLand THEN "Stale" ELSE "Fresh",
                 entries |-> new, staleOnLand |-> FALSE, skipped |-> {}]
           others == UNION {Pairs(x, cache[x].entries, Rows(x)) : x \in Dirs \ {d}}
<1>1. /\ cache \in [Dirs -> Record] /\ cache[d] \in Record
      /\ index \subseteq Inodes \X Paths
  BY DEF IInv, TypeOK
<1>2. DOMAIN L \in SUBSET Names /\ \A n \in DOMAIN L : L[n] \in File
  BY DEF Listing
<1>3. ASSUME NEW n \in DOMAIN L PROVE new[n] \in Entry
  <2>1. New(L[n]) \in Entry
    BY <1>2 DEF New, Entry, File
  <2>2. ASSUME n \in DOMAIN old PROVE Carried(old[n], L[n]) \in Entry
    <3>1. old[n] \in Entry
      BY <1>1, <2>2, RecordFields
    <3> QED
      BY <2>1, <3>1 DEF Carried, Entry
  <2> QED
    BY <2>1, <2>2
<1>4. new \in [DOMAIN L -> Entry] /\ DOMAIN new = DOMAIN L
  BY <1>3
<1>5. new \in Entries
  BY <1>2, <1>4, EntriesAre
<1>6. cache' = [cache EXCEPT ![d] = q] /\ index' = Reindexed(d, old, new)
  BY DEF ApplyListing
<1> HIDE DEF new
<1>7. q \in Record /\ q.entries = new /\ q.skipped = {}
  BY <1>5 DEF Record
<1> HIDE DEF q
<1>8. /\ cache' \in [Dirs -> Record] /\ cache'[d] = q
      /\ \A x \in Dirs \ {d} : cache'[x] = cache[x]
  BY <1>1, <1>6, <1>7
<1>9. CursorSound'
  <2>1. \A x \in Dirs : Sound(cache[x])
    BY CacheQuiet DEF Quiet
  <2>2. ASSUME NEW x \in Dirs PROVE Sound(cache'[x])
    BY <1>7, <1>8, <2>1 DEF Sound
  <2> QED
    BY <2>2 DEF CursorSound, Sound, EntryAt, Rows
<1>10. index = others \cup Pairs(d, old, DOMAIN old)
  BY DEF IInv, IndexExact, Rows
<1>11. \A z \in others : \A n, i : z # <<i, <<d, n>>>>
  <2>1. ASSUME NEW z \in others, NEW n, NEW i, z = <<i, <<d, n>>>> PROVE FALSE
    <3>1. PICK x \in Dirs \ {d} : z \in Pairs(x, cache[x].entries, Rows(x))
      OBVIOUS
    <3> QED
      BY <2>1, <3>1, PairsMember
  <2> QED
    BY <2>1
<1>12. others' = others
  BY <1>8 DEF Rows
<1> HIDE DEF others
<1>13. index' = others \cup Pairs(d, new, DOMAIN new)
  BY <1>6, <1>10, <1>11, ReindexedPairs
<1>14. IndexExact'
  BY <1>7, <1>8, <1>12, <1>13 DEF IndexExact, Rows, others
<1>15. Pairs(d, new, DOMAIN new) \subseteq Inodes \X Paths
  <2>1. ASSUME NEW n \in DOMAIN new, new[n].inode # 0
        PROVE  <<new[n].inode, <<d, n>>>> \in Inodes \X Paths
    BY <1>2, <1>4, <2>1 DEF Entry, Paths
  <2> QED
    BY <2>1, PairsMember
<1>16. TypeOK'
  BY <1>1, <1>8, <1>10, <1>13, <1>15 DEF TypeOK
<1> QED
  BY <1>9, <1>14, <1>16 DEF IInv

-----------------------------------------------------------------------------
(* Selected elements in their order.                                       *)

\* A set of numbers that has 0 and climbs to n has them all.
LEMMA Climbs ==
    ASSUME NEW n \in Nat, NEW S, 0 \in S, \A k \in 0 .. n : k # 0 /\ k - 1 \in S => k \in S
    PROVE  0 .. n \subseteq S
<1> DEFINE Bad == {k \in 0 .. n : k \notin S}
           T == {0 .. k : k \in Bad}
<1>1. SUFFICES ASSUME Bad # {} PROVE FALSE
  OBVIOUS
<1>2. IsFiniteSet(0 .. n)
  BY FS_Interval
<1>3. T \subseteq FiniteSubsetsOf(0 .. n) /\ T # {}
  <2>1. ASSUME NEW k \in Bad PROVE 0 .. k \in FiniteSubsetsOf(0 .. n)
    <3>1. 0 .. k \subseteq 0 .. n
      OBVIOUS
    <3> QED
      BY <1>2, <3>1, FS_Subset DEF FiniteSubsetsOf
  <2> QED
    BY <1>1, <2>1
<1>4. PICK V \in T : \A U \in T : <<U, V>> \notin StrictSubsetOrdering(0 .. n)
  <2> HIDE DEF T
  <2> QED
    BY <1>2, <1>3, FS_StrictSubsetOrderingWellFounded, WFMin
<1>5. PICK k \in Bad : V = 0 .. k
  OBVIOUS
<1>6. k \in 1 .. n /\ k - 1 \in Bad
  BY <1>5
<1>7. 0 .. (k - 1) \in T
  BY <1>6
<1>8. 0 .. (k - 1) \subseteq 0 .. k /\ 0 .. (k - 1) # 0 .. k /\ 0 .. k \subseteq 0 .. n
  BY <1>6
<1>9. <<0 .. (k - 1), V>> \in StrictSubsetOrdering(0 .. n)
  BY <1>5, <1>8 DEF StrictSubsetOrdering
<1> QED
  BY <1>4, <1>7, <1>9

\* Each rank in a finite set of numbers is that of one element.
Rank(I, j) == Cardinality({k \in I : k <= j})

LEMMA Ranks ==
    ASSUME NEW I \in SUBSET Nat, IsFiniteSet(I)
    PROVE  /\ \A j \in I : Rank(I, j) \in 1 .. Cardinality(I)
           /\ \A j, k \in I : Rank(I, j) = Rank(I, k) => j = k
           /\ \A i \in 1 .. Cardinality(I) : \E j \in I : Rank(I, j) = i
<1> DEFINE upTo(j) == {k \in I : k <= j}
           rank == [j \in I |-> Cardinality(upTo(j))]
           c == Cardinality(I)
<1>1. c \in Nat
  BY FS_CardinalityType
<1>2. ASSUME NEW j \in I
      PROVE  /\ IsFiniteSet(upTo(j)) /\ rank[j] \in 1 .. c
  <2>1. IsFiniteSet(upTo(j)) /\ Cardinality(upTo(j)) <= c /\ Cardinality(upTo(j)) \in Nat
    BY FS_Subset, FS_CardinalityType
  <2>2. j \in upTo(j)
    OBVIOUS
  <2>3. Cardinality(upTo(j)) # 0
    BY <2>1, <2>2, FS_EmptySet
  <2> QED
    BY <1>1, <2>1, <2>3
<1>3. ASSUME NEW j \in I, NEW k \in I, j < k PROVE rank[j] < rank[k]
  <2>1. upTo(j) \subseteq upTo(k) /\ k \in upTo(k) /\ k \notin upTo(j)
    <3>1. j \in Nat /\ k \in Nat /\ \A x \in I : x \in Nat
      OBVIOUS
    <3>2. \A x \in I : x <= j => x <= k
      BY <1>3, <3>1
    <3>3. k \in upTo(k) /\ k \notin upTo(j)
      BY <1>3, <3>1
    <3>4. upTo(j) \subseteq upTo(k)
      BY <3>2
    <3> QED
      BY <3>3, <3>4
  <2>2. Cardinality(upTo(j)) < Cardinality(upTo(k))
    <3> HIDE DEF upTo
    <3>1. IsFiniteSet(upTo(k)) /\ upTo(j) # upTo(k)
      BY <1>2, <2>1
    <3>2. /\ Cardinality(upTo(j)) <= Cardinality(upTo(k))
          /\ Cardinality(upTo(k)) = Cardinality(upTo(j)) => upTo(k) = upTo(j)
      BY <2>1, <3>1, FS_Subset
    <3>3. Cardinality(upTo(j)) \in Nat /\ Cardinality(upTo(k)) \in Nat
      BY <1>2, FS_CardinalityType
    <3> QED
      BY <3>1, <3>2, <3>3
  <2> QED
    BY <2>2
<1>4. \A j, k \in I : rank[j] = rank[k] => j = k
  <2>1. SUFFICES ASSUME NEW j \in I, NEW k \in I, rank[j] = rank[k], j # k PROVE FALSE
    OBVIOUS
  <2>2. j < k \/ k < j
    BY <2>1
  <2>3. rank[j] < rank[k] \/ rank[k] < rank[j]
    BY <1>3, <2>2
  <2>4. rank[j] \in 1 .. c /\ rank[k] \in 1 .. c
    BY <1>2
  <2> QED
    BY <1>1, <2>1, <2>3, <2>4
<1>5. rank \in Injection(I, 1 .. c)
  BY <1>2, <1>4 DEF Injection, IsInjective
<1>6. IsFiniteSet(1 .. c) /\ Cardinality(1 .. c) = c
  BY <1>1, FS_Interval
<1>7. rank \in Surjection(I, 1 .. c)
  <2> HIDE DEF rank
  <2> QED
    BY <1>5, <1>6, FS_Injection
<1>8. \A j \in I : Rank(I, j) = rank[j]
  BY DEF Rank
<1>9. \A i \in 1 .. c : \E j \in I : rank[j] = i
  <2> HIDE DEF rank
  <2> QED
    BY <1>7 DEF Surjection
<1>10. \A j \in I : rank[j] \in 1 .. c
  BY <1>2
<1> HIDE DEF rank
<1> QED
  BY <1>4, <1>8, <1>9, <1>10

\* The elements of s in W, as often as in s.
LEMMA KeptIs ==
    ASSUME NEW X, NEW s \in Seq(X), NEW W
    PROVE  /\ Kept(s, W) \in Seq(X)
           /\ ToSet(Kept(s, W)) = ToSet(s) \cap W
           /\ IsInjective(s) => IsInjective(Kept(s, W))
<1> DEFINE I == {j \in DOMAIN s : s[j] \in W}
           c == Cardinality(I)
           pos(i) == CHOOSE j \in I : Rank(I, j) = i
           t == [i \in 1 .. c |-> s[pos(i)]]
<1>1. DOMAIN s = 1 .. Len(s) /\ Len(s) \in Nat /\ \A j \in DOMAIN s : s[j] \in X
  OBVIOUS
<1>2. IsFiniteSet(I) /\ c \in Nat /\ I \in SUBSET Nat
  <2>1. IsFiniteSet(1 .. Len(s))
    BY <1>1, FS_Interval
  <2>2. I \subseteq 1 .. Len(s)
    BY <1>1
  <2> HIDE DEF I
  <2>3. IsFiniteSet(I)
    BY <2>1, <2>2, FS_Subset
  <2> QED
    BY <1>1, <2>2, <2>3, FS_CardinalityType
<1>3. Kept(s, W) = t
  <2>1. I \in SUBSET DOMAIN s
    OBVIOUS
  <2>2. Kept(s, W) = AtPlaces(s)[I]
    BY DEF Kept
  <2> HIDE DEF I
  <2> QED
    BY <2>1, <2>2 DEF AtPlaces, Rank
<1>4. \A j \in I : j \in DOMAIN s /\ s[j] \in W
  OBVIOUS
<1>5. \A j \in DOMAIN s : s[j] \in W => j \in I
  OBVIOUS
<1> HIDE DEF I
<1>6. /\ \A j \in I : Rank(I, j) \in 1 .. c
      /\ \A j, k \in I : Rank(I, j) = Rank(I, k) => j = k
      /\ \A i \in 1 .. c : \E j \in I : Rank(I, j) = i
  BY <1>2, Ranks
<1>7. \A i \in 1 .. c : pos(i) \in I /\ Rank(I, pos(i)) = i
  BY <1>6
<1>8. \A j \in I : pos(Rank(I, j)) = j
  <2>1. ASSUME NEW j \in I PROVE pos(Rank(I, j)) = j
    <3>1. Rank(I, j) \in 1 .. c
      BY <1>6
    <3>2. PICK i \in 1 .. c : i = Rank(I, j)
      BY <3>1
    <3>3. pos(i) \in I /\ Rank(I, pos(i)) = i
      BY <1>7
    <3> HIDE DEF pos
    <3>4. pos(i) = j
      BY <1>6, <3>2, <3>3
    <3> QED
      BY <3>2, <3>4
  <2> QED
    BY <2>1
<1> HIDE DEF pos, c
<1>9. DOMAIN t = 1 .. c /\ \A i \in 1 .. c : t[i] = s[pos(i)]
  OBVIOUS
<1>10. \A i \in 1 .. c : t[i] \in X /\ t[i] \in W /\ t[i] \in ToSet(s)
  BY <1>1, <1>4, <1>7, <1>9 DEF ToSet
<1>11. t \in Seq(X)
  <2>1. t \in [1 .. c -> X]
    BY <1>9, <1>10
  <2> QED
    BY <1>2, <2>1
<1>12. ToSet(t) = ToSet(s) \cap W
  <2>1. ASSUME NEW x \in ToSet(s), x \in W PROVE x \in ToSet(t)
    <3>1. PICK j \in DOMAIN s : s[j] = x
      BY DEF ToSet
    <3>2. j \in I /\ Rank(I, j) \in 1 .. c
      BY <1>5, <1>6, <2>1, <3>1
    <3>3. t[Rank(I, j)] = x
      BY <1>8, <1>9, <3>1, <3>2
    <3> QED
      BY <1>9, <3>2, <3>3 DEF ToSet
  <2>2. ASSUME NEW x \in ToSet(t) PROVE x \in ToSet(s) /\ x \in W
    <3>1. PICK i \in DOMAIN t : t[i] = x
      BY DEF ToSet
    <3> HIDE DEF t
    <3> QED
      BY <1>9, <1>10, <3>1
  <2> HIDE DEF t
  <2> QED
    BY <2>1, <2>2
<1>13. ASSUME IsInjective(s) PROVE IsInjective(t)
  <2>1. SUFFICES ASSUME NEW i \in 1 .. c, NEW k \in 1 .. c, t[i] = t[k] PROVE i = k
    BY <1>9 DEF IsInjective
  <2>2. pos(i) \in DOMAIN s /\ pos(k) \in DOMAIN s /\ s[pos(i)] = s[pos(k)]
    BY <1>4, <1>7, <1>9, <2>1
  <2>3. pos(i) = pos(k)
    BY <1>13, <2>2 DEF IsInjective
  <2> QED
    BY <1>7, <2>3
<1> HIDE DEF t
<1> QED
  BY <1>3, <1>11, <1>12, <1>13

\* What is not in the list has a longer list before it.
LEMMA FirstOfIs ==
    ASSUME NEW X, NEW s \in Seq(X), NEW k \in Nat
    PROVE  /\ FirstOf(s, k) \in Seq(X)
           /\ Len(FirstOf(s, k)) = IF k < Len(s) THEN k ELSE Len(s)
           /\ \A i \in 1 .. Len(FirstOf(s, k)) : i <= Len(s) /\ FirstOf(s, k)[i] = s[i]
           /\ ToSet(FirstOf(s, k)) \subseteq ToSet(s)
           /\ k >= Len(s) => FirstOf(s, k) = s
           /\ IsInjective(s) => IsInjective(FirstOf(s, k))
<1> DEFINE m == IF k < Len(s) THEN k ELSE Len(s)
           t == FirstOf(s, k)
<1>1. Len(s) \in Nat /\ DOMAIN s = 1 .. Len(s) /\ m \in Nat /\ m <= Len(s) /\ m <= k
  OBVIOUS
<1>2. t = SubSeq(s, 1, m)
  BY DEF FirstOf
<1> HIDE DEF m, t
<1>3. /\ t \in Seq(X) /\ Len(t) = m /\ DOMAIN t = 1 .. m
      /\ \A i \in 1 .. m : t[i] = s[i]
  BY <1>1, <1>2
<1>4. \A i \in 1 .. m : i \in DOMAIN s
  BY <1>1
<1>5. ToSet(t) \subseteq ToSet(s)
  BY <1>3, <1>4 DEF ToSet
<1>6. ASSUME k >= Len(s) PROVE t = s
  <2>1. Len(s) \in Nat
    BY <1>1
  <2>2. \A n \in Nat : k >= n => (IF k < n THEN k ELSE n) = n
    OBVIOUS
  <2>3. m = Len(s)
    BY <1>6, <2>1, <2>2, Zenon DEF m
  <2> QED
    BY <1>1, <1>3, <2>3
<1>7. ASSUME IsInjective(s) PROVE IsInjective(t)
  BY <1>3, <1>4, <1>7 DEF IsInjective
<1>8. \A i \in 1 .. m : i <= Len(s)
  BY <1>1
<1> QED
  BY <1>3, <1>5, <1>6, <1>7, <1>8 DEF m, t

LEMMA ConcatIs ==
    ASSUME NEW X, NEW s \in Seq(X), NEW t \in Seq(X)
    PROVE  /\ s \o t \in Seq(X) /\ Len(s \o t) = Len(s) + Len(t)
           /\ \A i \in 1 .. Len(s) : (s \o t)[i] = s[i]
           /\ ToSet(s \o t) = ToSet(s) \cup ToSet(t)
           /\ IsInjective(s) /\ IsInjective(t) /\ ToSet(s) \cap ToSet(t) = {}
                => IsInjective(s \o t)
<1> DEFINE u == s \o t
           m == Len(s)  n == Len(t)
<1>1. /\ m \in Nat /\ DOMAIN s = 1 .. m /\ n \in Nat /\ DOMAIN t = 1 .. n
      /\ u \in Seq(X) /\ Len(u) = m + n /\ DOMAIN u = 1 .. (m + n)
      /\ \A i \in 1 .. m : u[i] = s[i]
      /\ \A i \in 1 .. n : u[m + i] = t[i]
  OBVIOUS
<1> HIDE DEF u, m, n
<1>2. ASSUME NEW i \in 1 .. (m + n)
      PROVE  (i \in 1 .. m /\ u[i] = s[i]) \/ (i - m \in 1 .. n /\ u[i] = t[i - m])
  <2>1. CASE i <= m
    BY <1>1, <2>1
  <2>2. CASE ~(i <= m)
    <3>1. i - m \in 1 .. n /\ m + (i - m) = i
      BY <1>1, <2>2
    <3> QED
      BY <1>1, <3>1
  <2> QED
    BY <2>1, <2>2
<1>3. ToSet(u) = ToSet(s) \cup ToSet(t)
  <2>1. ASSUME NEW x \in ToSet(u) PROVE x \in ToSet(s) \cup ToSet(t)
    <3>1. PICK i \in 1 .. (m + n) : u[i] = x
      BY <1>1 DEF ToSet
    <3> QED
      BY <1>1, <1>2, <3>1 DEF ToSet
  <2>2. ASSUME NEW x \in ToSet(s) PROVE x \in ToSet(u)
    <3>1. PICK i \in 1 .. m : s[i] = x
      BY <1>1 DEF ToSet
    <3>2. i \in DOMAIN u /\ u[i] = x
      BY <1>1, <3>1
    <3> QED
      BY <3>2 DEF ToSet
  <2>3. ASSUME NEW x \in ToSet(t) PROVE x \in ToSet(u)
    <3>1. PICK i \in 1 .. n : t[i] = x
      BY <1>1 DEF ToSet
    <3>2. m + i \in DOMAIN u /\ u[m + i] = x
      BY <1>1, <3>1
    <3> QED
      BY <3>2 DEF ToSet
  <2> QED
    BY <2>1, <2>2, <2>3
<1>4. ASSUME IsInjective(s), IsInjective(t), ToSet(s) \cap ToSet(t) = {}
      PROVE  IsInjective(u)
  <2>1. \A i \in 1 .. m, k \in 1 .. n : s[i] # t[k]
    BY <1>1, <1>4 DEF ToSet
  <2>2. SUFFICES ASSUME NEW i \in 1 .. (m + n), NEW k \in 1 .. (m + n), u[i] = u[k]
                 PROVE  i = k
    BY <1>1 DEF IsInjective
  <2>3. CASE i \in 1 .. m /\ u[i] = s[i] /\ k \in 1 .. m /\ u[k] = s[k]
    BY <1>1, <1>4, <2>2, <2>3 DEF IsInjective
  <2>4. CASE i - m \in 1 .. n /\ u[i] = t[i - m] /\ k - m \in 1 .. n /\ u[k] = t[k - m]
    <3>1. i - m = k - m
      BY <1>1, <1>4, <2>2, <2>4 DEF IsInjective
    <3> QED
      BY <1>1, <3>1
  <2> QED
    BY <1>2, <2>1, <2>2, <2>3, <2>4
<1> QED
  BY <1>1, <1>3, <1>4 DEF u, m, n

\* A list that names nothing twice is as long as its set is large.
LEMMA ListLength ==
    ASSUME NEW X, NEW s \in Seq(X), IsInjective(s)
    PROVE  Cardinality(ToSet(s)) = Len(s)
<1> DEFINE n == Len(s)
           T == ToSet(s)
<1>1. n \in Nat /\ DOMAIN s = 1 .. n /\ s \in [1 .. n -> X]
  OBVIOUS
<1>2. T = {s[i] : i \in 1 .. n}
  BY <1>1 DEF ToSet
<1> HIDE DEF n, T
<1>3. s \in [1 .. n -> T] /\ \A x \in T : \E i \in 1 .. n : s[i] = x
  BY <1>1, <1>2
<1>4. \A i, k \in 1 .. n : s[i] = s[k] => i = k
  BY <1>1 DEF IsInjective
<1>5. s \in Bijection(1 .. n, T)
  BY <1>3, <1>4 DEF Bijection, Injection, Surjection, IsInjective
<1>6. IsFiniteSet(1 .. n) /\ Cardinality(1 .. n) = n
  BY <1>1, FS_Interval
<1>7. Cardinality(T) = Cardinality(1 .. n)
  BY <1>5, <1>6, FS_Bijection DEF ExistsBijection
<1> QED
  BY <1>6, <1>7 DEF n, T

\* Rows as paths.
PathsOf(d, s) == [i \in DOMAIN s |-> <<d, s[i]>>]

LEMMA PathsIs ==
    ASSUME NEW d \in Dirs, NEW s \in Seq(Names)
    PROVE  /\ PathsOf(d, s) \in Seq(Paths) /\ Len(PathsOf(d, s)) = Len(s)
           /\ ToSet(PathsOf(d, s)) = {<<d, n>> : n \in ToSet(s)}
           /\ \A i \in 1 .. Len(s) : PathsOf(d, s)[i] = <<d, s[i]>>
           /\ IsInjective(s) => IsInjective(PathsOf(d, s))
<1> DEFINE t == [i \in DOMAIN s |-> <<d, s[i]>>]
           n == Len(s)
<1>1. n \in Nat /\ DOMAIN s = 1 .. n /\ \A i \in 1 .. n : s[i] \in Names
  OBVIOUS
<1>2. PathsOf(d, s) = t
  BY DEF PathsOf
<1> HIDE DEF n
<1>3. \A i \in 1 .. n : t[i] = <<d, s[i]>> /\ t[i] \in Paths
  BY <1>1 DEF Paths
<1>4. t \in [1 .. n -> Paths] /\ DOMAIN t = 1 .. n
  BY <1>1, <1>3
<1>5. t \in Seq(Paths) /\ Len(t) = n
  <2> HIDE DEF t
  <2> QED
    BY <1>1, <1>4
<1>6. ToSet(t) = {<<d, k>> : k \in ToSet(s)}
  BY <1>1, <1>3, <1>4 DEF ToSet
<1>7. ASSUME IsInjective(s) PROVE IsInjective(t)
  <2>1. SUFFICES ASSUME NEW i \in 1 .. n, NEW k \in 1 .. n, t[i] = t[k] PROVE i = k
    BY <1>4 DEF IsInjective
  <2>2. s[i] = s[k]
    BY <1>3, <2>1
  <2> QED
    BY <1>1, <1>7, <2>2 DEF IsInjective
<1> HIDE DEF t
<1> QED
  BY <1>2, <1>3, <1>5, <1>6, <1>7 DEF n

\* The rows of R that are in s, and those with an Unknown count come in first.
LEMMA UnknownFirstIs ==
    ASSUME NEW d \in Dirs, NEW s \in Seq(Names), NEW R
    PROVE  /\ UnknownFirst(d, s, R) \in Seq(Paths)
           /\ ToSet(UnknownFirst(d, s, R)) = {<<d, n>> : n \in ToSet(s) \cap R}
           /\ IsInjective(s) => /\ IsInjective(UnknownFirst(d, s, R))
                                /\ Len(UnknownFirst(d, s, R)) = Cardinality(ToSet(s) \cap R)
           /\ \A k \in Nat, n \in ToSet(s) \cap R : EntryAt(<<d, n>>).nlink = Unknown =>
                \/ <<d, n>> \in ToSet(FirstOf(UnknownFirst(d, s, R), k))
                \/ \A q \in ToSet(FirstOf(UnknownFirst(d, s, R), k)) :
                     EntryAt(q).nlink = Unknown
<1> DEFINE U == {n \in R : EntryAt(<<d, n>>).nlink = Unknown}
           a == Kept(s, U)
           b == Kept(s, R \ U)
           u == a \o b
           p == PathsOf(d, u)
<1>1. UnknownFirst(d, s, R) = p
  BY DEF UnknownFirst, PathsOf
<1>2. \A n \in U : n \in R /\ EntryAt(<<d, n>>).nlink = Unknown
  OBVIOUS
<1>3. \A n \in R : EntryAt(<<d, n>>).nlink = Unknown => n \in U
  OBVIOUS
<1> HIDE DEF U
<1>4. /\ a \in Seq(Names) /\ ToSet(a) = ToSet(s) \cap U
      /\ IsInjective(s) => IsInjective(a)
  BY KeptIs
<1>5. /\ b \in Seq(Names) /\ ToSet(b) = ToSet(s) \cap (R \ U)
      /\ IsInjective(s) => IsInjective(b)
  BY KeptIs
<1> HIDE DEF a, b
<1>6. /\ u \in Seq(Names) /\ Len(u) = Len(a) + Len(b)
      /\ \A i \in 1 .. Len(a) : u[i] = a[i]
      /\ ToSet(u) = ToSet(a) \cup ToSet(b)
      /\ IsInjective(a) /\ IsInjective(b) /\ ToSet(a) \cap ToSet(b) = {}
           => IsInjective(u)
  BY <1>4, <1>5, ConcatIs
<1> HIDE DEF u
<1>7. /\ p \in Seq(Paths) /\ Len(p) = Len(u)
      /\ ToSet(p) = {<<d, n>> : n \in ToSet(u)}
      /\ \A i \in 1 .. Len(u) : p[i] = <<d, u[i]>>
      /\ IsInjective(u) => IsInjective(p)
  BY <1>6, PathsIs
<1> HIDE DEF p
<1>8. ToSet(u) = ToSet(s) \cap R
  BY <1>2, <1>4, <1>5, <1>6
<1>9. ASSUME IsInjective(s) PROVE IsInjective(p) /\ Len(p) = Cardinality(ToSet(s) \cap R)
  <2>1. IsInjective(u)
    BY <1>4, <1>5, <1>6, <1>9
  <2>2. Len(u) = Cardinality(ToSet(u))
    BY <1>6, <2>1, ListLength
  <2> QED
    BY <1>7, <1>8, <2>1, <2>2
<1>10. ASSUME NEW k \in Nat, NEW n \in ToSet(s) \cap R, EntryAt(<<d, n>>).nlink = Unknown
       PROVE  \/ <<d, n>> \in ToSet(FirstOf(p, k))
              \/ \A q \in ToSet(FirstOf(p, k)) : EntryAt(q).nlink = Unknown
  <2> DEFINE f == FirstOf(p, k)
             la == Len(a)  lb == Len(b)
  <2>1. la \in Nat /\ lb \in Nat /\ DOMAIN a = 1 .. la
    BY <1>4, <1>5
  <2>2. Len(p) = la + lb
    BY <1>6, <1>7
  <2>3. /\ f \in Seq(Paths) /\ Len(f) = (IF k < Len(p) THEN k ELSE Len(p))
        /\ \A i \in 1 .. Len(f) : f[i] = p[i]
    BY <1>7, FirstOfIs
  <2>4. DOMAIN f = 1 .. Len(f)
    BY <2>3
  <2>5. \A i \in 1 .. la : p[i] = <<d, a[i]>> /\ a[i] \in U
    <3>1. \A i \in 1 .. la : i \in 1 .. Len(u) /\ u[i] = a[i] /\ a[i] \in U
      BY <1>4, <1>6, <2>1 DEF ToSet
    <3> QED
      BY <1>7, <3>1
  <2>6. n \in ToSet(a)
    BY <1>3, <1>4, <1>10
  <2>7. PICK i \in 1 .. la : a[i] = n
    BY <2>1, <2>6 DEF ToSet
  <2> HIDE DEF f, la, lb
  <2>8. CASE k >= la
    <3>1. i \in 1 .. Len(f)
      BY <2>1, <2>2, <2>3, <2>8
    <3>2. i \in DOMAIN f /\ f[i] = <<d, n>>
      BY <2>3, <2>4, <2>5, <2>7, <3>1
    <3> QED
      BY <3>2 DEF ToSet, f
  <2>9. CASE k < la
    <3>1. Len(f) = k
      BY <2>1, <2>2, <2>3, <2>9
    <3>2. \A j \in DOMAIN f : j \in 1 .. la /\ f[j] = p[j]
      BY <2>1, <2>3, <2>4, <2>9, <3>1
    <3>3. \A j \in DOMAIN f : EntryAt(f[j]).nlink = Unknown
      BY <1>2, <2>5, <3>2
    <3> QED
      BY <3>3 DEF ToSet, f
  <2> QED
    BY <2>1, <2>8, <2>9
<1> QED
  BY <1>1, <1>7, <1>8, <1>9, <1>10

\* As many of R as there is room for.
LEMMA FirstRowsAre ==
    ASSUME NEW R \in SUBSET Nat, IsFiniteSet(R), NEW k \in Nat
    PROVE  /\ FirstRows(R, k) \subseteq R
           /\ Cardinality(FirstRows(R, k)) \in Nat /\ Cardinality(FirstRows(R, k)) <= k
           /\ Cardinality(FirstRows(R, k)) < k => FirstRows(R, k) = R
<1> DEFINE F == FirstRows(R, k)
           c == Cardinality(R)
           rank == [n \in F |-> Rank(R, n)]
<1>1. c \in Nat
  BY FS_CardinalityType
<1>2. /\ \A n \in R : Rank(R, n) \in 1 .. c
      /\ \A n, m \in R : Rank(R, n) = Rank(R, m) => n = m
      /\ \A i \in 1 .. c : \E n \in R : Rank(R, n) = i
  BY Ranks
<1>3. F \subseteq R /\ \A n \in R : n \in F <=> Rank(R, n) <= k
  BY DEF FirstRows, Rank
<1> HIDE DEF F, c
<1>4. IsFiniteSet(F) /\ Cardinality(F) \in Nat
  BY <1>3, FS_Subset, FS_CardinalityType
<1>5. IsFiniteSet(1 .. k) /\ Cardinality(1 .. k) = k
  BY FS_Interval
<1>6. \A n \in F : rank[n] \in 1 .. k
  BY <1>1, <1>2, <1>3
<1>7. rank \in Injection(F, 1 .. k)
  BY <1>2, <1>3, <1>6 DEF Injection, IsInjective
<1>8. Cardinality(F) <= k
  <2> HIDE DEF rank
  <2> QED
    BY <1>5, <1>7, FS_Injection
<1>9. CASE c <= k
  <2>1. \A n \in R : Rank(R, n) <= k
    BY <1>1, <1>2, <1>9
  <2>2. F = R
    BY <1>3, <2>1
  <2> QED
    BY <1>4, <1>8, <2>2 DEF F
<1>10. CASE ~(c <= k)
  <2>1. ASSUME NEW i \in 1 .. k PROVE \E n \in F : rank[n] = i
    <3>1. i \in 1 .. c
      BY <1>1, <1>10
    <3>2. PICK n \in R : Rank(R, n) = i
      BY <1>2, <3>1
    <3> QED
      BY <1>3, <3>2
  <2> HIDE DEF rank
  <2>2. rank \in Bijection(F, 1 .. k)
    BY <1>7, <2>1 DEF Bijection, Injection, Surjection
  <2>3. Cardinality(F) = k
    BY <1>4, <1>5, <2>2, FS_Bijection DEF ExistsBijection
  <2> QED
    BY <1>3, <1>4, <2>3 DEF F
<1> QED
  BY <1>9, <1>10

-----------------------------------------------------------------------------
(* nextStats.                                                              *)

LEMMA RowsAreNames ==
    ASSUME IInv, NEW d \in Dirs
    PROVE  Rows(d) \in SUBSET Names
<1>1. cache[d] \in Record
  BY DEF IInv, TypeOK
<1> QED
  BY <1>1, RecordFields DEF Rows

LEMMA NamesInOrder ==
    /\ Ascending \in Seq(Names) /\ IsInjective(Ascending) /\ ToSet(Ascending) = Names
    /\ IsFiniteSet(Names) /\ Names \subseteq Nat
<1>1. MaxName \in Nat /\ Names = 1 .. MaxName
  BY MaxNameAssumption DEF Names
<1>2. Ascending \in [1 .. MaxName -> Names] /\ DOMAIN Ascending = Names
      /\ \A n \in Names : Ascending[n] = n
  BY <1>1 DEF Ascending
<1>3. Ascending \in Seq(Names)
  BY <1>1, <1>2
<1>4. IsInjective(Ascending) /\ ToSet(Ascending) = Names
  BY <1>2 DEF IsInjective, ToSet
<1> QED
  BY <1>1, <1>3, <1>4, FS_Interval

\* What the cursor has passed wants nothing.
LEMMA PassedWantNothing ==
    ASSUME IInv, NEW d \in Dirs, NEW n \in Passed(d)
    PROVE  n \in Rows(d) /\ ~NeedsStat(EntryAt(<<d, n>>))
<1>1. n \in Rows(d) /\ n \in Nat
  BY RowsAreNames, NamesInOrder DEF Passed
<1>2. n \in cache[d].skipped \/ ~NeedsStat(EntryAt(<<d, n>>))
  BY <1>1 DEF Passed
<1> QED
  BY <1>1, <1>2 DEF IInv, CursorSound

\* The cursor saves the walk nothing but time.
LEMMA WantedRows ==
    ASSUME IInv, NEW d \in Dirs, NEW taken
    PROVE  /\ Wanted(d, taken) \ Passed(d) = Wanted(d, taken)
           /\ Wanted(d, taken) \in SUBSET Names
           /\ IsFiniteSet(Wanted(d, taken))
<1>1. Wanted(d, taken) \ Passed(d) = Wanted(d, taken)
  BY PassedWantNothing DEF Wanted
<1>2. Wanted(d, taken) \in SUBSET Names
  BY RowsAreNames DEF Wanted
<1>3. IsFiniteSet(Wanted(d, taken))
  BY <1>2, NamesInOrder, FS_Subset
<1> QED
  BY <1>1, <1>2, <1>3

\* The visible rows.
LEMMA PriorityIs ==
    ASSUME IInv, NEW acc \in Progress, NEW d \in Dirs, NEW s \in Seq(Names), NEW ex,
           NEW max \in Nat, ~Full(acc, max),
           NEW p, p = Priority(acc, [dir |-> d, priority |-> s], ex, max).paths
    PROVE  /\ Priority(acc, [dir |-> d, priority |-> s], ex, max) \in Progress
           /\ p \in Seq(Paths) /\ Len(acc.paths) <= Len(p) /\ Len(p) <= max
           /\ acc.paths = <<>> =>
                LET V == ToSet(s) \cap Wanted(d, ex)
                IN  /\ ToSet(p) \subseteq {<<d, n>> : n \in V}
                    /\ Len(p) < max => ToSet(p) = {<<d, n>> : n \in V}
                    /\ IsInjective(s) => IsInjective(p)
                    /\ \A n \in V : EntryAt(<<d, n>>).nlink = Unknown =>
                         \/ <<d, n>> \in ToSet(p)
                         \/ \A q \in ToSet(p) : EntryAt(q).nlink = Unknown
<1> DEFINE taken == ex \cup ToSet(acc.paths)
           V == ToSet(s) \cap Wanted(d, ex)
<1>1. PICK a \in Seq(Paths) : a = acc.paths
  BY DEF Progress
<1>2. PICK m \in Nat : m = Len(a)
  BY <1>1
<1>3. m < max /\ max - m \in Nat
  <2>1. ~(m >= max)
    BY <1>1, <1>2 DEF Full
  <2> QED
    BY <2>1
<1>4. PICK k \in Nat : k = max - m
  BY <1>3
<1>5. PICK R : R = Wanted(d, taken)
  OBVIOUS
<1>6. PICK vis : vis = UnknownFirst(d, s, R)
  OBVIOUS
<1>7. PICK f : f = FirstOf(vis, k)
  OBVIOUS
<1>8. /\ Priority(acc, [dir |-> d, priority |-> s], ex, max) = [acc EXCEPT !.paths = a \o f]
      /\ p = a \o f
  BY <1>1, <1>2, <1>4, <1>5, <1>6, <1>7 DEF Priority, Progress
<1>9. /\ vis \in Seq(Paths) /\ Len(vis) \in Nat
      /\ ToSet(vis) = {<<d, n>> : n \in ToSet(s) \cap R}
      /\ IsInjective(s) => IsInjective(vis)
  <2>1. /\ UnknownFirst(d, s, R) \in Seq(Paths)
        /\ ToSet(UnknownFirst(d, s, R)) = {<<d, n>> : n \in ToSet(s) \cap R}
        /\ IsInjective(s) => IsInjective(UnknownFirst(d, s, R))
    BY UnknownFirstIs
  <2>2. vis \in Seq(Paths)
    BY <1>6, <2>1
  <2>3. Len(vis) \in Nat
    BY <2>2
  <2> QED
    BY <1>6, <2>1, <2>2, <2>3
<1>10. \A n \in ToSet(s) \cap R : EntryAt(<<d, n>>).nlink = Unknown =>
          \/ <<d, n>> \in ToSet(f)
          \/ \A q \in ToSet(f) : EntryAt(q).nlink = Unknown
  <2>1. \A x \in ToSet(s) \cap R : EntryAt(<<d, x>>).nlink = Unknown =>
          \/ <<d, x>> \in ToSet(FirstOf(UnknownFirst(d, s, R), k))
          \/ \A q \in ToSet(FirstOf(UnknownFirst(d, s, R), k)) : EntryAt(q).nlink = Unknown
    <3>1. \A j \in Nat, n \in ToSet(s) \cap R : EntryAt(<<d, n>>).nlink = Unknown =>
             \/ <<d, n>> \in ToSet(FirstOf(UnknownFirst(d, s, R), j))
             \/ \A q \in ToSet(FirstOf(UnknownFirst(d, s, R), j)) :
                  EntryAt(q).nlink = Unknown
      BY UnknownFirstIs, Zenon
    <3> QED
      BY <3>1
  <2> QED
    BY <1>6, <1>7, <2>1
<1>11. /\ f \in Seq(Paths)
       /\ Len(f) = IF k < Len(vis) THEN k ELSE Len(vis)
       /\ ToSet(f) \subseteq ToSet(vis)
       /\ k >= Len(vis) => f = vis
       /\ IsInjective(vis) => IsInjective(f)
  BY <1>7, <1>9, FirstOfIs
<1>12. p \in Seq(Paths) /\ Len(p) = m + Len(f)
  <2>1. a \o f \in Seq(Paths) /\ Len(a \o f) = Len(a) + Len(f)
    BY <1>11, ConcatIs
  <2> QED
    BY <1>2, <1>8, <2>1
<1>13. [acc EXCEPT !.paths = a \o f] \in Progress
  BY <1>8, <1>12 DEF Progress
<1>14. PICK n \in Nat : n = Len(vis)
  BY <1>9
<1>15. m <= Len(p) /\ Len(p) <= max /\ (Len(p) < max => k >= n)
  BY <1>3, <1>4, <1>11, <1>12, <1>14
<1>16. ASSUME acc.paths = <<>>
       PROVE  /\ ToSet(p) \subseteq {<<d, x>> : x \in V}
              /\ Len(p) < max => ToSet(p) = {<<d, x>> : x \in V}
              /\ IsInjective(s) => IsInjective(p)
              /\ \A x \in V : EntryAt(<<d, x>>).nlink = Unknown =>
                   \/ <<d, x>> \in ToSet(p)
                   \/ \A q \in ToSet(p) : EntryAt(q).nlink = Unknown
  <2>1. p = f
    BY <1>1, <1>8, <1>11, <1>16
  <2>2. ToSet(acc.paths) = {}
    BY <1>16 DEF ToSet
  <2>3. taken = ex
    BY <2>2
  <2>4. V = ToSet(s) \cap R
    BY <1>5, <2>3
  <2>5. ASSUME Len(p) < max PROVE f = vis
    BY <1>11, <1>14, <1>15, <2>5
  <2> HIDE DEF V
  <2> QED
    BY <1>9, <1>10, <1>11, <2>1, <2>4, <2>5
<1> QED
  BY <1>1, <1>2, <1>8, <1>12, <1>13, <1>15, <1>16

\* With what acc has, no more than max paths of wanted rows, and if they are
\* fewer all of them.
Fills(acc, d, ex, max, o) ==
    /\ o \in Progress /\ Len(acc.paths) <= Len(o.paths) /\ Len(o.paths) <= max
    /\ LET all == {<<d, n>> : n \in Wanted(d, ex \cup ToSet(acc.paths))}
       IN  /\ ToSet(acc.paths) \subseteq ToSet(o.paths)
           /\ ToSet(o.paths) \subseteq ToSet(acc.paths) \cup all
           /\ Len(o.paths) < max => ToSet(o.paths) = ToSet(acc.paths) \cup all
           /\ IsInjective(acc.paths) => IsInjective(o.paths)

LEMMA RestIs ==
    ASSUME IInv, NEW acc \in Progress, NEW sub, sub.dir \in Dirs, NEW ex,
           NEW max \in Nat, ~Full(acc, max)
    PROVE  Fills(acc, sub.dir, ex, max, Rest(acc, sub, ex, max))
<1>1. PICK a \in Seq(Paths) : a = acc.paths
  BY DEF Progress
<1>2. PICK m \in Nat : m = Len(a)
  BY <1>1
<1>3. m < max /\ max - m \in Nat
  <2>1. ~(m >= max)
    BY <1>1, <1>2 DEF Full
  <2> QED
    BY <2>1
<1>4. PICK k \in Nat : k = max - m
  BY <1>3
<1>5. PICK d \in Dirs : d = sub.dir
  OBVIOUS
<1>6. PICK W : W = Wanted(d, ex \cup ToSet(a))
  OBVIOUS
<1>7. PICK F : F = FirstRows(W, k)
  OBVIOUS
<1>8. PICK r : r = UnknownFirst(d, Ascending, F)
  OBVIOUS
<1>9. PICK p : p = a \o r
  OBVIOUS
<1>10. Rest(acc, sub, ex, max) = [paths |-> p, walked |-> acc.walked \cup {d}]
  BY <1>1, <1>2, <1>4, <1>5, <1>6, <1>7, <1>8, <1>9, WantedRows DEF Rest
<1>11. W \in SUBSET Names /\ W \in SUBSET Nat /\ IsFiniteSet(W)
  BY <1>6, WantedRows, NamesInOrder
<1>12. /\ F \subseteq W /\ Cardinality(F) \in Nat /\ Cardinality(F) <= k
       /\ Cardinality(F) < k => F = W
  BY <1>7, <1>11, FirstRowsAre
<1>13. \A n \in W : <<d, n>> \notin ToSet(a)
  BY <1>6 DEF Wanted
<1>14. ToSet(Ascending) \cap F = F
  BY <1>11, <1>12, NamesInOrder
<1>15. /\ r \in Seq(Paths) /\ ToSet(r) = {<<d, n>> : n \in F}
       /\ IsInjective(r) /\ Len(r) = Cardinality(F)
  BY <1>8, <1>14, NamesInOrder, UnknownFirstIs
<1>16. ToSet(a) \cap ToSet(r) = {}
  BY <1>12, <1>13, <1>15
<1>17. /\ p \in Seq(Paths) /\ Len(p) = m + Len(r)
       /\ ToSet(p) = ToSet(a) \cup ToSet(r)
       /\ IsInjective(a) => IsInjective(p)
  <2>1. /\ a \o r \in Seq(Paths) /\ Len(a \o r) = Len(a) + Len(r)
        /\ ToSet(a \o r) = ToSet(a) \cup ToSet(r)
        /\ IsInjective(a) => IsInjective(a \o r)
    BY <1>15, <1>16, ConcatIs
  <2> QED
    BY <1>2, <1>9, <2>1
<1>18. m <= Len(p) /\ Len(p) <= max /\ (Len(p) < max => F = W)
  <2>1. PICK c \in Nat : c = Cardinality(F)
    BY <1>12
  <2>2. c <= k /\ (c < k => F = W)
    BY <1>12, <2>1
  <2>3. Len(p) = m + c
    BY <1>15, <1>17, <2>1
  <2>4. PICK l \in Nat : l = Len(p)
    BY <2>3
  <2>5. l = m + c
    BY <2>3, <2>4
  <2>6. m <= l /\ l <= max /\ (l < max => c < k)
    BY <1>3, <1>4, <2>2, <2>5
  <2> QED
    BY <2>2, <2>4, <2>6
<1>19. [paths |-> p, walked |-> acc.walked \cup {d}] \in Progress
  BY <1>17 DEF Progress
<1> DEFINE all == {<<d, n>> : n \in W}
<1>20. ToSet(a) \subseteq ToSet(p) /\ ToSet(p) \subseteq ToSet(a) \cup all
  BY <1>12, <1>15, <1>17
<1>21. ASSUME Len(p) < max PROVE ToSet(p) = ToSet(a) \cup all
  BY <1>15, <1>17, <1>18, <1>21
<1>22. PICK o : o = Rest(acc, sub, ex, max)
  OBVIOUS
<1>23. o \in Progress /\ o.paths = p
  BY <1>10, <1>19, <1>22
<1>24. Fills(acc, d, ex, max, o)
  BY <1>1, <1>2, <1>6, <1>17, <1>18, <1>20, <1>21, <1>23 DEF Fills
<1> QED
  BY <1>5, <1>22, <1>24

-----------------------------------------------------------------------------
(* The walk over the subscriptions.                                        *)

View == [dir : Dirs, priority : Seq(Names)]
Nothing == [paths |-> <<>>, walked |-> {}]

\* f applies the functions step[1] to step[n] one after the other.
Applies(f, n, step, base) ==
    f = [k \in 0 .. n |-> IF k = 0 THEN base ELSE step[k][f[k - 1]]]

LEMMA WalkExists ==
    ASSUME NEW N \in Nat, NEW step, NEW base
    PROVE  \E f : Applies(f, N, step, base)
<1> DEFINE S == {n \in 0 .. N : \E f : Applies(f, n, step, base)}
<1>1. 0 \in S
  <2>1. Applies([k \in 0 .. 0 |-> base], 0, step, base)
    BY DEF Applies
  <2> QED
    BY <2>1
<1>2. ASSUME NEW n \in 0 .. N, n # 0, n - 1 \in S PROVE n \in S
  <2>1. PICK f : Applies(f, n - 1, step, base)
    BY <1>2
  <2> DEFINE g == [k \in 0 .. n |-> IF k = n THEN step[n][f[n - 1]] ELSE f[k]]
             h == [k \in 0 .. n |-> IF k = 0 THEN base ELSE step[k][g[k - 1]]]
  <2>2. \A k \in 0 .. (n - 1) : f[k] = IF k = 0 THEN base ELSE step[k][f[k - 1]]
    BY <2>1 DEF Applies
  <2>3. ASSUME NEW k \in 0 .. n PROVE g[k] = h[k]
    <3>1. CASE k = n
      <4>1. n - 1 \in 0 .. n /\ n - 1 # n
        BY <1>2
      <4>2. g[n - 1] = f[n - 1]
        BY <4>1
      <4> QED
        BY <1>2, <3>1, <4>2
    <3>2. CASE k # n /\ k # 0
      <4>1. k \in 0 .. (n - 1) /\ k - 1 \in 0 .. n /\ k - 1 # n
        BY <3>2
      <4>2. g[k - 1] = f[k - 1] /\ g[k] = f[k]
        BY <3>2, <4>1
      <4> QED
        BY <2>2, <3>2, <4>1, <4>2
    <3>3. CASE k # n /\ k = 0
      BY <1>2, <2>2, <3>3
    <3> QED
      BY <3>1, <3>2, <3>3
  <2>4. g = h
    BY <2>3
  <2>5. Applies(g, n, step, base)
    BY <2>4 DEF Applies
  <2> QED
    BY <2>5
<1>3. N \in S
  <2> HIDE DEF S
  <2>1. 0 .. N \subseteq S
    BY <1>1, <1>2, Climbs
  <2> QED
    BY <2>1
<1> QED
  BY <1>3

LEMMA WalkSteps ==
    ASSUME NEW subs, Len(subs) \in Nat, NEW ex, NEW max
    PROVE  /\ WalkAfter(subs, ex, max)[0] = Nothing
           /\ \A k \in 1 .. Len(subs) :
                WalkAfter(subs, ex, max)[k]
                  = OneSubscription(subs[k], ex, max)[WalkAfter(subs, ex, max)[k - 1]]
<1> DEFINE after == WalkAfter(subs, ex, max)
           step == [k \in 1 .. Len(subs) |-> OneSubscription(subs[k], ex, max)]
<1>1. PICK N \in Nat : N = Len(subs)
  OBVIOUS
<1>2. PICK f : Applies(f, N, step, Nothing)
  <2> HIDE DEF step
  <2> QED
    BY WalkExists
<1>3. f = [k \in 0 .. N |-> IF k = 0 THEN Nothing ELSE step[k][f[k - 1]]]
  BY <1>2 DEF Applies
<1>4. \A k \in 0 .. N : k # 0 => step[k] = OneSubscription(subs[k], ex, max)
  BY <1>1
<1>5. f = [k \in 0 .. N |-> IF k = 0 THEN Nothing
                            ELSE OneSubscription(subs[k], ex, max)[f[k - 1]]]
  BY <1>3, <1>4
<1>6. after = [k \in 0 .. N |-> IF k = 0 THEN Nothing
                                ELSE OneSubscription(subs[k], ex, max)[after[k - 1]]]
  BY <1>1, <1>5 DEF WalkAfter, Nothing
<1> HIDE DEF after
<1>7. after[0] = Nothing
  BY <1>6
<1>8. \A k \in 1 .. N : after[k] = OneSubscription(subs[k], ex, max)[after[k - 1]]
  BY <1>6
<1> QED
  BY <1>1, <1>7, <1>8 DEF after

LEMMA SubscriptionFields ==
    ASSUME NEW sub \in View
    PROVE  /\ sub.dir \in Dirs /\ sub.priority \in Seq(Names)
           /\ sub = [dir |-> sub.dir, priority |-> sub.priority]
BY DEF View

\* A subscription adds to the paths, and is not left before it is walked
\* through unless the paths are as many as may be.
LEMMA OneSubscriptionIs ==
    ASSUME IInv, NEW acc \in Progress, NEW sub \in View, NEW ex, NEW max \in Nat,
           NEW p, p = OneSubscription(sub, ex, max)[acc].paths
    PROVE  /\ OneSubscription(sub, ex, max)[acc] \in Progress
           /\ acc.paths # <<>> => p # <<>>
           /\ p = <<>> /\ max # 0 => Wanted(sub.dir, ex) = {}
<1> DEFINE o == OneSubscription(sub, ex, max)[acc]
           v == Priority(acc, sub, ex, max)
           r == Rest(v, sub, ex, max)
<1>1. o = IF Full(acc, max) \/ Rows(sub.dir) = {} THEN acc
          ELSE IF Full(v, max) THEN v ELSE r
  BY DEF OneSubscription
<1>2. /\ sub.dir \in Dirs /\ sub.priority \in Seq(Names)
      /\ sub = [dir |-> sub.dir, priority |-> sub.priority]
  BY SubscriptionFields
<1> HIDE DEF o, v, r
<1>3. ASSUME NEW q \in Progress PROVE q.paths # <<>> <=> Len(q.paths) # 0
  <2>1. q.paths \in Seq(Paths)
    BY DEF Progress
  <2> QED
    BY <2>1
<1>4. ASSUME NEW q \in Progress PROVE Len(q.paths) \in Nat
  <2>1. q.paths \in Seq(Paths)
    BY DEF Progress
  <2> QED
    BY <2>1
<1>5. CASE Full(acc, max)
  <2>1. o = acc /\ Len(acc.paths) >= max
    BY <1>1, <1>5 DEF Full
  <2>2. p = <<>> => max = 0
    BY <1>3, <1>4, <2>1 DEF o
  <2> QED
    BY <2>1, <2>2 DEF o
<1>6. CASE Rows(sub.dir) = {}
  <2>1. o = acc
    BY <1>1, <1>6
  <2>2. Wanted(sub.dir, ex) = {}
    BY <1>6 DEF Wanted
  <2> QED
    BY <2>1, <2>2 DEF o
<1>7. CASE ~Full(acc, max) /\ Rows(sub.dir) # {}
  <2>1. v \in Progress /\ Len(acc.paths) <= Len(v.paths)
    BY <1>2, <1>7, PriorityIs DEF v
  <2>2. acc.paths # <<>> => v.paths # <<>>
    BY <1>3, <1>4, <2>1
  <2>3. CASE Full(v, max)
    <3>1. o = v
      BY <1>1, <1>7, <2>3
    <3>2. v.paths = <<>> => max = 0
      BY <1>3, <1>4, <2>1, <2>3 DEF Full
    <3> QED
      BY <2>1, <2>2, <3>1, <3>2 DEF o
  <2>4. CASE ~Full(v, max)
    <3>1. o = r
      BY <1>1, <1>7, <2>4
    <3>2. PICK W : W = Wanted(sub.dir, ex \cup ToSet(v.paths))
      OBVIOUS
    <3>3. /\ r \in Progress /\ Len(v.paths) <= Len(r.paths)
          /\ Len(r.paths) < max =>
               ToSet(r.paths) = ToSet(v.paths) \cup {<<sub.dir, n>> : n \in W}
      <4>1. Fills(v, sub.dir, ex, max, r)
        BY <1>2, <2>1, <2>4, RestIs DEF r
      <4> QED
        BY <3>2, <4>1 DEF Fills
    <3>4. v.paths # <<>> => r.paths # <<>>
      BY <1>3, <1>4, <2>1, <3>3
    <3>5. ASSUME r.paths = <<>>, max # 0 PROVE Wanted(sub.dir, ex) = {}
      <4>1. Len(r.paths) < max /\ v.paths = <<>>
        BY <1>3, <3>3, <3>4, <3>5
      <4>2. ToSet(r.paths) = {} /\ ToSet(v.paths) = {}
        BY <3>5, <4>1 DEF ToSet
      <4>3. W = Wanted(sub.dir, ex)
        BY <3>2, <4>2
      <4> QED
        BY <3>3, <4>1, <4>2, <4>3
    <3> QED
      BY <2>2, <3>1, <3>3, <3>4, <3>5 DEF o
  <2> QED
    BY <2>3, <2>4
<1> QED
  BY <1>5, <1>6, <1>7

LEMMA WalkTypes ==
    ASSUME IInv, NEW subs \in Seq(View), NEW ex, NEW max \in Nat
    PROVE  /\ Len(subs) \in Nat
           /\ \A k \in 0 .. Len(subs) : WalkAfter(subs, ex, max)[k] \in Progress
<1> DEFINE S == {k \in 0 .. Len(subs) : WalkAfter(subs, ex, max)[k] \in Progress}
<1>1. PICK N \in Nat : N = Len(subs)
  OBVIOUS
<1>2. \A k \in 1 .. N : subs[k] \in View
  BY <1>1
<1>3. /\ WalkAfter(subs, ex, max)[0] = Nothing
      /\ \A k \in 1 .. N : WalkAfter(subs, ex, max)[k]
                             = OneSubscription(subs[k], ex, max)[WalkAfter(subs, ex, max)[k - 1]]
  BY <1>1, WalkSteps
<1>4. Nothing \in Progress
  BY DEF Nothing, Progress
<1>5. 0 \in S
  BY <1>1, <1>3, <1>4
<1>6. ASSUME NEW k \in 0 .. N, k # 0, k - 1 \in S PROVE k \in S
  <2>1. k \in 1 .. N /\ WalkAfter(subs, ex, max)[k - 1] \in Progress
    BY <1>6
  <2>2. WalkAfter(subs, ex, max)[k] \in Progress
    BY <1>2, <1>3, <2>1, OneSubscriptionIs
  <2> QED
    BY <1>1, <1>6, <2>2
<1> HIDE DEF S
<1>7. 0 .. N \subseteq S
  BY <1>5, <1>6, Climbs
<1> QED
  BY <1>1, <1>7 DEF S

\* When nothing is returned, nothing was wanted.
LEMMA NothingWanted ==
    ASSUME IInv, NEW subs \in Seq(View), NEW ex, NEW max \in Nat, max # 0,
           Walk(subs, ex, max).paths = <<>>
    PROVE  \A k \in DOMAIN subs : Wanted(subs[k].dir, ex) = {}
<1> DEFINE after == WalkAfter(subs, ex, max)
<1>1. PICK N \in Nat : N = Len(subs)
  OBVIOUS
<1>2. DOMAIN subs = 1 .. N /\ \A k \in 1 .. N : subs[k] \in View
  BY <1>1
<1>3. \A k \in 1 .. N : after[k] = OneSubscription(subs[k], ex, max)[after[k - 1]]
  BY <1>1, WalkSteps
<1>4. \A k \in 0 .. N : after[k] \in Progress
  BY <1>1, WalkTypes
<1>5. after[N].paths = <<>>
  BY <1>1 DEF Walk
<1> HIDE DEF after
<1>6. ASSUME NEW k \in 1 .. N
      PROVE  /\ after[k - 1].paths # <<>> => after[k].paths # <<>>
             /\ after[k].paths = <<>> => Wanted(subs[k].dir, ex) = {}
  <2>1. k - 1 \in 0 .. N
    OBVIOUS
  <2>2. after[k - 1] \in Progress
    BY <1>4, <2>1
  <2>3. PICK a \in Progress, sub \in View : a = after[k - 1] /\ sub = subs[k]
    BY <1>2, <2>2
  <2>4. /\ a.paths # <<>> => OneSubscription(sub, ex, max)[a].paths # <<>>
        /\ OneSubscription(sub, ex, max)[a].paths = <<>> => Wanted(sub.dir, ex) = {}
    BY OneSubscriptionIs
  <2> QED
    BY <1>3, <2>3, <2>4
<1> DEFINE S == {j \in 0 .. N : after[N - j].paths = <<>>}
<1>7. 0 \in S
  BY <1>5
<1>8. ASSUME NEW j \in 0 .. N, j # 0, j - 1 \in S PROVE j \in S
  <2>1. /\ N - (j - 1) \in 1 .. N /\ (N - (j - 1)) - 1 = N - j
        /\ after[N - (j - 1)].paths = <<>>
    BY <1>8
  <2>2. PICK k \in 1 .. N : k = N - (j - 1)
    BY <2>1
  <2>3. after[k - 1].paths = <<>> /\ k - 1 = N - j
    BY <1>6, <2>1, <2>2
  <2> QED
    BY <1>8, <2>3
<1> HIDE DEF S
<1>9. 0 .. N \subseteq S
  BY <1>7, <1>8, Climbs
<1>10. ASSUME NEW k \in 1 .. N PROVE after[k].paths = <<>>
  <2>1. N - k \in 0 .. N /\ N - (N - k) = k
    OBVIOUS
  <2>2. N - k \in S
    BY <1>9, <2>1
  <2> QED
    BY <2>1, <2>2 DEF S
<1> QED
  BY <1>2, <1>6, <1>10

\* One subscription, whose rows are named once.
LEMMA StatsKept ==
    ASSUME IInv, NEW d \in Dirs, NEW s \in Seq(Names), IsInjective(s),
           NEW ex, NEW max \in Nat, max # 0,
           NEW out, out = Walk(<<[dir |-> d, priority |-> s]>>, ex, max).paths
    PROVE  LET all == {<<d, n>> : n \in Wanted(d, ex)}
               V == ToSet(s) \cap Wanted(d, ex)
           IN  /\ Len(out) <= max /\ IsInjective(out)
               /\ ToSet(out) \subseteq all
               /\ Len(out) < max => ToSet(out) = all
               /\ \A n \in V : <<d, n>> \notin ToSet(out) =>
                    /\ ToSet(out) \subseteq {<<d, k>> : k \in V}
                    /\ EntryAt(<<d, n>>).nlink = Unknown =>
                         \A q \in ToSet(out) : EntryAt(q).nlink = Unknown
<1> DEFINE sub == [dir |-> d, priority |-> s]
           o == OneSubscription(sub, ex, max)[Nothing]
           v == Priority(Nothing, sub, ex, max)
           r == Rest(v, sub, ex, max)
           all == {<<d, n>> : n \in Wanted(d, ex)}
           V == ToSet(s) \cap Wanted(d, ex)
           seen == {<<d, n>> : n \in V}
<1>1. /\ Nothing \in Progress /\ Nothing.paths = <<>> /\ Len(Nothing.paths) = 0
      /\ IsInjective(Nothing.paths) /\ ToSet(Nothing.paths) = {}
  BY DEF Nothing, Progress, IsInjective, ToSet
<1>2. out = o.paths
  <2>1. Len(<<sub>>) = 1 /\ <<sub>>[1] = sub
    OBVIOUS
  <2>2. PICK l : l = <<sub>>
    OBVIOUS
  <2>3. Len(l) = 1 /\ l[1] = sub
    BY <2>1, <2>2
  <2> HIDE DEF sub
  <2>4. WalkAfter(l, ex, max)[1] = o
    <3>1. 1 \in 1 .. Len(l) /\ 1 - 1 = 0
      BY <2>3
    <3> QED
      BY <2>3, <3>1, WalkSteps
  <2> QED
    BY <2>2, <2>3, <2>4 DEF Walk, sub
<1>3. ~Full(Nothing, max)
  BY <1>1 DEF Full
<1>4. o = IF Rows(d) = {} THEN Nothing ELSE IF Full(v, max) THEN v ELSE r
  BY <1>1, <1>3 DEF OneSubscription
<1>5. /\ v \in Progress /\ v.paths \in Seq(Paths) /\ Len(v.paths) <= max
      /\ ToSet(v.paths) \subseteq seen
      /\ Len(v.paths) < max => ToSet(v.paths) = seen
      /\ IsInjective(v.paths)
      /\ \A n \in V : EntryAt(<<d, n>>).nlink = Unknown =>
           \/ <<d, n>> \in ToSet(v.paths)
           \/ \A q \in ToSet(v.paths) : EntryAt(q).nlink = Unknown
  BY <1>1, <1>3, PriorityIs
<1>6. seen \subseteq all
  OBVIOUS
<1> HIDE DEF v, r, o
<1>7. CASE Rows(d) = {}
  <2>1. out = Nothing.paths
    BY <1>2, <1>4, <1>7
  <2>2. Wanted(d, ex) = {}
    BY <1>7 DEF Wanted
  <2> QED
    BY <1>1, <2>1, <2>2
<1>8. CASE Rows(d) # {} /\ Full(v, max)
  <2>1. out = v.paths
    BY <1>2, <1>4, <1>8
  <2>2. ~(Len(out) < max)
    <3>1. Len(v.paths) >= max /\ Len(v.paths) \in Nat
      BY <1>5, <1>8 DEF Full
    <3> QED
      BY <2>1, <3>1
  <2> HIDE DEF all, seen, V
  <2>3. ToSet(out) \subseteq all /\ ToSet(out) \subseteq seen
    BY <1>5, <1>6, <2>1
  <2> QED
    BY <1>5, <2>1, <2>2, <2>3 DEF all, seen, V
<1>9. CASE Rows(d) # {} /\ ~Full(v, max)
  <2>1. out = r.paths
    BY <1>2, <1>4, <1>9
  <2>2. ToSet(v.paths) = seen
    <3>1. Len(v.paths) \in Nat /\ ~(Len(v.paths) >= max)
      BY <1>5, <1>9 DEF Full
    <3> QED
      BY <1>5, <3>1
  <2>3. PICK W : W = Wanted(d, ex \cup ToSet(v.paths))
    OBVIOUS
  <2> DEFINE more == {<<d, n>> : n \in W}
  <2>4. /\ Len(out) <= max
        /\ ToSet(v.paths) \subseteq ToSet(out)
        /\ ToSet(out) \subseteq ToSet(v.paths) \cup more
        /\ Len(out) < max => ToSet(out) = ToSet(v.paths) \cup more
        /\ IsInjective(v.paths) => IsInjective(out)
    <3>1. sub.dir = d
      OBVIOUS
    <3>2. Fills(v, d, ex, max, r)
      <4> HIDE DEF sub
      <4> QED
        BY <1>5, <1>9, <3>1, RestIs DEF r
    <3> QED
      BY <2>1, <2>3, <3>2 DEF Fills
  <2>5. seen \cup more = all
    <3>1. ASSUME NEW n \in Wanted(d, ex), n \notin W PROVE <<d, n>> \in seen
      BY <2>2, <2>3, <3>1 DEF Wanted
    <3>2. W \subseteq Wanted(d, ex)
      BY <2>3 DEF Wanted
    <3> QED
      BY <1>6, <3>1, <3>2
  <2>6. \A n \in V : <<d, n>> \in ToSet(out)
    BY <2>2, <2>4
  <2> HIDE DEF all, seen, V, more
  <2> QED
    BY <1>5, <2>2, <2>4, <2>5, <2>6 DEF all, V
<1> QED
  BY <1>7, <1>8, <1>9

LEMMA PromisesKept == IInv => StatsAsPromised
<1> SUFFICES ASSUME IInv, NEW s \in Subscriptions, NEW ex \in SUBSET Paths,
                    NEW max \in 1 .. MaxName
             PROVE  LET d == s[1].dir
                        out == Walk(s, ex, max).paths
                        wanted == {p \in Paths : /\ p[1] = d /\ p \notin ex
                                                 /\ Cached(p) /\ NeedsStat(EntryAt(p))}
                        visible == {<<d, n>> : n \in ToSet(s[1].priority)}
                    IN  /\ Len(out) <= max /\ IsInjective(out)
                        /\ ToSet(out) \subseteq wanted
                        /\ Len(out) < max => ToSet(out) = wanted
                        /\ \A p \in (visible \cap wanted) \ ToSet(out), q \in ToSet(out) :
                             /\ q \in visible
                             /\ EntryAt(p).nlink = Unknown => EntryAt(q).nlink = Unknown
  BY DEF StatsAsPromised
<1>1. PICK u \in Subscription : /\ s = <<u>>
                                /\ Len(u.priority) < 2 \/ u.priority[1] # u.priority[2]
  BY DEF Subscriptions
<1>2. PICK d \in Dirs, l \in {<<>>} \cup {<<n>> : n \in Names}
                                  \cup {<<n, k>> : n, k \in Names} :
          u = [dir |-> d, priority |-> l]
  BY <1>1 DEF Subscription
<1>3. l \in Seq(Names) /\ IsInjective(l)
  <2>1. CASE l = <<>>
    BY <2>1 DEF IsInjective
  <2>2. ASSUME NEW n \in Names, l = <<n>> PROVE l \in Seq(Names) /\ IsInjective(l)
    BY <2>2 DEF IsInjective
  <2>3. ASSUME NEW n \in Names, NEW k \in Names, l = <<n, k>>
        PROVE  l \in Seq(Names) /\ IsInjective(l)
    <3>1. n # k
      BY <1>1, <1>2, <2>3
    <3> QED
      BY <2>3, <3>1 DEF IsInjective
  <2> QED
    BY <1>2, <2>1, <2>2, <2>3
<1>4. s[1].dir = d /\ s[1].priority = l /\ s = <<[dir |-> d, priority |-> l]>>
  BY <1>1, <1>2
<1>5. PICK out : out = Walk(s, ex, max).paths
  OBVIOUS
<1>6. max \in Nat /\ max # 0
  BY MaxNameAssumption
<1> DEFINE wanted == {p \in Paths : /\ p[1] = d /\ p \notin ex
                                    /\ Cached(p) /\ NeedsStat(EntryAt(p))}
           visible == {<<d, n>> : n \in ToSet(l)}
           all == {<<d, n>> : n \in Wanted(d, ex)}
           V == ToSet(l) \cap Wanted(d, ex)
<1>7. /\ Len(out) <= max /\ IsInjective(out)
      /\ ToSet(out) \subseteq all
      /\ Len(out) < max => ToSet(out) = all
      /\ \A n \in V : <<d, n>> \notin ToSet(out) =>
           /\ ToSet(out) \subseteq {<<d, k>> : k \in V}
           /\ EntryAt(<<d, n>>).nlink = Unknown =>
                \A q \in ToSet(out) : EntryAt(q).nlink = Unknown
  BY <1>3, <1>4, <1>5, <1>6, StatsKept
<1>8. all = wanted
  <2>1. ASSUME NEW n \in Wanted(d, ex) PROVE <<d, n>> \in wanted
    <3>1. n \in Names
      BY WantedRows
    <3> QED
      BY <3>1 DEF Wanted, Paths, Cached
  <2>2. ASSUME NEW p \in wanted PROVE p \in all
    <3>1. PICK n \in Names : p = <<d, n>>
      BY DEF Paths
    <3>2. n \in Wanted(d, ex)
      BY <3>1 DEF Wanted, Cached
    <3> QED
      BY <3>1, <3>2
  <2> QED
    BY <2>1, <2>2
<1>9. ASSUME NEW p \in (visible \cap wanted) \ ToSet(out), NEW q \in ToSet(out)
      PROVE  /\ q \in visible
             /\ EntryAt(p).nlink = Unknown => EntryAt(q).nlink = Unknown
  <2>1. PICK n \in V : p = <<d, n>>
    BY <1>8
  <2>2. <<d, n>> \notin ToSet(out)
    BY <2>1
  <2>3. q \in {<<d, k>> : k \in V}
    BY <1>7, <2>2
  <2> QED
    BY <1>7, <2>1, <2>2, <2>3
<1> HIDE DEF wanted, visible, all
<1>10. /\ Len(out) <= max /\ IsInjective(out)
       /\ ToSet(out) \subseteq wanted
       /\ Len(out) < max => ToSet(out) = wanted
  BY <1>7, <1>8
<1> QED
  BY <1>4, <1>5, <1>9, <1>10 DEF wanted, visible

-----------------------------------------------------------------------------
(* The theorems.                                                           *)

LEMMA IInvStep == IInv /\ [Next]_storeVars => IInv'
<1> SUFFICES ASSUME IInv, [Next]_storeVars PROVE IInv'
  OBVIOUS
<1>1. ASSUME NEW d \in Dirs, MarkLoading(d) PROVE IInv'
  BY <1>1, MarkLoadingStep
<1>2. ASSUME NEW d \in Dirs, ApplyListFailure(d) PROVE IInv'
  BY <1>2, ApplyListFailureStep
<1>3. ASSUME NEW d \in Dirs, NEW L \in Listing, ApplyListing(d, L) PROVE IInv'
  BY <1>3, ApplyListingStep
<1>4. ASSUME NEW p \in Paths, ApplyStatFailure(p) PROVE IInv'
  BY <1>4, ApplyStatFailureStep
<1>5. ASSUME NEW p \in Paths, NEW k \in 0 .. MaxLinks, NEW i \in Inodes \cup {0},
             ApplyStat(p, k, i)
      PROVE  IInv'
  BY <1>5, ApplyStatStep
<1>6. ASSUME NEW p \in Paths, NEW q \in Paths,
             NoteRenamed(p, q) \/ NoteLinked(p, q) \/ NoteUnlinked(p)
      PROVE  IInv'
  BY <1>6, NoteStep
<1>7. CASE MarkAllStale
  BY <1>7, MarkAllStaleStep
<1>8. CASE Clear
  BY <1>8, ClearStep
<1>9. ASSUME NEW subs \in Subscriptions, NEW ex \in SUBSET Paths, NEW max \in 1 .. MaxName,
             NextStats(subs, ex, max)
      PROVE  IInv'
  BY <1>9, NextStatsStep
<1>10. CASE UNCHANGED storeVars
  BY <1>10, CacheQuiet, QuietStep DEF storeVars, Quiet
<1> QED
  BY <1>1, <1>2, <1>3, <1>4, <1>5, <1>6, <1>7, <1>8, <1>9, <1>10 DEF Next

LEMMA IInvHolds == Spec => []IInv
BY InitInv, IInvStep, PTL DEF Spec

\* Whatever calls are made, the records and the index keep their types.
THEOREM TypeCorrect == Spec => []TypeOK
<1>1. IInv => TypeOK
  BY DEF IInv
<1> QED
  BY <1>1, IInvHolds, PTL

\* The index holds exactly the cached files that have an inode number, after
\* any sequence of listings, failures, notes and clears (applyListing updates
\* it row by row, ShareCacheStore.cpp:242-293).
THEOREM IndexAlwaysExact == Spec => []IndexExact
<1>1. IInv => IndexExact
  BY DEF IInv
<1> QED
  BY <1>1, IInvHolds, PTL

\* No row before the cursor of a directory wants a stat, so nextStats may
\* start at the cursor (ShareCacheStore.cpp:472).
THEOREM CursorAlwaysSound == Spec => []CursorSound
<1>1. IInv => CursorSound
  BY DEF IInv
<1> QED
  BY <1>1, IInvHolds, PTL

\* Whatever was called before: nextStats returns at most max paths, each once,
\* all wanted and not excluded; fewer only when there are no more; visible rows
\* before the rest, Unknown counts before stale ones (ShareCacheStore.h,
\* ShareCacheStore.cpp:407-489).
THEOREM StatsAlwaysAsPromised == Spec => []StatsAsPromised
BY PromisesKept, IInvHolds, PTL
=============================================================================
