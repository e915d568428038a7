--------------------------- MODULE CachedShareProofs ---------------------------
(***************************************************************************)
(* Proofs about CachedShare for every share, every set of views and every  *)
(* order of requests, replies, mutations and notes: a Fresh directory is   *)
(* what the share holds, a count served as current is the number of names  *)
(* of the file, but for the inodes whose mutation overlapped a request,    *)
(* and a store that asks for nothing misses nothing.                       *)
(*                                                                         *)
(* The store only ever distrusts what it has (Distrusts), except where a   *)
(* reply lands; a reply that may be older than a mutation is to a          *)
(* directory that is Touched, or about an inode that is exposed.           *)
(***************************************************************************)
EXTENDS CachedShare, ShareCacheStoreProofs, FiniteSetTheorems

Replies == {None, Asked, Error}
ListReplies == Replies \cup [kind : {"listed"}, content : Listing]
StatReplies == Replies \cup [kind : {"stat"}, nlink : 0 .. MaxLinks, inode : Inodes]
Mutations == [kind : {"renamed", "linked", "unlinked"}, path : Paths, other : Paths,
              inode : Inodes \cup {0}]

WorldTypeOK ==
    /\ at \in [Paths -> Inodes \cup {0}]
    /\ listing \in [Dirs -> ListReplies] /\ stats \in [Paths -> StatReplies]
    /\ mutation \in Mutations \cup {None}
    /\ exposed \subseteq Inodes \cup {0} /\ changes \in 0 .. MaxChanges

\* The share is a tree.
Tree ==
    \A p \in Paths : /\ at[p] # 0 => Exists(p[1])
                     /\ IsDir(p) => Named(p) # {}

\* A directory is Loading while its listing is in flight.
Lifecycle == \A d \in Dirs : listing[d] # None <=> cache[d].state = "Loading"

\* The directories a mutation changes, those it marks when it is noted.
Touched ==
    CASE mutation = None -> {}
      [] mutation.kind = "renamed" -> {mutation.path[1], mutation.other[1]}
                                        \cup Under(mutation.path) \cup Under(mutation.other)
      [] mutation.kind = "linked" -> {mutation.path[1], mutation.other[1]}
      [] mutation.kind = "unlinked" -> {mutation.path[1]} \cup Under(mutation.path)

\* What is shown as Fresh, and what will be, is true.
Currently(d) ==
    /\ cache[d].state = "Fresh" => Listed(d) = Content(d)
    /\ listing[d].kind = "listed" /\ ~cache[d].staleOnLand
         => listing[d].content = Content(d)

Current == \A d \in Dirs \ Touched : Currently(d)

\* Only what was on the share is cached.
Genuine(f) == f.inode \in Inodes /\ f.isDir = (f.inode \in DirInodes)

GenuineIn(d) ==
    /\ \A n \in Rows(d) : Genuine(EntryAt(<<d, n>>))
    /\ listing[d].kind = "listed" =>
         \A n \in DOMAIN listing[d].content : Genuine(listing[d].content[n])

AllGenuine == \A d \in Dirs : GenuineIn(d)

\* A mutation that changes a link count unseen by any request.
Alone ==
    mutation.kind \in {"linked", "unlinked"} =>
        /\ mutation.inode \in Inodes \ DirInodes
        /\ mutation.inode \notin exposed =>
             /\ InFlight = {} /\ \A d \in Dirs : listing[d] = None
             /\ Cached(mutation.path)
             /\ EntryAt(mutation.path).inode = mutation.inode

Excused(i) == i \in exposed \/ (mutation.kind \in {"linked", "unlinked"} /\ mutation.inode = i)

Counted ==
    /\ \A p \in Paths : Cached(p) => Excused(EntryAt(p).inode) \/ CountTrue(p)
    /\ \A p \in Paths : stats[p].kind = "stat" =>
         stats[p].inode \in exposed \/ stats[p].nlink = Links(stats[p].inode)

WInv == WorldTypeOK /\ Tree /\ Lifecycle /\ Current /\ AllGenuine /\ Alone /\ Counted

-----------------------------------------------------------------------------
(* What the operations of the store do to a record.                        *)

\* The rows stay and no trust is gained.
Distrusts(r, q) ==
    /\ SameRows(r, q)
    /\ q.state = "Fresh" => r.state = "Fresh"
    /\ q.state = "Loading" <=> r.state = "Loading"
    /\ r.staleOnLand => q.staleOnLand

\* A count stays what it was, or is flagged.
SameCounts(r, q) ==
    \A n \in DOMAIN r.entries : /\ q.entries[n].nlink = r.entries[n].nlink
                                /\ r.entries[n].stale => q.entries[n].stale

LEMMA Records == IInv => /\ cache \in [Dirs -> Record]
                         /\ \A d \in Dirs : /\ cache[d] \in Record
                                            /\ DOMAIN cache[d].entries \in SUBSET Names
                                            /\ cache[d].staleOnLand \in BOOLEAN
<1> SUFFICES ASSUME IInv PROVE /\ cache \in [Dirs -> Record]
                               /\ \A d \in Dirs : /\ cache[d] \in Record
                                                  /\ DOMAIN cache[d].entries \in SUBSET Names
                                                  /\ cache[d].staleOnLand \in BOOLEAN
  OBVIOUS
<1>1. cache \in [Dirs -> Record]
  BY DEF IInv, TypeOK
<1> QED
  BY <1>1, RecordFields

LEMMA DistrustsItself ==
    ASSUME NEW r \in Record
    PROVE  Distrusts(r, r) /\ SameCounts(r, r)
BY DEF Distrusts, SameRows, SameCounts

LEMMA DistrustsOn ==
    ASSUME NEW r, NEW q, NEW s, Distrusts(r, q), Distrusts(q, s)
    PROVE  /\ Distrusts(r, s)
           /\ SameCounts(r, q) /\ SameCounts(q, s) => SameCounts(r, s)
BY DEF Distrusts, SameRows, SameCounts

LEMMA MarkDistrusts ==
    ASSUME NEW c \in [Dirs -> Record], NEW D, NEW d \in Dirs
    PROVE  /\ Distrusts(c[d], Mark(c, D)[d]) /\ SameCounts(c[d], Mark(c, D)[d])
           /\ Mark(c, D)[d].entries = c[d].entries
           /\ d \in D => /\ Mark(c, D)[d].state # "Fresh"
                         /\ Mark(c, D)[d].state = "Loading" => Mark(c, D)[d].staleOnLand
<1>1. c[d] \in Record /\ Mark(c, D)[d].entries = c[d].entries
  BY MarkKeeps
<1>2. \/ Mark(c, D)[d] = c[d] /\ (d \notin D \/ c[d].state = "Missing")
      \/ Mark(c, D)[d] = [c[d] EXCEPT !.staleOnLand = TRUE] /\ c[d].state = "Loading"
      \/ Mark(c, D)[d] = [c[d] EXCEPT !.state = "Stale"] /\ c[d].state # "Loading"
  BY DEF Mark
<1>3. SameRows(c[d], Mark(c, D)[d]) /\ SameCounts(c[d], Mark(c, D)[d])
  BY <1>1 DEF SameRows, SameCounts
<1> QED
  BY <1>1, <1>2, <1>3 DEF Distrusts, Record

LEMMA FlaggedDistrusts ==
    ASSUME NEW r \in Record, NEW S \in SUBSET Names
    PROVE  /\ Distrusts(r, Flagged(r, S)) /\ SameCounts(r, Flagged(r, S))
           /\ \A n \in S \cap DOMAIN r.entries : Flagged(r, S).entries[n].stale
           /\ \A n \in DOMAIN r.entries \ S :
                Flagged(r, S).entries[n].stale = r.entries[n].stale
<1> DEFINE q == Flagged(r, S)
<1>1. SameRows(r, q)
  BY FlaggedKeeps
<1>2. q.state = r.state /\ q.staleOnLand = r.staleOnLand
  BY DEF Flagged, Record
<1>3. /\ r.entries = [n \in DOMAIN r.entries |-> r.entries[n]]
      /\ \A n \in DOMAIN r.entries : r.entries[n] \in Entry
  BY RecordFields
<1>4. q.entries = [n \in DOMAIN r.entries |-> [r.entries[n] EXCEPT !.stale = @ \/ n \in S]]
  BY DEF Flagged, Record
<1>5. ASSUME NEW n \in DOMAIN r.entries
      PROVE  /\ q.entries[n].nlink = r.entries[n].nlink
             /\ q.entries[n].stale = (r.entries[n].stale \/ n \in S)
  BY <1>3, <1>4 DEF Entry
<1> HIDE DEF q
<1>6. SameCounts(r, q) /\ Distrusts(r, q)
  BY <1>1, <1>2, <1>5 DEF SameCounts, Distrusts
<1>7. \A n \in DOMAIN r.entries : r.entries[n].stale \in BOOLEAN
  BY <1>3 DEF Entry
<1>8. \A n \in S \cap DOMAIN r.entries : q.entries[n].stale
  BY <1>5
<1>9. \A n \in DOMAIN r.entries \ S : q.entries[n].stale = r.entries[n].stale
  BY <1>5, <1>7
<1> QED
  BY <1>6, <1>8, <1>9 DEF q

LEMMA StaleCountsDistrusts ==
    ASSUME IInv, NEW i, NEW d \in Dirs
    PROVE  /\ Distrusts(cache[d], StaleCounts(cache, i)[d])
           /\ SameCounts(cache[d], StaleCounts(cache, i)[d])
           /\ \A n \in Rows(d) :
                i # 0 /\ <<i, <<d, n>>>> \in index /\ cache[d].entries[n].nlink # Unknown
                  => StaleCounts(cache, i)[d].entries[n].stale
<1> DEFINE S == {n \in DOMAIN cache[d].entries :
                   /\ i # 0 /\ <<i, <<d, n>>>> \in index
                   /\ cache[d].entries[n].nlink # Unknown}
<1>1. cache[d] \in Record /\ S \in SUBSET Names
  BY Records
<1>2. StaleCounts(cache, i)[d] = Flagged(cache[d], S)
  BY DEF StaleCounts
<1>3. \A n \in Rows(d) : i # 0 /\ <<i, <<d, n>>>> \in index
                           /\ cache[d].entries[n].nlink # Unknown
                         => n \in S \cap DOMAIN cache[d].entries
  BY DEF Rows
<1> HIDE DEF S
<1> QED
  BY <1>1, <1>2, <1>3, FlaggedDistrusts

\* A stat reply: the count of its path, and of another file the flag.
LEMMA WithStatDistrusts ==
    ASSUME IInv, NEW p \in Paths, Cached(p), NEW i,
           NEW nlink \in {Unavailable} \cup 0 .. MaxLinks
    PROVE  /\ \A d \in Dirs : Distrusts(cache[d], WithStat(p, nlink, i)[d])
           /\ \A d \in Dirs : \A n \in Rows(d) : <<d, n>> # p =>
                /\ WithStat(p, nlink, i)[d].entries[n].nlink = cache[d].entries[n].nlink
                /\ cache[d].entries[n].stale => WithStat(p, nlink, i)[d].entries[n].stale
           /\ WithStat(p, nlink, i)[p[1]].entries[p[2]].nlink = nlink
           /\ \/ i = 0 \/ EntryAt(p).inode = 0 \/ EntryAt(p).inode = i
              \/ WithStat(p, nlink, i)[p[1]].entries[p[2]].stale
<1> DEFINE x == p[1]  k == p[2]  r == cache[x]
           e == [r.entries[k] EXCEPT !.nlink = nlink, !.stale = FALSE]
           E == [r.entries EXCEPT ![k] = e]
           q == [r EXCEPT !.entries = E]
           c == [cache EXCEPT ![x] = q]
           g == [c EXCEPT ![x] = Flagged(q, {k})]
<1>1. x \in Dirs /\ k \in Names /\ p = <<x, k>>
  BY DEF Paths
<1>2. cache \in [Dirs -> Record] /\ r \in Record /\ k \in DOMAIN r.entries
  BY <1>1, Records DEF Cached, Rows
<1>3. /\ DOMAIN r.entries \in SUBSET Names /\ r.entries \in [DOMAIN r.entries -> Entry]
      /\ r.entries[k] \in Entry
  BY <1>2, RecordFields
<1>4. /\ e \in Entry /\ e.isDir = r.entries[k].isDir /\ e.inode = r.entries[k].inode
      /\ e.nlink = nlink
  BY <1>3 DEF Entry
<1>5. /\ E \in [DOMAIN r.entries -> Entry] /\ E[k] = e
      /\ \A n \in DOMAIN r.entries \ {k} : E[n] = r.entries[n]
  BY <1>2, <1>3, <1>4
<1>6. E \in Entries
  BY <1>3, <1>5, EntriesAre
<1>7. /\ q \in Record /\ q.entries = E /\ q.state = r.state
      /\ q.staleOnLand = r.staleOnLand /\ q.skipped = r.skipped
  BY <1>2, <1>6 DEF Record
<1>8. c \in [Dirs -> Record] /\ c[x] = q /\ \A d \in Dirs \ {x} : c[d] = cache[d]
  BY <1>1, <1>2, <1>7
<1>9. PICK counted : counted = [cache EXCEPT ![p[1]].entries[p[2]].nlink = nlink,
                                             ![p[1]].entries[p[2]].stale = FALSE]
  OBVIOUS
<1>9a. WithStat(p, nlink, i) =
         IF i # 0 /\ EntryAt(p).inode # 0 /\ EntryAt(p).inode # i
         THEN Mark([counted EXCEPT ![p[1]] = Flagged(@, {p[2]})], {p[1]})
         ELSE counted
  BY <1>9 DEF WithStat
<1>9b. c = counted
  <2>1. q \in Record /\ q.entries = E /\ q.skipped = r.skipped
    BY <1>7
  <2> QED
    BY <1>1, <1>2, <1>3, <1>9, <2>1
<1>10. \/ /\ WithStat(p, nlink, i) = c
          /\ i = 0 \/ EntryAt(p).inode = 0 \/ EntryAt(p).inode = i
       \/ WithStat(p, nlink, i) = Mark(g, {x})
  <2> HIDE DEF c, q
  <2> QED
    BY <1>8, <1>9a, <1>9b
<1>11. Distrusts(r, q) /\ E[k].nlink = nlink
  <2>1. E[k].nlink = nlink
    BY <1>4, <1>5
  <2>2. ASSUME NEW n \in DOMAIN r.entries
        PROVE  E[n].isDir = r.entries[n].isDir /\ E[n].inode = r.entries[n].inode
    BY <1>4, <1>5
  <2>3. DOMAIN E = DOMAIN r.entries
    BY <1>5
  <2> HIDE DEF E, q
  <2>4. SameRows(r, q)
    BY <1>7, <2>2, <2>3 DEF SameRows
  <2> QED
    BY <1>7, <2>1, <2>4 DEF Distrusts
<1>12. /\ Flagged(q, {k}) \in Record /\ Distrusts(q, Flagged(q, {k}))
       /\ SameCounts(q, Flagged(q, {k})) /\ Flagged(q, {k}).entries[k].stale
  <2>1. {k} \in SUBSET Names /\ k \in {k} \cap DOMAIN q.entries
    BY <1>1, <1>2, <1>5, <1>7
  <2> HIDE DEF q
  <2> QED
    BY <1>7, <2>1, FlaggedKeeps, FlaggedDistrusts
<1>13. /\ g \in [Dirs -> Record] /\ g[x] = Flagged(q, {k})
       /\ \A d \in Dirs \ {x} : g[d] = cache[d]
  <2> HIDE DEF c, q
  <2> QED
    BY <1>1, <1>8, <1>12
<1> HIDE DEF x, k, r, e, E, q, c, g
<1>14. \A d \in Dirs : Distrusts(cache[d], c[d]) /\ cache[d] \in Record
  BY <1>2, <1>8, <1>11, DistrustsItself DEF r
<1>15. \A d \in Dirs : \A n \in Rows(d) : <<d, n>> # p => c[d].entries[n] = cache[d].entries[n]
  BY <1>1, <1>5, <1>7, <1>8 DEF Rows, r
<1>16. c[x].entries[k].nlink = nlink
  BY <1>7, <1>8, <1>11
<1>17. CASE WithStat(p, nlink, i) = c /\ (i = 0 \/ EntryAt(p).inode = 0 \/ EntryAt(p).inode = i)
  BY <1>14, <1>15, <1>16, <1>17 DEF x, k
<1>18. CASE WithStat(p, nlink, i) = Mark(g, {x})
  <2>1. \A d \in Dirs : Distrusts(c[d], g[d]) /\ SameCounts(c[d], g[d])
    BY <1>8, <1>12, <1>13, <1>14, DistrustsItself
  <2>2. \A d \in Dirs : /\ Distrusts(g[d], Mark(g, {x})[d])
                        /\ Mark(g, {x})[d].entries = g[d].entries
    BY <1>13, MarkDistrusts
  <2>3. \A d \in Dirs : Distrusts(cache[d], Mark(g, {x})[d])
    <3> SUFFICES ASSUME NEW d \in Dirs PROVE Distrusts(cache[d], Mark(g, {x})[d])
      OBVIOUS
    <3>1. Distrusts(cache[d], c[d]) /\ Distrusts(c[d], g[d]) /\ Distrusts(g[d], Mark(g, {x})[d])
      BY <1>14, <2>1, <2>2
    <3> QED
      BY <3>1 DEF Distrusts, SameRows
  <2>4. \A d \in Dirs : DOMAIN c[d].entries = Rows(d)
    BY <1>14 DEF Distrusts, SameRows, Rows
  <2>5. ASSUME NEW d \in Dirs, NEW n \in Rows(d)
        PROVE  /\ Mark(g, {x})[d].entries[n].nlink = c[d].entries[n].nlink
               /\ c[d].entries[n].stale => Mark(g, {x})[d].entries[n].stale
    BY <2>1, <2>2, <2>4 DEF SameCounts
  <2>6. Mark(g, {x})[x].entries[k].nlink = nlink
    BY <1>1, <1>2, <1>16, <2>5 DEF Rows, r
  <2>7. Mark(g, {x})[x].entries[k].stale
    BY <1>1, <1>12, <1>13, <2>2
  <2>8. \A d \in Dirs : \A n \in Rows(d) : <<d, n>> # p =>
          /\ Mark(g, {x})[d].entries[n].nlink = cache[d].entries[n].nlink
          /\ cache[d].entries[n].stale => Mark(g, {x})[d].entries[n].stale
    BY <1>15, <2>5
  <2> QED
    BY <1>18, <2>3, <2>6, <2>7, <2>8 DEF x, k
<1> QED
  BY <1>10, <1>17, <1>18

LEMMA MarkAllStaleDistrusts ==
    ASSUME IInv, MarkAllStale, NEW d \in Dirs
    PROVE  Distrusts(cache[d], cache'[d]) /\ SameCounts(cache[d], cache'[d])
<1> DEFINE M == Mark(cache, Dirs)
           flag(x, n) == cache[x].entries[n].stale \/
                           (/\ ~cache[x].entries[n].isDir
                            /\ cache[x].entries[n].nlink # Unknown)
           F(x) == [n \in DOMAIN M[x].entries |-> [M[x].entries[n] EXCEPT !.stale = flag(x, n)]]
           q(x) == [M[x] EXCEPT !.skipped = {}, !.entries = F(x)]
<1>1. cache \in [Dirs -> Record]
  BY Records
<1>1a. M \in [Dirs -> Record] /\ \A x \in Dirs : M[x].entries = cache[x].entries
  BY <1>1, MarkKeeps
<1>2. cache'[d] = q(d)
  BY Zenon DEF MarkAllStale
<1>3. M[d] \in Record /\ Distrusts(cache[d], M[d]) /\ M[d].entries = cache[d].entries
  BY <1>1, MarkKeeps, MarkDistrusts
<1> HIDE DEF M
<1>4. PICK r \in Record, m \in Record : r = cache[d] /\ m = M[d]
  BY <1>1, <1>3
<1>5. PICK E : E = F(d)
  OBVIOUS
<1>5a. cache'[d] = [m EXCEPT !.skipped = {}, !.entries = E]
  BY <1>2, <1>4, <1>5
<1>6. /\ cache'[d].entries = E /\ cache'[d].state = m.state
      /\ cache'[d].staleOnLand = m.staleOnLand
  BY <1>4, <1>5a DEF Record
<1>7. \A n \in DOMAIN r.entries : r.entries[n] \in Entry
  BY <1>4, RecordFields
<1>8. ASSUME NEW n \in DOMAIN r.entries
      PROVE  /\ E[n].isDir = r.entries[n].isDir /\ E[n].inode = r.entries[n].inode
             /\ E[n].nlink = r.entries[n].nlink
             /\ r.entries[n].stale => E[n].stale
  <2>1. E[n] = [r.entries[n] EXCEPT !.stale = flag(d, n)]
    BY <1>3, <1>4, <1>5
  <2>2. r.entries[n].stale => flag(d, n)
    BY <1>4
  <2> HIDE DEF flag
  <2> QED
    BY <1>7, <2>1, <2>2 DEF Entry
<1>9. DOMAIN E = DOMAIN r.entries
  BY <1>3, <1>4, <1>5
<1>10. SameRows(r, cache'[d]) /\ SameCounts(r, cache'[d])
  BY <1>6, <1>8, <1>9 DEF SameRows, SameCounts
<1> QED
  BY <1>3, <1>4, <1>6, <1>10 DEF Distrusts

LEMMA NextStatsDistrusts ==
    ASSUME IInv, NEW subs, NEW ex, NEW max, NextStats(subs, ex, max), NEW d \in Dirs
    PROVE  Distrusts(cache[d], cache'[d]) /\ SameCounts(cache[d], cache'[d])
<1>1. PICK r \in Record : r = cache[d]
  BY Records
<1>2. cache'[d] = r \/ cache'[d] = [r EXCEPT !.skipped = Passed(d)]
  BY <1>1 DEF NextStats
<1>3. /\ cache'[d].entries = r.entries /\ cache'[d].state = r.state
      /\ cache'[d].staleOnLand = r.staleOnLand
  BY <1>2 DEF Record
<1> QED
  BY <1>1, <1>3 DEF Distrusts, SameRows, SameCounts

-----------------------------------------------------------------------------
(* Replies, contents and counts.                                           *)

LEMMA ListKinds ==
    ASSUME NEW x \in ListReplies
    PROVE  /\ x.kind \in {"none", "asked", "error", "listed"}
           /\ x.kind = "none" => x = None
           /\ x.kind = "listed" => x.content \in Listing
           /\ None.kind # "listed" /\ Asked.kind # "listed" /\ Error.kind # "listed"
           /\ None # Asked /\ None # Error
           /\ x.kind # "none" => x # None
BY DEF ListReplies, Replies, None, Asked, Error

LEMMA StatKinds ==
    ASSUME NEW x \in StatReplies
    PROVE  /\ x.kind = "stat" => /\ x.nlink \in 0 .. MaxLinks /\ x.inode \in Inodes
                                 /\ x # None
           /\ None.kind # "stat" /\ Asked.kind # "stat" /\ Error.kind # "stat"
           /\ None # Asked /\ None # Error
BY DEF StatReplies, Replies, None, Asked, Error

LEMMA PathParts ==
    ASSUME NEW p \in Paths
    PROVE  p[1] \in Dirs /\ p[2] \in Names /\ p = <<p[1], p[2]>>
BY DEF Paths

LEMMA ZeroIsNone == 0 \notin Inodes /\ 0 \notin DirInodes /\ DirInodes \subseteq Inodes
BY InodesAssumption, StartAssumption

\* A listing is one, and tells files from directories rightly.
LEMMA ContentListing ==
    ASSUME at \in [Paths -> Inodes \cup {0}], NEW d \in Dirs
    PROVE  /\ Content(d) \in Listing
           /\ \A n \in DOMAIN Content(d) : Genuine(Content(d)[n])
<1> DEFINE N == {k \in Names : at[<<d, k>>] # 0}
<1>1. \A n \in Names : <<d, n>> \in Paths
  BY DEF Paths
<1>2. Content(d) = [n \in N |-> [isDir |-> IsDir(<<d, n>>), inode |-> at[<<d, n>>]]]
  BY DEF Content
<1>3. \A n \in N : at[<<d, n>>] \in Inodes
  BY <1>1
<1>4. \A n \in N : /\ [isDir |-> IsDir(<<d, n>>), inode |-> at[<<d, n>>]] \in File
                   /\ Genuine([isDir |-> IsDir(<<d, n>>), inode |-> at[<<d, n>>]])
  BY <1>3 DEF File, IsDir, Genuine
<1>5. Content(d) \in [N -> File] /\ N \in SUBSET Names
  BY <1>2, <1>4
<1>6. [N -> File] \in {[M -> File] : M \in SUBSET Names}
  OBVIOUS
<1>7. Content(d) \in Listing
  BY <1>5, <1>6 DEF Listing
<1> HIDE DEF N
<1> QED
  BY <1>2, <1>4, <1>7

LEMMA PathsFinite == IsFiniteSet(Paths)
<1>1. IsFiniteSet(Names)
  BY FS_Interval, MaxNameAssumption DEF Names
<1> QED
  BY <1>1, FS_Product, BoundsAssumption DEF Paths

LEMMA LinksBounded ==
    ASSUME NEW i
    PROVE  Links(i) \in 0 .. MaxLinks
<1>1. {p \in Paths : at[p] = i} \subseteq Paths
  OBVIOUS
<1>2. PICK a, b : /\ a = Cardinality({p \in Paths : at[p] = i}) /\ b = Cardinality(Paths)
  OBVIOUS
<1>3. IsFiniteSet({p \in Paths : at[p] = i})
  BY <1>1, PathsFinite, FS_Subset
<1>4. a \in Nat /\ b \in Nat
  BY <1>2, <1>3, PathsFinite, FS_CardinalityType
<1>5. a <= b
  BY <1>1, <1>2, PathsFinite, FS_Subset
<1>6. b <= MaxLinks
  BY <1>2, BoundsAssumption
<1>7. a \in 0 .. MaxLinks
  BY <1>4, <1>5, <1>6, MaxLinksAssumption
<1> QED
  BY <1>2, <1>7 DEF Links

-----------------------------------------------------------------------------
(* What a step leaves alone stays true.                                    *)

LEMMA ListedStays ==
    ASSUME NEW d, SameRows(cache[d], cache'[d])
    PROVE  /\ Listed(d)' = Listed(d) /\ Rows(d)' = Rows(d)
           /\ \A n \in Rows(d) : /\ EntryAt(<<d, n>>)'.inode = EntryAt(<<d, n>>).inode
                                 /\ EntryAt(<<d, n>>)'.isDir = EntryAt(<<d, n>>).isDir
<1>1. Rows(d)' = Rows(d)
  BY DEF SameRows, Rows
<1>2. \A n \in Rows(d) : /\ EntryAt(<<d, n>>)'.inode = EntryAt(<<d, n>>).inode
                         /\ EntryAt(<<d, n>>)'.isDir = EntryAt(<<d, n>>).isDir
  BY DEF SameRows, Rows, EntryAt
<1> QED
  BY <1>1, <1>2 DEF Listed

LEMMA RowKept ==
    ASSUME NEW p, SameRows(cache[p[1]], cache'[p[1]])
    PROVE  /\ Cached(p)' <=> Cached(p)
           /\ Cached(p) => /\ EntryAt(p)'.inode = EntryAt(p).inode
                          /\ EntryAt(p)'.isDir = EntryAt(p).isDir
BY DEF Cached, EntryAt, Rows, SameRows

LEMMA CurrentlyStays ==
    ASSUME NEW d, Currently(d), Distrusts(cache[d], cache'[d]), Content(d)' = Content(d),
           \/ listing'[d] = listing[d] \/ listing'[d].kind # "listed"
           \/ listing'[d].content = Content(d)
    PROVE  Currently(d)'
<1>1. Listed(d)' = Listed(d)
  BY ListedStays DEF Distrusts
<1> QED
  BY <1>1 DEF Currently, Distrusts

LEMMA GenuineStays ==
    ASSUME NEW d, GenuineIn(d), SameRows(cache[d], cache'[d]),
           \/ listing'[d] = listing[d] \/ listing'[d].kind # "listed"
           \/ \A n \in DOMAIN listing'[d].content : Genuine(listing'[d].content[n])
    PROVE  GenuineIn(d)'
<1>1. \A n \in Rows(d)' : Genuine(EntryAt(<<d, n>>))'
  BY ListedStays DEF GenuineIn, Genuine
<1>2. listing'[d].kind = "listed" =>
        \A n \in DOMAIN listing'[d].content : Genuine(listing'[d].content[n])
  BY DEF GenuineIn
<1> QED
  BY <1>1, <1>2 DEF GenuineIn, Genuine

LEMMA ShareStays ==
    ASSUME UNCHANGED at
    PROVE  /\ \A d : Content(d)' = Content(d)
           /\ \A i : Links(i)' = Links(i)
           /\ Tree => Tree'
BY DEF Content, Links, Tree, Exists, IsDir, Named

\* A row that is kept keeps a true count.
LEMMA CountStays ==
    ASSUME NEW p, Cached(p), SameRows(cache[p[1]], cache'[p[1]]),
           EntryAt(p)'.nlink = EntryAt(p).nlink, EntryAt(p).stale => EntryAt(p)'.stale,
           NEW i, i = EntryAt(p).inode, Links(i)' = Links(i), CountTrue(p)
    PROVE  CountTrue(p)'
<1>1. EntryAt(p)'.inode = i
  BY DEF EntryAt, SameRows, Cached, Rows
<1>2. PICK j : j = EntryAt(p)'.inode
  OBVIOUS
<1>3. Links(j)' = Links(i)
  BY <1>1, <1>2
<1>4. CountTrue(p)' = (EntryAt(p)'.nlink >= 0 /\ ~EntryAt(p)'.stale => EntryAt(p)'.nlink = Links(j)')
  BY <1>2 DEF CountTrue
<1> QED
  BY <1>3, <1>4 DEF CountTrue

\* A step that keeps the rows of every directory and trusts no more of them.
LEMMA SteadyStep ==
    ASSUME WInv, WorldTypeOK', Lifecycle',
           UNCHANGED <<at, mutation>>, exposed \subseteq exposed',
           \A d \in Dirs : SameRows(cache[d], cache'[d]),
           \A d \in Dirs : \/ Distrusts(cache[d], cache'[d])
                           \/ cache'[d].state # "Fresh" /\ listing'[d].kind # "listed",
           \A d \in Dirs : \/ listing'[d] = listing[d] \/ listing'[d].kind # "listed"
                           \/ listing'[d].content = Content(d),
           \A p \in Paths : Cached(p) =>
                \/ EntryAt(p).inode \in exposed' \/ CountTrue(p)'
                \/ /\ EntryAt(p)'.nlink = EntryAt(p).nlink
                   /\ EntryAt(p).stale => EntryAt(p)'.stale,
           \A p \in Paths : \/ stats'[p] = stats[p] \/ stats'[p].kind # "stat"
                            \/ stats'[p].nlink = Links(stats'[p].inode),
           mutation.kind \in {"linked", "unlinked"} /\ mutation.inode \notin exposed'
             => UNCHANGED <<listing, stats>>
    PROVE  WInv'
<1>1. /\ \A d : Content(d)' = Content(d)
      /\ \A i : Links(i)' = Links(i)
      /\ Tree'
  BY ShareStays DEF WInv
<1>2. Touched' = Touched
  BY DEF Touched
<1>3. Current'
  <2>1. ASSUME NEW d \in Dirs \ Touched' PROVE Currently(d)'
    <3>1. Currently(d) /\ Content(d)' = Content(d)
      BY <1>1, <1>2, <2>1 DEF WInv, Current
    <3>2. CASE Distrusts(cache[d], cache'[d])
      BY <3>1, <3>2, CurrentlyStays
    <3>3. CASE cache'[d].state # "Fresh" /\ listing'[d].kind # "listed"
      BY <3>3 DEF Currently
    <3> QED
      BY <3>2, <3>3
  <2> QED
    BY <2>1 DEF Current
<1>4. AllGenuine'
  <2>1. ASSUME NEW d \in Dirs PROVE GenuineIn(d)'
    <3>1. GenuineIn(d) /\ \A n \in DOMAIN Content(d) : Genuine(Content(d)[n])
      BY ContentListing DEF WInv, AllGenuine, WorldTypeOK
    <3>2. \/ listing'[d] = listing[d] \/ listing'[d].kind # "listed"
          \/ \A n \in DOMAIN listing'[d].content : Genuine(listing'[d].content[n])
      BY <3>1
    <3> QED
      BY <3>1, <3>2, GenuineStays
  <2> QED
    BY <2>1 DEF AllGenuine
<1>5. Alone'
  <2> SUFFICES ASSUME mutation.kind \in {"linked", "unlinked"}
               PROVE  /\ mutation.inode \in Inodes \ DirInodes
                      /\ mutation.inode \notin exposed' =>
                           /\ InFlight' = {} /\ \A d \in Dirs : listing'[d] = None
                           /\ Cached(mutation.path)'
                           /\ EntryAt(mutation.path)'.inode = mutation.inode
    BY DEF Alone
  <2>1. mutation.inode \in Inodes \ DirInodes
    BY DEF WInv, Alone
  <2>2. ASSUME mutation.inode \notin exposed'
        PROVE  /\ InFlight' = {} /\ \A d \in Dirs : listing'[d] = None
               /\ Cached(mutation.path)'
               /\ EntryAt(mutation.path)'.inode = mutation.inode
    <3>1. /\ InFlight = {} /\ \A d \in Dirs : listing[d] = None
          /\ Cached(mutation.path)
          /\ EntryAt(mutation.path).inode = mutation.inode
      BY <2>2 DEF WInv, Alone
    <3>2. InFlight' = InFlight /\ listing' = listing
      BY <2>2 DEF InFlight
    <3>3. mutation \in Mutations /\ None.kind = "none"
      BY DEF WInv, WorldTypeOK, None
    <3>4. PICK p \in Paths : p = mutation.path
      BY <3>3 DEF Mutations
    <3>5. SameRows(cache[p[1]], cache'[p[1]])
      BY PathParts
    <3>6. Cached(p)' /\ EntryAt(p)'.inode = EntryAt(p).inode
      BY <3>1, <3>4, <3>5, RowKept
    <3>7. Cached(mutation.path)' = Cached(p)' /\ EntryAt(mutation.path)' = EntryAt(p)'
      BY <3>4 DEF Cached, EntryAt, Rows
    <3> QED
      BY <3>1, <3>2, <3>4, <3>6, <3>7
  <2> QED
    BY <2>1, <2>2
<1>6. Counted'
  <2>1. ASSUME NEW p \in Paths, Cached(p)' PROVE Excused(EntryAt(p).inode)' \/ CountTrue(p)'
    <3>1. SameRows(cache[p[1]], cache'[p[1]])
      BY PathParts
    <3>2. Cached(p) /\ EntryAt(p)'.inode = EntryAt(p).inode
      BY <2>1, <3>1, RowKept
    <3>3. PICK i : i = EntryAt(p).inode
      OBVIOUS
    <3>4. Excused(EntryAt(p).inode)' = Excused(i)'
      BY <3>2, <3>3 DEF Excused
    <3>5. Excused(i) \/ CountTrue(p)
      BY <3>2, <3>3 DEF WInv, Counted
    <3>6. CASE Excused(i)
      BY <3>4, <3>6 DEF Excused
    <3>7. CASE EntryAt(p).inode \in exposed'
      BY <3>3, <3>4, <3>7 DEF Excused
    <3>8. CASE /\ EntryAt(p)'.nlink = EntryAt(p).nlink
               /\ EntryAt(p).stale => EntryAt(p)'.stale
               /\ CountTrue(p)
      BY <1>1, <3>1, <3>2, <3>3, <3>8, CountStays
    <3> QED
      BY <3>2, <3>5, <3>6, <3>7, <3>8
  <2>2. ASSUME NEW p \in Paths, stats'[p].kind = "stat"
        PROVE  stats'[p].inode \in exposed' \/ stats'[p].nlink = Links(stats[p].inode)'
    <3>1. PICK i : i = stats'[p].inode
      OBVIOUS
    <3>2. stats'[p].nlink = Links(i) \/ stats'[p].inode \in exposed
      BY <2>2, <3>1 DEF WInv, Counted
    <3>3. Links(i)' = Links(i) /\ Links(stats[p].inode)' = Links(i)'
      BY <1>1, <3>1 DEF Links
    <3> QED
      BY <3>2, <3>3
  <2> QED
    BY <2>1, <2>2 DEF Counted
<1> QED
  BY <1>1, <1>3, <1>4, <1>5, <1>6 DEF WInv

-----------------------------------------------------------------------------
(* Requests, answers of the server, and failures.                          *)

LEMMA RowCounts ==
    ASSUME NEW p, Cached(p), SameCounts(cache[p[1]], cache'[p[1]])
    PROVE  /\ EntryAt(p)'.nlink = EntryAt(p).nlink
           /\ EntryAt(p).stale => EntryAt(p)'.stale
BY DEF Cached, EntryAt, Rows, SameCounts

LEMMA Asking ==
    ASSUME WorldTypeOK, Ask
    PROVE  /\ exposed \subseteq exposed' /\ exposed' \subseteq Inodes \cup {0}
           /\ mutation.kind \in {"linked", "unlinked"} => mutation.inode \in exposed'
<1>1. None.kind = "none" /\ (mutation # None => mutation.inode \in Inodes \cup {0})
  BY DEF WorldTypeOK, Mutations, None
<1> QED
  BY <1>1 DEF Ask, WorldTypeOK

LEMMA Changing == WorldTypeOK /\ Change => changes' \in 0 .. MaxChanges
BY BoundsAssumption DEF WorldTypeOK, Change

\* One directory comes into another state, with its rows.
LEMMA StateChanges ==
    ASSUME IInv, NEW d \in Dirs, NEW r \in Record, cache' = [cache EXCEPT ![d] = r],
           r.entries = cache[d].entries
    PROVE  /\ cache'[d] = r /\ \A x \in Dirs \ {d} : cache'[x] = cache[x]
           /\ \A x \in Dirs : SameRows(cache[x], cache'[x]) /\ SameCounts(cache[x], cache'[x])
           /\ \A x \in Dirs \ {d} : Distrusts(cache[x], cache'[x])
<1>1. cache \in [Dirs -> Record]
  BY Records
<1>2. cache'[d] = r /\ \A x \in Dirs \ {d} : cache'[x] = cache[x]
  BY <1>1
<1>3. SameRows(cache[d], r) /\ SameCounts(cache[d], r)
  BY <1>1, RecordFields DEF SameRows, SameCounts
<1>4. \A x \in Dirs \ {d} : /\ Distrusts(cache[x], cache'[x])
                            /\ SameCounts(cache[x], cache'[x])
  BY <1>1, <1>2, DistrustsItself
<1> QED
  BY <1>2, <1>3, <1>4 DEF Distrusts

LEMMA FetchStep ==
    ASSUME IInv, WInv, NEW d \in Dirs, Fetch(d) \/ Refresh(d)
    PROVE  IInv' /\ WInv'
<1> DEFINE r == [cache[d] EXCEPT !.state = "Loading"]
<1>1. /\ MarkLoading(d) /\ Ask /\ listing' = [listing EXCEPT ![d] = Asked]
      /\ UNCHANGED <<at, stats, mutation>> /\ (Change \/ UNCHANGED changes)
  BY DEF Fetch, Refresh
<1>2. WorldTypeOK /\ cache \in [Dirs -> Record] /\ listing \in [Dirs -> ListReplies]
  BY Records DEF WInv, WorldTypeOK
<1>3. /\ r \in Record /\ r.entries = cache[d].entries /\ r.state = "Loading"
      /\ cache' = [cache EXCEPT ![d] = r]
  BY <1>1, <1>2 DEF Record, MarkLoading
<1> HIDE DEF r
<1>4. /\ cache'[d] = r /\ \A x \in Dirs \ {d} : cache'[x] = cache[x]
      /\ \A x \in Dirs : SameRows(cache[x], cache'[x]) /\ SameCounts(cache[x], cache'[x])
      /\ \A x \in Dirs \ {d} : Distrusts(cache[x], cache'[x])
  BY <1>3, StateChanges
<1>5. /\ listing'[d] = Asked /\ \A x \in Dirs \ {d} : listing'[x] = listing[x]
      /\ listing' \in [Dirs -> ListReplies]
  BY <1>1, <1>2 DEF ListReplies, Replies
<1>6. Asked.kind # "listed" /\ Asked # None
  BY DEF Asked, None
<1>7. WorldTypeOK'
  BY <1>1, <1>2, <1>5, Asking, Changing DEF WorldTypeOK
<1>8. Lifecycle'
  BY <1>3, <1>4, <1>5, <1>6 DEF WInv, Lifecycle
<1>9. \A p \in Paths : Cached(p) => /\ EntryAt(p)'.nlink = EntryAt(p).nlink
                                    /\ EntryAt(p).stale => EntryAt(p)'.stale
  BY <1>4, PathParts, RowCounts
<1>10. /\ exposed \subseteq exposed'
       /\ mutation.kind \in {"linked", "unlinked"} => mutation.inode \in exposed'
  BY <1>1, <1>2, Asking
<1>11. \A x \in Dirs : \/ Distrusts(cache[x], cache'[x])
                       \/ cache'[x].state # "Fresh" /\ listing'[x].kind # "listed"
  BY <1>3, <1>4, <1>5, <1>6
<1>12. \A x \in Dirs : listing'[x] = listing[x] \/ listing'[x].kind # "listed"
  BY <1>5, <1>6
<1>13. WInv'
  BY <1>1, <1>4, <1>7, <1>8, <1>9, <1>10, <1>11, <1>12, SteadyStep
<1> QED
  BY <1>1, <1>13, MarkLoadingStep

LEMMA ListFailureLandsStep ==
    ASSUME IInv, WInv, NEW d \in Dirs, ListFailureLands(d)
    PROVE  IInv' /\ WInv'
<1> DEFINE r == [cache[d] EXCEPT !.state = "Failed", !.staleOnLand = FALSE]
<1>1. /\ ApplyListFailure(d) /\ listing' = [listing EXCEPT ![d] = None] /\ listing[d] = Error
      /\ UNCHANGED <<at, stats, mutation, exposed, changes>>
  BY DEF ListFailureLands
<1>2. WorldTypeOK /\ cache \in [Dirs -> Record] /\ listing \in [Dirs -> ListReplies]
  BY Records DEF WInv, WorldTypeOK
<1>3. /\ r \in Record /\ r.entries = cache[d].entries /\ r.state = "Failed"
      /\ cache' = [cache EXCEPT ![d] = r]
  BY <1>1, <1>2 DEF Record, ApplyListFailure
<1> HIDE DEF r
<1>4. /\ cache'[d] = r /\ \A x \in Dirs \ {d} : cache'[x] = cache[x]
      /\ \A x \in Dirs : SameRows(cache[x], cache'[x]) /\ SameCounts(cache[x], cache'[x])
      /\ \A x \in Dirs \ {d} : Distrusts(cache[x], cache'[x])
  BY <1>3, StateChanges
<1>5. /\ listing'[d] = None /\ \A x \in Dirs \ {d} : listing'[x] = listing[x]
      /\ listing' \in [Dirs -> ListReplies]
  BY <1>1, <1>2 DEF ListReplies, Replies
<1>6. None.kind # "listed" /\ Error # None
  BY DEF Error, None
<1>7. WorldTypeOK'
  BY <1>1, <1>2, <1>5 DEF WorldTypeOK
<1>8. Lifecycle'
  BY <1>3, <1>4, <1>5, <1>6 DEF WInv, Lifecycle
<1>9. \A p \in Paths : Cached(p) => /\ EntryAt(p)'.nlink = EntryAt(p).nlink
                                    /\ EntryAt(p).stale => EntryAt(p)'.stale
  BY <1>4, PathParts, RowCounts
<1>10. \A x \in Dirs : \/ Distrusts(cache[x], cache'[x])
                       \/ cache'[x].state # "Fresh" /\ listing'[x].kind # "listed"
  BY <1>3, <1>4, <1>5, <1>6
<1>11. \A x \in Dirs : listing'[x] = listing[x] \/ listing'[x].kind # "listed"
  BY <1>5, <1>6
<1>12. mutation.kind \in {"linked", "unlinked"} => mutation.inode \in exposed
  BY <1>1, <1>6 DEF WInv, Alone
<1>13. WInv'
  BY <1>1, <1>4, <1>7, <1>8, <1>9, <1>10, <1>11, <1>12, SteadyStep
<1> QED
  BY <1>1, <1>13, ApplyListFailureStep

\* The server answers: the store is as it was.
LEMMA AnswerStep ==
    ASSUME IInv, WInv, WorldTypeOK', UNCHANGED <<storeVars, at, mutation, exposed>>,
           \A d \in Dirs : \/ listing'[d] = listing[d]
                           \/ /\ listing[d] = Asked /\ listing'[d] # None
                              /\ \/ listing'[d].kind # "listed"
                                 \/ listing'[d].content = Content(d),
           \A p \in Paths : \/ stats'[p] = stats[p]
                            \/ /\ stats[p] = Asked
                               /\ \/ stats'[p].kind # "stat"
                                  \/ stats'[p].nlink = Links(stats'[p].inode)
    PROVE  IInv' /\ WInv'
<1>1. /\ cache' = cache /\ \A d \in Dirs : Distrusts(cache[d], cache[d]) /\ SameCounts(cache[d], cache[d])
  BY Records, DistrustsItself DEF storeVars
<1>2. IInv'
  BY CacheQuiet, QuietStep DEF storeVars, Quiet
<1>3. Asked # None
  BY DEF Asked, None
<1>4. Lifecycle'
  BY <1>1, <1>3 DEF WInv, Lifecycle
<1>5. \A p \in Paths : Cached(p) => /\ EntryAt(p)'.nlink = EntryAt(p).nlink
                                    /\ EntryAt(p).stale => EntryAt(p)'.stale
  BY <1>1 DEF EntryAt
<1>6. ASSUME mutation.kind \in {"linked", "unlinked"}, mutation.inode \notin exposed'
      PROVE  UNCHANGED <<listing, stats>>
  <2>1. InFlight = {} /\ \A d \in Dirs : listing[d] = None
    BY <1>6 DEF WInv, Alone
  <2>2. \A d \in Dirs : listing'[d] = listing[d]
    BY <1>3, <2>1
  <2>3. \A p \in Paths : stats'[p] = stats[p]
    BY <1>3, <2>1 DEF InFlight
  <2>4. /\ listing \in [Dirs -> ListReplies] /\ listing' \in [Dirs -> ListReplies]
        /\ stats \in [Paths -> StatReplies] /\ stats' \in [Paths -> StatReplies]
    BY DEF WInv, WorldTypeOK
  <2> QED
    BY <2>2, <2>3, <2>4
<1>7. \A d \in Dirs : SameRows(cache[d], cache'[d]) /\ Distrusts(cache[d], cache'[d])
  BY <1>1 DEF Distrusts
<1>8. WInv'
  BY <1>4, <1>5, <1>6, <1>7, SteadyStep
<1> QED
  BY <1>2, <1>8

LEMMA ServerAnswersStep ==
    ASSUME IInv, WInv,
           \/ \E d \in Dirs : ServerLists(d) \/ ServerRefusesList(d) \/ ServerFindsNone(d)
           \/ \E p \in Paths : ServerStats(p)
    PROVE  IInv' /\ WInv'
<1>1. /\ WorldTypeOK /\ listing \in [Dirs -> ListReplies] /\ stats \in [Paths -> StatReplies]
      /\ at \in [Paths -> Inodes \cup {0}]
  BY DEF WInv, WorldTypeOK
<1>2. ASSUME NEW d \in Dirs, ServerLists(d) PROVE IInv' /\ WInv'
  <2> DEFINE answer == [kind |-> "listed", content |-> Content(d)]
  <2>1. answer \in ListReplies /\ answer.content = Content(d) /\ answer # None
    BY <1>1, ContentListing DEF ListReplies, None
  <2>2. /\ listing[d] = Asked /\ listing' = [listing EXCEPT ![d] = answer]
        /\ UNCHANGED <<storeVars, at, stats, mutation, exposed, changes>>
    BY <1>2 DEF ServerLists
  <2> HIDE DEF answer
  <2>3. WorldTypeOK'
    BY <1>1, <2>1, <2>2 DEF WorldTypeOK
  <2>4. \A x \in Dirs : \/ listing'[x] = listing[x]
                        \/ /\ listing[x] = Asked /\ listing'[x] # None
                           /\ listing'[x].content = Content(x)
    BY <1>1, <2>1, <2>2
  <2> QED
    BY <2>2, <2>3, <2>4, AnswerStep
<1>3. ASSUME NEW d \in Dirs, ServerRefusesList(d) \/ ServerFindsNone(d) PROVE IInv' /\ WInv'
  <2>1. /\ listing[d] = Asked /\ listing' = [listing EXCEPT ![d] = Error]
        /\ UNCHANGED <<storeVars, at, stats, mutation, exposed>>
        /\ Change \/ UNCHANGED changes
    BY <1>3 DEF ServerRefusesList, ServerFindsNone, Refused
  <2>2. Error \in ListReplies /\ Error.kind # "listed" /\ Error # None
    BY DEF ListReplies, Replies, Error, None
  <2>3. WorldTypeOK'
    BY <1>1, <2>1, <2>2, Changing DEF WorldTypeOK
  <2>4. \A x \in Dirs : \/ listing'[x] = listing[x]
                        \/ /\ listing[x] = Asked /\ listing'[x] # None
                           /\ listing'[x].kind # "listed"
    BY <1>1, <2>1, <2>2
  <2> QED
    BY <2>1, <2>3, <2>4, AnswerStep
<1>4. ASSUME NEW p \in Paths, ServerStats(p) PROVE IInv' /\ WInv'
  <2>1. PICK answer : answer = IF at[p] = 0 THEN Error
                               ELSE [kind |-> "stat", nlink |-> Links(at[p]), inode |-> at[p]]
    OBVIOUS
  <2>2. /\ stats[p] = Asked /\ stats' = [stats EXCEPT ![p] = answer]
        /\ UNCHANGED <<storeVars, at, listing, mutation, exposed, changes>>
    BY <1>4, <2>1 DEF ServerStats
  <2>3. PICK k \in 0 .. MaxLinks : k = Links(at[p])
    BY LinksBounded
  <2>4. \/ answer = Error
        \/ answer = [kind |-> "stat", nlink |-> k, inode |-> at[p]] /\ at[p] # 0
    BY <2>1, <2>3
  <2>5. /\ answer \in StatReplies
        /\ answer.kind = "stat" => answer.nlink = k /\ answer.inode = at[p]
    BY <1>1, <2>4 DEF StatReplies, Replies, Error
  <2>6. answer.kind = "stat" => answer.nlink = Links(answer.inode)
    BY <2>3, <2>5
  <2>7. WorldTypeOK'
    BY <1>1, <2>2, <2>5 DEF WorldTypeOK
  <2>8. \A q \in Paths : \/ stats'[q] = stats[q]
                         \/ /\ stats[q] = Asked
                            /\ \/ stats'[q].kind # "stat"
                               \/ stats'[q].nlink = Links(stats'[q].inode)
    BY <1>1, <2>2, <2>6
  <2> QED
    BY <2>2, <2>7, <2>8, AnswerStep
<1> QED
  BY <1>2, <1>3, <1>4

LEMMA IdleStep == IInv /\ WInv /\ UNCHANGED vars => IInv' /\ WInv'
BY AnswerStep DEF vars, worldVars, storeVars, WInv, WorldTypeOK

\* A change of the store in which every directory distrusts.
LEMMA DistrustStep ==
    ASSUME IInv, WInv, WorldTypeOK', UNCHANGED <<at, listing, mutation>>,
           exposed \subseteq exposed',
           \A d \in Dirs : Distrusts(cache[d], cache'[d]),
           \A p \in Paths : Cached(p) =>
                \/ EntryAt(p).inode \in exposed' \/ CountTrue(p)'
                \/ /\ EntryAt(p)'.nlink = EntryAt(p).nlink
                   /\ EntryAt(p).stale => EntryAt(p)'.stale,
           \A p \in Paths : stats'[p] = stats[p] \/ stats'[p].kind # "stat",
           mutation.kind \in {"linked", "unlinked"} /\ mutation.inode \notin exposed'
             => UNCHANGED stats
    PROVE  WInv'
<1>1. Lifecycle'
  BY DEF WInv, Lifecycle, Distrusts
<1>2. \A d \in Dirs : SameRows(cache[d], cache'[d])
  BY DEF Distrusts
<1> QED
  BY <1>1, <1>2, SteadyStep

LEMMA PumpStep == IInv /\ WInv /\ Pump => IInv' /\ WInv'
<1> SUFFICES ASSUME IInv, WInv, Pump PROVE IInv' /\ WInv'
  OBVIOUS
<1>1. /\ NextStats(Subs, InFlight, Room) /\ Ask /\ UNCHANGED <<at, listing, mutation, changes>>
  BY DEF Pump
<1>2. PICK out : stats' = [p \in Paths |-> IF p \in out THEN Asked ELSE stats[p]]
  BY DEF Pump
<1>3. WorldTypeOK /\ stats \in [Paths -> StatReplies] /\ Asked \in StatReplies
  BY DEF WInv, WorldTypeOK, StatReplies, Replies
<1>4. WorldTypeOK'
  BY <1>1, <1>2, <1>3, Asking DEF WorldTypeOK
<1>5. \A d \in Dirs : Distrusts(cache[d], cache'[d]) /\ SameCounts(cache[d], cache'[d])
  BY <1>1, NextStatsDistrusts
<1>6. \A p \in Paths : Cached(p) => /\ EntryAt(p)'.nlink = EntryAt(p).nlink
                                    /\ EntryAt(p).stale => EntryAt(p)'.stale
  BY <1>5, PathParts, RowCounts
<1>7. \A p \in Paths : stats'[p] = stats[p] \/ stats'[p].kind # "stat"
  BY <1>2 DEF Asked
<1>8. /\ exposed \subseteq exposed'
      /\ mutation.kind \in {"linked", "unlinked"} => mutation.inode \in exposed'
  BY <1>1, <1>3, Asking
<1>9. WInv'
  BY <1>1, <1>4, <1>5, <1>6, <1>7, <1>8, DistrustStep
<1> QED
  BY <1>1, <1>9, NextStatsStep

LEMMA RefreshAllStep == IInv /\ WInv /\ RefreshAll => IInv' /\ WInv'
<1> SUFFICES ASSUME IInv, WInv, RefreshAll PROVE IInv' /\ WInv'
  OBVIOUS
<1>1. /\ MarkAllStale /\ Change /\ UNCHANGED <<at, listing, stats, mutation, exposed>>
  BY DEF RefreshAll
<1>2. WorldTypeOK'
  BY <1>1, Changing DEF WInv, WorldTypeOK
<1>3. \A d \in Dirs : Distrusts(cache[d], cache'[d]) /\ SameCounts(cache[d], cache'[d])
  BY <1>1, MarkAllStaleDistrusts
<1>4. \A p \in Paths : Cached(p) => /\ EntryAt(p)'.nlink = EntryAt(p).nlink
                                    /\ EntryAt(p).stale => EntryAt(p)'.stale
  BY <1>3, PathParts, RowCounts
<1>5. WInv'
  BY <1>1, <1>2, <1>3, <1>4, DistrustStep
<1> QED
  BY <1>1, <1>5, MarkAllStaleStep

-----------------------------------------------------------------------------
(* A stat lands.                                                           *)

LEMMA StatLandsStep ==
    ASSUME IInv, WInv, NEW p \in Paths, StatLands(p) \/ StatFailureLands(p)
    PROVE  IInv' /\ WInv'
<1>1. /\ stats' = [stats EXCEPT ![p] = None]
      /\ UNCHANGED <<at, listing, mutation, exposed, changes>>
      /\ \/ stats[p].kind = "stat" /\ ApplyStat(p, stats[p].nlink, stats[p].inode)
         \/ stats[p] = Error /\ ApplyStatFailure(p)
  BY DEF StatLands, StatFailureLands
<1>2. WorldTypeOK /\ stats \in [Paths -> StatReplies] /\ None \in StatReplies
  BY DEF WInv, WorldTypeOK, StatReplies, Replies
<1>3. stats[p].kind = "stat" => /\ stats[p].nlink \in 0 .. MaxLinks /\ stats[p].inode \in Inodes
                                /\ stats[p] # None
  BY <1>2, StatKinds
<1>4. None.kind # "stat" /\ Error # None
  BY DEF None, Error
<1>5. WorldTypeOK'
  BY <1>1, <1>2 DEF WorldTypeOK
<1>6. \A q \in Paths : stats'[q] = stats[q] \/ stats'[q].kind # "stat"
  BY <1>1, <1>2, <1>4
<1>7. mutation.kind \in {"linked", "unlinked"} => mutation.inode \in exposed
  BY <1>1, <1>3, <1>4 DEF WInv, Alone, InFlight
<1>8. IInv'
  BY <1>1, <1>3, ApplyStatStep, ApplyStatFailureStep
<1>9. CASE ~Cached(p)
  <2>1. cache' = cache
    BY <1>1, <1>9 DEF ApplyStat, ApplyStatFailure
  <2>2. \A d \in Dirs : Distrusts(cache[d], cache'[d])
    BY <2>1, Records, DistrustsItself
  <2>3. \A q \in Paths : Cached(q) => /\ EntryAt(q)'.nlink = EntryAt(q).nlink
                                      /\ EntryAt(q).stale => EntryAt(q)'.stale
    BY <2>1 DEF EntryAt
  <2>4. WInv'
    BY <1>1, <1>5, <1>6, <1>7, <2>2, <2>3, DistrustStep
  <2> QED
    BY <1>8, <2>4
<1>10. CASE Cached(p)
  <2>1. PICK nlink \in {Unavailable} \cup 0 .. MaxLinks, i \in Inodes \cup {0} :
          /\ cache' = WithStat(p, nlink, i)
          /\ \/ stats[p].kind = "stat" /\ nlink = stats[p].nlink /\ i = stats[p].inode
             \/ nlink = Unavailable
    BY <1>1, <1>3, <1>10 DEF ApplyStat, ApplyStatFailure
  <2>2. /\ \A d \in Dirs : Distrusts(cache[d], cache'[d])
        /\ \A d \in Dirs : \A n \in Rows(d) : <<d, n>> # p =>
             /\ cache'[d].entries[n].nlink = cache[d].entries[n].nlink
             /\ cache[d].entries[n].stale => cache'[d].entries[n].stale
        /\ EntryAt(p)'.nlink = nlink
        /\ i = 0 \/ EntryAt(p).inode = 0 \/ EntryAt(p).inode = i \/ EntryAt(p)'.stale
    BY <1>10, <2>1, WithStatDistrusts DEF EntryAt
  <2>3. \A q \in Paths \ {p} : Cached(q) => /\ EntryAt(q)'.nlink = EntryAt(q).nlink
                                            /\ EntryAt(q).stale => EntryAt(q)'.stale
    <3> SUFFICES ASSUME NEW q \in Paths \ {p}, Cached(q)
                 PROVE  /\ EntryAt(q)'.nlink = EntryAt(q).nlink
                        /\ EntryAt(q).stale => EntryAt(q)'.stale
      OBVIOUS
    <3>1. q[1] \in Dirs /\ q[2] \in Rows(q[1]) /\ <<q[1], q[2]>> # p
      BY PathParts DEF Cached
    <3> QED
      BY <2>2, <3>1 DEF EntryAt
  <2>4. EntryAt(p).inode \in exposed \/ CountTrue(p)'
    <3>1. CASE nlink = Unavailable
      BY <2>2, <3>1 DEF CountTrue, Unavailable
    <3>2. CASE stats[p].kind = "stat" /\ nlink = stats[p].nlink /\ i = stats[p].inode
      <4>1. EntryAt(p).inode \in Inodes
        <5>1. GenuineIn(p[1]) /\ p[2] \in Rows(p[1]) /\ <<p[1], p[2]>> = p
          BY <1>10, PathParts DEF WInv, AllGenuine, Cached
        <5> QED
          BY <5>1 DEF GenuineIn, Genuine
      <4>2. i \in Inodes /\ i # 0 /\ EntryAt(p).inode # 0
        BY <1>3, <3>2, <4>1, ZeroIsNone
      <4>3. CASE EntryAt(p)'.stale
        BY <4>3 DEF CountTrue
      <4>4. CASE EntryAt(p).inode = i
        <5>1. i \in exposed \/ nlink = Links(i)
          BY <3>2 DEF WInv, Counted
        <5>2. EntryAt(p)'.inode = i
          BY <1>10, <2>2, <4>4, PathParts, RowKept DEF Distrusts
        <5>3. Links(i)' = Links(i)
          BY <1>1, ShareStays
        <5>4. PICK j : j = EntryAt(p)'.inode
          OBVIOUS
        <5>5. CountTrue(p)' = (EntryAt(p)'.nlink >= 0 /\ ~EntryAt(p)'.stale
                                 => EntryAt(p)'.nlink = Links(j)')
          BY <5>4 DEF CountTrue
        <5> QED
          BY <2>2, <4>4, <5>1, <5>2, <5>3, <5>4, <5>5
      <4> QED
        BY <2>2, <4>2, <4>3, <4>4
    <3> QED
      BY <2>1, <3>1, <3>2
  <2>5. WInv'
    BY <1>1, <1>5, <1>6, <1>7, <2>2, <2>3, <2>4, DistrustStep
  <2> QED
    BY <1>8, <2>5
<1> QED
  BY <1>9, <1>10

-----------------------------------------------------------------------------
(* A listing lands.                                                        *)

\* A directory takes the rows of the reply, none with a count that is served.
LEMMA ApplyListingRows ==
    ASSUME IInv, NEW d \in Dirs, NEW L \in Listing, ApplyListing(d, L)
    PROVE  /\ \A x \in Dirs \ {d} : cache'[x] = cache[x]
           /\ Rows(d)' = DOMAIN L /\ Listed(d)' = L
           /\ \A n \in DOMAIN L :
                /\ EntryAt(<<d, n>>)'.isDir = L[n].isDir
                /\ EntryAt(<<d, n>>)'.inode = L[n].inode
                /\ EntryAt(<<d, n>>)'.nlink = Unknown \/ EntryAt(<<d, n>>)'.stale
           /\ ~cache'[d].staleOnLand
           /\ \/ cache'[d].state = "Stale"
              \/ cache'[d].state = "Fresh" /\ ~cache[d].staleOnLand
<1> DEFINE old == cache[d].entries
           new == [n \in DOMAIN L |->
                     IF n \in DOMAIN old THEN Carried(old[n], L[n]) ELSE New(L[n])]
           q == [state |-> IF cache[d].staleOnLand THEN "Stale" ELSE "Fresh",
                 entries |-> new, staleOnLand |-> FALSE, skipped |-> {}]
<1>1. cache \in [Dirs -> Record] /\ cache[d] \in Record
  BY Records
<1>2. \A n \in DOMAIN L : L[n] \in File
  BY DEF Listing
<1>3. L = [n \in DOMAIN L |-> L[n]]
  BY DEF Listing
<1>4. ASSUME NEW n \in DOMAIN L
      PROVE  /\ new[n].isDir = L[n].isDir /\ new[n].inode = L[n].inode
             /\ new[n].nlink = Unknown \/ new[n].stale
  <2>1. /\ New(L[n]) \in Entry /\ New(L[n]).isDir = L[n].isDir /\ New(L[n]).inode = L[n].inode
        /\ New(L[n]).nlink = Unknown
    BY <1>2 DEF New, Entry, File
  <2>2. ASSUME n \in DOMAIN old
        PROVE  /\ Carried(old[n], L[n]).isDir = L[n].isDir
               /\ Carried(old[n], L[n]).inode = L[n].inode
               /\ Carried(old[n], L[n]).nlink = Unknown \/ Carried(old[n], L[n]).stale
    <3>1. old[n] \in Entry
      BY <1>1, <2>2, RecordFields
    <3> QED
      BY <2>1, <3>1 DEF Carried, Entry
  <2> QED
    BY <2>1, <2>2
<1>5. DOMAIN new = DOMAIN L
  OBVIOUS
<1>6. cache' = [cache EXCEPT ![d] = q]
  BY DEF ApplyListing
<1> HIDE DEF new
<1>7. /\ q.entries = new /\ ~q.staleOnLand
      /\ q.state = "Stale" \/ (q.state = "Fresh" /\ ~cache[d].staleOnLand)
  OBVIOUS
<1> HIDE DEF q
<1>8. cache'[d] = q /\ \A x \in Dirs \ {d} : cache'[x] = cache[x]
  BY <1>1, <1>6
<1>9. Rows(d)' = DOMAIN L
  BY <1>5, <1>7, <1>8 DEF Rows
<1>10. \A n \in DOMAIN L : EntryAt(<<d, n>>)' = new[n]
  BY <1>7, <1>8 DEF EntryAt
<1>11. \A n \in DOMAIN L : L[n] = [isDir |-> L[n].isDir, inode |-> L[n].inode]
  BY <1>2 DEF File
<1>12. Listed(d)' = [n \in DOMAIN L |-> [isDir |-> new[n].isDir, inode |-> new[n].inode]]
  BY <1>9, <1>10 DEF Listed
<1>13. Listed(d)' = L
  BY <1>3, <1>4, <1>11, <1>12
<1> QED
  BY <1>4, <1>7, <1>8, <1>9, <1>10, <1>13

LEMMA ListingLandsStep ==
    ASSUME IInv, WInv, NEW d \in Dirs, ListingLands(d)
    PROVE  IInv' /\ WInv'
<1>1. /\ listing[d].kind = "listed" /\ listing' = [listing EXCEPT ![d] = None]
      /\ ApplyListing(d, listing[d].content)
      /\ UNCHANGED <<at, stats, mutation, exposed, changes>>
  BY DEF ListingLands
<1>2. WorldTypeOK /\ listing \in [Dirs -> ListReplies] /\ None \in ListReplies
  BY DEF WInv, WorldTypeOK, ListReplies, Replies
<1>3. PICK L \in Listing : L = listing[d].content
  BY <1>1, <1>2, ListKinds
<1>4. listing[d] # None /\ None.kind # "listed"
  BY <1>1 DEF None
<1>5. /\ \A x \in Dirs \ {d} : cache'[x] = cache[x]
      /\ Rows(d)' = DOMAIN L /\ Listed(d)' = L
      /\ \A n \in DOMAIN L :
           /\ EntryAt(<<d, n>>)'.isDir = L[n].isDir
           /\ EntryAt(<<d, n>>)'.inode = L[n].inode
           /\ EntryAt(<<d, n>>)'.nlink = Unknown \/ EntryAt(<<d, n>>)'.stale
      /\ ~cache'[d].staleOnLand
      /\ \/ cache'[d].state = "Stale"
         \/ cache'[d].state = "Fresh" /\ ~cache[d].staleOnLand
  BY <1>1, <1>3, ApplyListingRows
<1>6. listing'[d] = None /\ \A x \in Dirs \ {d} : listing'[x] = listing[x]
  BY <1>1, <1>2
<1>7. WorldTypeOK'
  BY <1>1, <1>2 DEF WorldTypeOK
<1>8. /\ \A x : Content(x)' = Content(x)
      /\ \A i : Links(i)' = Links(i)
      /\ Tree'
  BY <1>1, ShareStays DEF WInv
<1>9. Lifecycle'
  BY <1>5, <1>6 DEF WInv, Lifecycle
<1>10. \A x \in Dirs \ {d} : Distrusts(cache[x], cache'[x])
  BY <1>5, Records, DistrustsItself
<1>11. Current'
  <2>1. Touched' = Touched
    BY <1>1 DEF Touched
  <2>2. ASSUME NEW x \in Dirs \ Touched' PROVE Currently(x)'
    <3>1. Currently(x) /\ Content(x)' = Content(x)
      BY <1>8, <2>1, <2>2 DEF WInv, Current
    <3>2. CASE x # d
      BY <1>6, <1>10, <3>1, <3>2, CurrentlyStays
    <3>3. CASE x = d
      BY <1>1, <1>3, <1>4, <1>5, <1>6, <3>1, <3>3 DEF Currently
    <3> QED
      BY <3>2, <3>3
  <2> QED
    BY <2>2 DEF Current
<1>12. AllGenuine'
  <2>1. ASSUME NEW x \in Dirs PROVE GenuineIn(x)'
    <3>1. GenuineIn(x)
      BY DEF WInv, AllGenuine
    <3>2. CASE x # d
      BY <1>6, <1>10, <3>1, <3>2, GenuineStays DEF Distrusts
    <3>3. CASE x = d
      <4>1. \A n \in DOMAIN L : Genuine(L[n])
        BY <1>1, <1>3, <3>1, <3>3 DEF GenuineIn
      <4>2. \A n \in Rows(d)' : Genuine(EntryAt(<<d, n>>))'
        BY <1>5, <4>1 DEF Genuine
      <4> QED
        BY <1>4, <1>6, <3>3, <4>2 DEF GenuineIn
    <3> QED
      BY <3>2, <3>3
  <2> QED
    BY <2>1 DEF AllGenuine
<1>13. Alone'
  <2>1. mutation.kind \in {"linked", "unlinked"} =>
          mutation.inode \in exposed /\ mutation.inode \in Inodes \ DirInodes
    BY <1>4 DEF WInv, Alone
  <2> QED
    BY <1>1, <2>1 DEF Alone
<1>14. Counted'
  <2>1. ASSUME NEW p \in Paths, Cached(p)' PROVE Excused(EntryAt(p).inode)' \/ CountTrue(p)'
    <3>1. p[1] \in Dirs /\ p = <<p[1], p[2]>> /\ p[2] \in Rows(p[1])'
      BY <2>1, PathParts DEF Cached
    <3>2. CASE p[1] = d
      <4>1. EntryAt(p)'.nlink = Unknown \/ EntryAt(p)'.stale
        BY <1>5, <3>1, <3>2
      <4> QED
        BY <4>1 DEF CountTrue, Unknown
    <3>3. CASE p[1] # d
      <4>1. cache'[p[1]] = cache[p[1]]
        BY <1>5, <3>1, <3>3
      <4>2. Cached(p) /\ EntryAt(p)' = EntryAt(p)
        BY <2>1, <4>1 DEF Cached, Rows, EntryAt
      <4>3. PICK i : i = EntryAt(p).inode
        OBVIOUS
      <4>4. Excused(EntryAt(p).inode)' = Excused(i)
        BY <1>1, <4>2, <4>3 DEF Excused
      <4>5. Excused(i) \/ CountTrue(p)
        BY <4>2, <4>3 DEF WInv, Counted
      <4>6. CASE CountTrue(p)
        <5>1. SameRows(cache[p[1]], cache'[p[1]])
          BY <1>10, <3>1, <3>3 DEF Distrusts
        <5> QED
          BY <1>8, <4>2, <4>3, <4>6, <5>1, CountStays
      <4> QED
        BY <4>4, <4>5, <4>6
    <3> QED
      BY <3>2, <3>3
  <2>2. ASSUME NEW p \in Paths, stats'[p].kind = "stat"
        PROVE  stats'[p].inode \in exposed' \/ stats'[p].nlink = Links(stats[p].inode)'
    <3>1. PICK i : i = stats[p].inode
      OBVIOUS
    <3>2. stats[p].nlink = Links(i) \/ i \in exposed
      BY <1>1, <2>2, <3>1 DEF WInv, Counted
    <3>3. Links(stats[p].inode)' = Links(i)
      BY <1>1, <3>1 DEF Links
    <3> QED
      BY <1>1, <3>1, <3>2, <3>3
  <2> QED
    BY <2>1, <2>2 DEF Counted
<1>15. WInv'
  BY <1>7, <1>8, <1>9, <1>11, <1>12, <1>13, <1>14 DEF WInv
<1>16. IInv'
  BY <1>1, <1>3, ApplyListingStep
<1> QED
  BY <1>15, <1>16

-----------------------------------------------------------------------------
(* Mutations on the server.                                                *)

\* A share whose paths are swapped has as many names of each inode.
LEMMA SwapKeepsLinks ==
    ASSUME NEW f \in [Paths -> Paths], \A r \in Paths : f[f[r]] = r /\ at'[r] = at[f[r]],
           NEW i
    PROVE  Links(i)' = Links(i)
<1> DEFINE S == {r \in Paths : at[r] = i}
           T == {r \in Paths : at'[r] = i}
           g == [r \in S |-> f[r]]
<1>1. g \in [S -> T]
  <2>1. \A r \in S : f[r] \in Paths /\ at'[f[r]] = at[r]
    OBVIOUS
  <2> QED
    BY <2>1
<1>2. \A r \in S, s \in S : g[r] = g[s] => r = s
  OBVIOUS
<1>3. \A t \in T : f[t] \in S /\ g[f[t]] = t
  OBVIOUS
<1>4. g \in Bijection(S, T)
  <2> HIDE DEF S, T, g
  <2> QED
    BY <1>1, <1>2, <1>3 DEF Bijection, Injection, Surjection, IsInjective
<1>5. IsFiniteSet(S)
  BY PathsFinite, FS_Subset
<1>6. Cardinality(T) = Cardinality(S)
  <2> HIDE DEF S, T, g
  <2> QED
    BY <1>4, <1>5, FS_Bijection DEF ExistsBijection
<1> QED
  BY <1>6 DEF Links

LEMMA NothingTouched == mutation = None => Touched = {}
<1> SUFFICES ASSUME mutation = None PROVE Touched = {}
  OBVIOUS
<1>1. mutation.kind = "none"
  BY DEF None
<1> QED
  BY <1>1 DEF Touched

\* A mutation: the store and the requests are as they were.
LEMMA MutationStep ==
    ASSUME IInv, WInv, mutation = None, UNCHANGED <<storeVars, listing, stats>>,
           WorldTypeOK', Tree', Alone', exposed \subseteq exposed',
           \A d \in Dirs \ Touched' : Content(d)' = Content(d),
           \A i \in Inodes :
             \/ Links(i)' = Links(i)
             \/ /\ mutation'.kind \in {"linked", "unlinked"} /\ mutation'.inode = i
                /\ i \in exposed' \/ InFlight = {}
    PROVE  IInv' /\ WInv'
<1>1. cache' = cache /\ listing' = listing /\ stats' = stats
  BY DEF storeVars
<1>2. IInv'
  BY CacheQuiet, QuietStep DEF storeVars, Quiet
<1>3. Lifecycle'
  BY <1>1 DEF WInv, Lifecycle
<1>4. \A d \in Dirs : Distrusts(cache[d], cache'[d]) /\ SameRows(cache[d], cache'[d])
  BY <1>1, Records, DistrustsItself DEF Distrusts
<1>5. Current'
  <2>1. Touched = {}
    BY NothingTouched
  <2>2. ASSUME NEW d \in Dirs \ Touched' PROVE Currently(d)'
    <3>1. Currently(d) /\ Content(d)' = Content(d)
      BY <2>1, <2>2 DEF WInv, Current
    <3> QED
      BY <1>1, <1>4, <3>1, CurrentlyStays
  <2> QED
    BY <2>2 DEF Current
<1>6. AllGenuine'
  BY <1>1, <1>4, GenuineStays DEF WInv, AllGenuine
<1>7. Counted'
  <2>1. None.kind = "none"
    BY DEF None
  <2>2. ASSUME NEW p \in Paths, Cached(p)' PROVE Excused(EntryAt(p).inode)' \/ CountTrue(p)'
    <3>1. Cached(p) /\ EntryAt(p)' = EntryAt(p)
      BY <1>1, <2>2 DEF Cached, Rows, EntryAt
    <3>2. PICK i : i = EntryAt(p).inode
      OBVIOUS
    <3>3. i \in Inodes
      <4>1. p[1] \in Dirs /\ p = <<p[1], p[2]>> /\ p[2] \in Rows(p[1])
        BY <3>1, PathParts DEF Cached
      <4> QED
        BY <3>2, <4>1 DEF WInv, AllGenuine, GenuineIn, Genuine
    <3>4. Excused(EntryAt(p).inode)' = (i \in exposed' \/ (mutation'.kind \in {"linked", "unlinked"} /\ mutation'.inode = i))
      BY <3>1, <3>2 DEF Excused
    <3>5. i \in exposed \/ CountTrue(p)
      BY <2>1, <3>1, <3>2 DEF WInv, Counted, Excused
    <3>6. CASE Links(i)' = Links(i) /\ CountTrue(p)
      BY <1>4, <3>1, <3>2, <3>6, PathParts, CountStays
    <3> QED
      BY <3>3, <3>4, <3>5, <3>6
  <2>3. ASSUME NEW p \in Paths, stats'[p].kind = "stat"
        PROVE  stats'[p].inode \in exposed' \/ stats'[p].nlink = Links(stats[p].inode)'
    <3>1. stats[p] \in StatReplies /\ stats[p].kind = "stat"
      BY <1>1, <2>3 DEF WInv, WorldTypeOK
    <3>2. PICK i \in Inodes : i = stats[p].inode
      BY <3>1, StatKinds
    <3>3. stats[p].nlink = Links(i) \/ i \in exposed
      BY <3>1, <3>2 DEF WInv, Counted
    <3>4. InFlight # {}
      BY <3>1, StatKinds DEF InFlight
    <3>5. Links(stats[p].inode)' = Links(i)'
      BY <1>1, <3>2 DEF Links
    <3> QED
      BY <1>1, <3>2, <3>3, <3>4, <3>5
  <2> QED
    BY <2>2, <2>3 DEF Counted
<1>8. WInv'
  BY <1>3, <1>5, <1>6, <1>7 DEF WInv
<1> QED
  BY <1>2, <1>8

LEMMA PathMade ==
    ASSUME NEW d \in Dirs, NEW n \in Names
    PROVE  \E s \in Paths : s = <<d, n>> /\ s[1] = d /\ s[2] = n
<1>1. <<d, n>> \in Paths /\ <<d, n>>[1] = d /\ <<d, n>>[2] = n
  BY DEF Paths
<1> QED
  BY <1>1

\* The line above a directory: what is above one of its paths is on it too.
LEMMA LineAbove ==
    ASSUME NEW d \in Dirs, NEW r \in Above[d]
    PROVE  r \in Paths /\ r[1] \in Dirs /\ Above[r[1]] \subseteq Above[d] /\ r \notin Above[r[1]]
<1>1. r \in Paths
  BY AboveAssumption
<1> QED
  BY <1>1, PathParts, TreeAssumption

\* The two places of a rename lie beside each other.
LEMMA RenameApart ==
    ASSUME WInv, NEW p \in Paths, NEW q \in Paths, Rename(p, q)
    PROVE  /\ at[q] = 0 /\ at[p] # 0 /\ p # q /\ Exists(p[1]) /\ Exists(q[1])
           /\ p[1] \in Dirs /\ q[1] \in Dirs
           /\ {p[1], q[1]} \cap (Named(p) \cup Named(q)) = {}
<1>1. at[q] = 0 /\ at[p] # 0 /\ p # q /\ Exists(q[1]) /\ (IsDir(p) => p \notin Above[q[1]])
  BY DEF Rename, Free, Mutable
<1>2. p[1] \in Dirs /\ q[1] \in Dirs /\ Exists(p[1])
  BY <1>1, PathParts DEF WInv, Tree
<1>3. p \notin Above[p[1]] /\ q \notin Above[q[1]]
  BY <1>2, LineAbove
<1>4. ~IsDir(q)
  BY <1>1, ZeroIsNone DEF IsDir
<1>5. q \notin Above[p[1]] /\ p \notin Above[q[1]]
  BY <1>1, <1>2, <1>4 DEF Exists
<1> QED
  BY <1>1, <1>2, <1>3, <1>5 DEF Named

\* What a rename does to the directories: m is the exchange.
Moves(m, p, q) ==
    /\ m \in [Dirs -> Dirs]
    /\ \A d \in Dirs : m[m[d]] = d /\ (d \notin Named(p) \cup Named(q) => m[d] = d)
    /\ at'[p] = 0 /\ at'[q] = at[p]
    /\ \A r \in Paths : r \notin {p, q} => at'[r] = at[<<m[r[1]], r[2]>>]

LEMMA RenameMoves ==
    ASSUME WInv, NEW p \in Paths, NEW q \in Paths, Rename(p, q)
    PROVE  /\ IsDir(p) => \E m \in Exchanges(p, q) : Moves(m, p, q)
           /\ ~IsDir(p) => \E m \in {[d \in Dirs |-> d]} : Moves(m, p, q)
<1>1. PICK m \in IF IsDir(p) THEN Exchanges(p, q) ELSE {[d \in Dirs |-> d]} :
        at' = [r \in Paths |-> CASE r = p -> 0
                                 [] r = q -> at[p]
                                 [] OTHER -> at[<<m[r[1]], r[2]>>]]
  BY DEF Rename
<1>2. at'[p] = 0 /\ at'[q] = at[p] /\ \A r \in Paths : r \notin {p, q} => at'[r] = at[<<m[r[1]], r[2]>>]
  BY <1>1, RenameApart
<1>3. /\ m \in [Dirs -> Dirs]
      /\ \A d \in Dirs : m[m[d]] = d /\ (d \notin Named(p) \cup Named(q) => m[d] = d)
  BY <1>1 DEF Exchanges
<1> QED
  BY <1>1, <1>2, <1>3 DEF Moves

\* A rename swaps paths, the two and those below them.
LEMMA RenameSwaps ==
    ASSUME WInv, NEW p \in Paths, NEW q \in Paths, Rename(p, q)
    PROVE  /\ \E f \in [Paths -> Paths] : \A r \in Paths : f[f[r]] = r /\ at'[r] = at[f[r]]
           /\ \A r \in Paths : r \notin {p, q} /\ r[1] \notin Named(p) \cup Named(q)
                                 => at'[r] = at[r]
<1>1. PICK m : Moves(m, p, q)
  BY RenameMoves
<1>2. /\ at[q] = 0 /\ p # q /\ p[1] \in Dirs /\ q[1] \in Dirs
      /\ m[p[1]] = p[1] /\ m[q[1]] = q[1]
  BY <1>1, RenameApart DEF Moves
<1>3. \A r \in Paths : r \notin {p, q} /\ r[1] \notin Named(p) \cup Named(q) => at'[r] = at[r]
  BY <1>1, PathParts DEF Moves
<1> DEFINE f == [r \in Paths |-> IF r = p THEN q ELSE IF r = q THEN p ELSE <<m[r[1]], r[2]>>]
<1>4. f[p] = q /\ f[q] = p /\ \A r \in Paths : r \notin {p, q} => f[r] = <<m[r[1]], r[2]>>
  BY <1>2
<1>5. DOMAIN f = Paths /\ f = [r \in Paths |-> f[r]]
  OBVIOUS
<1> HIDE DEF f
<1>6. ASSUME NEW r \in Paths PROVE f[r] \in Paths /\ f[f[r]] = r /\ at'[r] = at[f[r]]
  <2>1. CASE r \in {p, q}
    BY <1>1, <1>2, <1>4, <2>1 DEF Moves
  <2>2. CASE r \notin {p, q}
    <3>1. r[1] \in Dirs /\ r[2] \in Names /\ r = <<r[1], r[2]>> /\ m[r[1]] \in Dirs /\ m[m[r[1]]] = r[1]
      BY <1>1, PathParts DEF Moves
    <3>2. PICK s \in Paths : s = <<m[r[1]], r[2]>> /\ s[1] = m[r[1]] /\ s[2] = r[2]
      BY <3>1, PathMade
    <3>3. s \notin {p, q}
      <4>1. ASSUME s = p \/ s = q PROVE r = s
        <5>1. m[s[1]] = s[1] /\ s = <<s[1], s[2]>>
          BY <1>2, <4>1, PathParts
        <5> QED
          BY <3>1, <3>2, <5>1
      <4> QED
        BY <2>2, <4>1
    <3>4. f[r] = s /\ f[s] = r
      BY <1>4, <2>2, <3>1, <3>2, <3>3
    <3>5. at'[r] = at[s]
      BY <1>1, <2>2, <3>2 DEF Moves
    <3> QED
      BY <3>4, <3>5
  <2> QED
    BY <2>1, <2>2
<1>7. f \in [Paths -> Paths]
  BY <1>5, <1>6
<1> QED
  BY <1>3, <1>6, <1>7

\* A path above an exchanged directory is above both places or is exchanged.
LEMMA ExchangeAbove ==
    ASSUME NEW p \in Paths, NEW q \in Paths, NEW m \in Exchanges(p, q),
           NEW d \in Named(q), d \notin Named(p), NEW s \in Above[d]
    PROVE  \/ s = q \/ s \in Above[q[1]]
           \/ s[1] \in Named(q) /\ <<m[s[1]], s[2]>> \in Above[m[d]]
<1>1. d \in Dirs /\ q \in Above[d] /\ s \in Paths /\ s[1] \in Dirs
  BY LineAbove DEF Named
<1>2. s = q \/ s \in Above[q[1]] \/ q \in Above[s[1]]
  BY <1>1, TreeAssumption
<1>3. ASSUME q \in Above[s[1]] PROVE s[1] \in Named(q) /\ <<m[s[1]], s[2]>> \in Above[m[d]]
  BY <1>1, <1>3 DEF Named, Exchanges
<1> QED
  BY <1>2, <1>3

\* Renaming a directory, at any depth and with whatever is below, keeps the tree.
LEMMA RenameDirectory ==
    ASSUME WInv, NEW p \in Paths, NEW q \in Paths, Rename(p, q), IsDir(p)
    PROVE  Tree'
<1>1. PICK m \in Exchanges(p, q) : Moves(m, p, q)
  BY RenameMoves
<1>2. /\ at[q] = 0 /\ at[p] # 0 /\ p # q /\ Exists(p[1]) /\ Exists(q[1])
      /\ p[1] \in Dirs /\ q[1] \in Dirs
      /\ {p[1], q[1]} \cap (Named(p) \cup Named(q)) = {}
  BY RenameApart
<1>3. \A r \in Paths : r \notin {p, q} /\ r[1] \notin Named(p) \cup Named(q) => at'[r] = at[r]
  BY RenameSwaps
<1>4. \A d \in Dirs : /\ m[d] \in Dirs /\ m[m[d]] = d
                      /\ d \in Named(p) => m[d] \in Named(q)
                      /\ d \in Named(q) => m[d] \in Named(p)
  <2>1. \A d \in Dirs : m[d] \in Dirs /\ m[m[d]] = d
    BY <1>1 DEF Moves
  <2>2. \A d \in Dirs : d \in Named(p) \cup Named(q) => (d \in Named(p) <=> m[d] \in Named(q))
    BY <1>1 DEF Exchanges
  <2>3. \A d \in Dirs : d \notin Named(p) \cup Named(q) => m[d] = d
    BY <1>1 DEF Exchanges
  <2>4. Named(p) \cap Named(q) = {}
    <3> SUFFICES ASSUME NEW d \in Named(p), d \in Named(q) PROVE FALSE
      OBVIOUS
    <3>1. d \in Dirs /\ p \in Above[d] /\ q \in Above[d]
      BY DEF Named
    <3>2. p \in Above[q[1]] \/ q \in Above[p[1]]
      BY <1>2, <3>1, TreeAssumption
    <3> QED
      BY <1>2, <3>2 DEF Named
  <2> QED
    BY <2>1, <2>2, <2>3, <2>4
\* Nothing was below the free place.
<1>5. ASSUME NEW r \in Paths, r[1] \in Named(q) PROVE at[r] = 0
  <2>1. q \in Above[r[1]] /\ ~IsDir(q)
    BY <1>2, <1>5, ZeroIsNone DEF Named, IsDir
  <2> QED
    BY <2>1 DEF WInv, Tree, Exists
\* Below the new place is what was below the old one.
<1>6. ASSUME NEW r \in Paths, r \notin {p, q}, r[1] \in Named(q)
      PROVE  \E s \in Paths : /\ s[1] = m[r[1]] /\ s[2] = r[2] /\ s = <<m[r[1]], r[2]>>
                              /\ s[1] \in Named(p) /\ at'[r] = at[s]
  <2>1. r[1] \in Dirs /\ r[2] \in Names
    BY PathParts
  <2>2. m[r[1]] \in Dirs /\ m[r[1]] \in Named(p)
    BY <1>4, <1>6, <2>1
  <2>3. PICK s \in Paths : s = <<m[r[1]], r[2]>> /\ s[1] = m[r[1]] /\ s[2] = r[2]
    BY <2>1, <2>2, PathMade
  <2>4. at'[r] = at[s]
    BY <1>1, <1>6, <2>3 DEF Moves
  <2> QED
    BY <2>2, <2>3, <2>4
\* Nothing is left at and below the old place.
<1>7. ASSUME NEW r \in Paths, at'[r] # 0 PROVE r # p /\ r[1] \notin Named(p)
  <2>1. r # p
    BY <1>1, <1>7 DEF Moves
  <2>2. ASSUME r[1] \in Named(p) PROVE FALSE
    <3>1. r # q /\ r[1] \in Dirs /\ r[2] \in Names
      BY <1>2, <2>2, PathParts
    <3>2. m[r[1]] \in Dirs /\ m[r[1]] \in Named(q)
      BY <1>4, <2>2, <3>1
    <3>3. PICK s \in Paths : s = <<m[r[1]], r[2]>> /\ s[1] = m[r[1]]
      BY <3>1, <3>2, PathMade
    <3>4. at'[r] = at[s] /\ at[s] = 0
      BY <1>1, <1>5, <2>1, <3>1, <3>2, <3>3 DEF Moves
    <3> QED
      BY <1>7, <3>4
  <2> QED
    BY <2>1, <2>2
\* What is above the new place stays there.
<1>8. ASSUME NEW s \in Above[q[1]] PROVE at'[s] \in DirInodes
  <2>1. s \in Paths /\ s[1] \in Dirs /\ Above[s[1]] \subseteq Above[q[1]] /\ at[s] \in DirInodes
    BY <1>2, <1>8, LineAbove DEF Exists, IsDir
  <2>2. p \notin Above[q[1]] /\ q \notin Above[q[1]]
    BY <1>2 DEF Named
  <2>3. s \notin {p, q} /\ s[1] \notin Named(p) \cup Named(q)
    BY <1>8, <2>1, <2>2 DEF Named
  <2> QED
    BY <1>3, <2>1, <2>3
<1>9. ASSUME NEW r \in Paths, at'[r] # 0, NEW s \in Above[r[1]] PROVE at'[s] \in DirInodes
  <2>0. r[1] \in Dirs /\ r # p /\ r[1] \notin Named(p)
    BY <1>7, <1>9, PathParts
  <2>1. CASE r = q
    BY <1>8, <1>9, <2>1
  <2>2. CASE r # q /\ r[1] \in Named(q)
    <3>1. PICK t \in Paths : /\ t[1] = m[r[1]] /\ at'[r] = at[t]
      BY <1>6, <2>0, <2>2
    <3>2. \A u \in Above[t[1]] : at[u] \in DirInodes
      BY <1>9, <3>1 DEF WInv, Tree, Exists, IsDir
    <3>3. \/ s = q \/ s \in Above[q[1]]
          \/ s[1] \in Named(q) /\ <<m[s[1]], s[2]>> \in Above[m[r[1]]]
      BY <1>9, <2>0, <2>2, ExchangeAbove
    <3>4. CASE s = q
      BY <1>1, <3>4 DEF Moves, IsDir
    <3>5. CASE s \in Above[q[1]]
      BY <1>8, <3>5
    <3>6. CASE s # q /\ s[1] \in Named(q) /\ <<m[s[1]], s[2]>> \in Above[m[r[1]]]
      <4>1. s \in Paths
        BY <1>9, <2>0, LineAbove
      <4>2. s # p
        BY <1>2, <3>6
      <4>3. at'[s] = at[<<m[s[1]], s[2]>>]
        BY <1>1, <3>6, <4>1, <4>2 DEF Moves
      <4> QED
        BY <3>1, <3>2, <3>6, <4>3
    <3> QED
      BY <3>3, <3>4, <3>5, <3>6
  <2>3. CASE r # q /\ r[1] \notin Named(q)
    <3>1. at'[r] = at[r]
      BY <1>3, <2>0, <2>3
    <3>2. s \in Paths /\ s[1] \in Dirs /\ Above[s[1]] \subseteq Above[r[1]] /\ at[s] \in DirInodes
      BY <1>9, <2>0, <3>1, LineAbove DEF WInv, Tree, Exists, IsDir
    <3>3. p \notin Above[r[1]] /\ q \notin Above[r[1]]
      BY <2>0, <2>3 DEF Named
    <3>4. s \notin {p, q} /\ s[1] \notin Named(p) \cup Named(q)
      BY <1>9, <3>2, <3>3 DEF Named
    <3> QED
      BY <1>3, <3>2, <3>4
  <2> QED
    BY <2>1, <2>2, <2>3
<1>10. ASSUME NEW r \in Paths, at'[r] \in DirInodes PROVE Named(r) # {}
  <2>1. r # p /\ r[1] \notin Named(p) /\ r[1] \in Dirs
    BY <1>7, <1>10, PathParts, ZeroIsNone
  <2>2. CASE r = q
    <3>1. PICK d \in Named(p) : TRUE
      BY DEF WInv, Tree
    <3> QED
      BY <1>4, <2>2, <3>1 DEF Named
  <2>3. CASE r # q /\ r[1] \in Named(q)
    <3>1. PICK t \in Paths : /\ t[1] = m[r[1]] /\ t[2] = r[2] /\ t[1] \in Named(p) /\ at'[r] = at[t]
      BY <1>6, <2>1, <2>3
    <3>2. PICK d \in Dirs : t \in Above[d]
      BY <1>10, <3>1 DEF WInv, Tree, IsDir, Named
    <3>3. <<m[t[1]], t[2]>> \in Above[m[d]] /\ m[d] \in Dirs
      BY <1>1, <1>4, <3>1, <3>2 DEF Exchanges
    <3>4. <<m[t[1]], t[2]>> = r
      BY <1>4, <2>1, <3>1, PathParts
    <3> QED
      BY <3>3, <3>4 DEF Named
  <2>4. CASE r # q /\ r[1] \notin Named(q)
    BY <1>3, <1>10, <2>1, <2>4 DEF WInv, Tree, IsDir
  <2> QED
    BY <2>2, <2>3, <2>4
<1>11. \A r : Named(r)' = Named(r)
  BY DEF Named
<1> QED
  BY <1>9, <1>10, <1>11 DEF Tree, Exists, IsDir

\* A rename of a file leaves the directories alone.
LEMMA RenameFile ==
    ASSUME WInv, NEW p \in Paths, NEW q \in Paths, Rename(p, q), ~IsDir(p)
    PROVE  Tree'
<1>1. at[q] = 0 /\ at[p] # 0 /\ p # q /\ Exists(q[1])
  BY RenameApart
<1>2. /\ at'[q] = at[p] /\ at'[p] = 0
      /\ \A r \in Paths : r \notin {p, q} => at'[r] = at[r]
  <2>1. PICK m \in {[d \in Dirs |-> d]} : Moves(m, p, q)
    BY RenameMoves
  <2>2. \A d \in Dirs : m[d] = d
    BY <2>1
  <2> QED
    BY <2>1, <2>2, PathParts DEF Moves
<1>4. \A r \in Paths : at'[r] \in DirInodes <=> at[r] \in DirInodes
  BY <1>1, <1>2, ZeroIsNone DEF IsDir
<1>5. \A r \in Paths : Named(r)' = Named(r)
  BY DEF Named
<1>6. \A d \in Dirs : Exists(d)' <=> Exists(d)
  BY <1>4, AboveAssumption DEF Exists, IsDir
<1>7. Tree'
  <2>1. ASSUME NEW r \in Paths PROVE at'[r] # 0 => Exists(r[1])
    BY <1>1, <1>2 DEF WInv, Tree
  <2>2. ASSUME NEW r \in Paths PROVE at'[r] \in DirInodes => Named(r) # {}
    BY <1>4 DEF WInv, Tree, IsDir
  <2>3. \A r \in Paths : r[1] \in Dirs
    BY PathParts
  <2>4. ASSUME NEW r \in Paths PROVE (Exists(r[1]))' <=> Exists(r[1])
    BY <1>6, <2>3
  <2> QED
    BY <1>5, <2>1, <2>2, <2>4 DEF Tree, IsDir
<1> QED
  BY <1>7

LEMMA PathOf ==
    ASSUME NEW d \in Dirs, NEW n \in Names
    PROVE  <<d, n>> \in Paths /\ <<d, n>>[1] = d
BY DEF Paths

\* Only what Touched names has changed.
LEMMA ContentOf ==
    ASSUME NEW d \in Dirs, \A n \in Names : at'[<<d, n>>] = at[<<d, n>>]
    PROVE  Content(d)' = Content(d)
<1>1. {k \in Names : at'[<<d, k>>] # 0} = {k \in Names : at[<<d, k>>] # 0}
  OBVIOUS
<1> QED
  BY <1>1 DEF Content, IsDir

LEMMA RenameStep ==
    ASSUME IInv, WInv, NEW p \in Paths, NEW q \in Paths, Rename(p, q)
    PROVE  IInv' /\ WInv'
<1>1. /\ mutation = None /\ Change /\ at[p] # 0
      /\ mutation' = [kind |-> "renamed", path |-> p, other |-> q, inode |-> 0]
      /\ UNCHANGED <<storeVars, listing, stats, exposed>>
  BY DEF Rename, Mutable
<1>2. PICK f \in [Paths -> Paths] : \A r \in Paths : f[f[r]] = r /\ at'[r] = at[f[r]]
  BY RenameSwaps
<1>3. Tree'
  BY RenameFile, RenameDirectory
<1>4. \A r \in Paths : r \notin {p, q} /\ r[1] \notin Named(p) \cup Named(q) => at'[r] = at[r]
  BY RenameSwaps
<1>5. \A i : Links(i)' = Links(i)
  BY <1>2, SwapKeepsLinks
<1>6. at \in [Paths -> Inodes \cup {0}] /\ DOMAIN at' = Paths /\ at' = [r \in Paths |-> at'[r]]
  BY DEF WInv, WorldTypeOK, Rename
<1>7. at' \in [Paths -> Inodes \cup {0}]
  BY <1>2, <1>6
<1>8. mutation' \in Mutations
  BY <1>1 DEF Mutations
<1>9. WorldTypeOK'
  BY <1>1, <1>7, <1>8, Changing DEF WInv, WorldTypeOK
<1>10. Alone'
  BY <1>1 DEF Alone
<1>11. Touched' = {p[1], q[1]} \cup Under(p) \cup Under(q)
  <2>1. mutation'.kind = "renamed" /\ mutation'.path = p /\ mutation'.other = q
    BY <1>1
  <2>2. mutation' # None
    BY <2>1 DEF None
  <2> QED
    BY <2>1, <2>2 DEF Touched, Under
<1>12. ASSUME NEW d \in Dirs \ Touched' PROVE Content(d)' = Content(d)
  <2>1. ASSUME NEW n \in Names PROVE at'[<<d, n>>] = at[<<d, n>>]
    <3>1. PICK r \in Paths : r = <<d, n>> /\ r[1] = d
      BY <1>12, PathOf
    <3>2. r \notin {p, q} /\ r[1] \notin Named(p) \cup Named(q)
      BY <1>11, <1>12, <3>1 DEF Named, Under
    <3> QED
      BY <1>4, <3>1, <3>2
  <2> QED
    BY <2>1, ContentOf
<1>13. exposed \subseteq exposed'
  BY <1>1
<1> QED
  BY <1>1, <1>3, <1>5, <1>9, <1>10, <1>12, <1>13, MutationStep

\* What a file mutation knows of the file.
LEMMA Recounting ==
    ASSUME WInv, NEW p \in Paths, at[p] # 0, ~IsDir(p), Recounted(p)
    PROVE  /\ exposed \subseteq exposed' /\ exposed' \subseteq Inodes \cup {0}
           /\ at[p] \in Inodes \ DirInodes
           /\ at[p] \notin exposed' => /\ InFlight = {} /\ \A d \in Dirs : listing[d] = None
                                       /\ Cached(p) /\ EntryAt(p).inode = at[p]
<1>1. at[p] \in Inodes \ DirInodes /\ exposed \subseteq Inodes \cup {0}
  BY DEF WInv, WorldTypeOK, IsDir
<1> QED
  BY <1>1 DEF Recounted, Knows

LEMMA LinkStep ==
    ASSUME IInv, WInv, NEW p \in Paths, NEW q \in Paths, Link(p, q)
    PROVE  IInv' /\ WInv'
<1>1. /\ mutation = None /\ Change /\ at[p] # 0 /\ ~IsDir(p) /\ Recounted(p)
      /\ at[q] = 0 /\ Exists(q[1])
      /\ at' = [at EXCEPT ![q] = at[p]]
      /\ mutation' = [kind |-> "linked", path |-> p, other |-> q, inode |-> at[p]]
      /\ UNCHANGED <<storeVars, listing, stats>>
  BY DEF Link, Mutable, Free
<1>2. /\ exposed \subseteq exposed' /\ exposed' \subseteq Inodes \cup {0}
      /\ at[p] \in Inodes \ DirInodes
      /\ at[p] \notin exposed' => /\ InFlight = {} /\ \A d \in Dirs : listing[d] = None
                                  /\ Cached(p) /\ EntryAt(p).inode = at[p]
  BY <1>1, Recounting
<1>3. /\ at \in [Paths -> Inodes \cup {0}] /\ at' \in [Paths -> Inodes \cup {0}]
      /\ at'[q] = at[p] /\ \A r \in Paths \ {q} : at'[r] = at[r]
  BY <1>1, <1>2 DEF WInv, WorldTypeOK
<1>4. mutation' \in Mutations /\ mutation'.kind = "linked" /\ mutation'.inode = at[p]
  BY <1>1, <1>2 DEF Mutations
<1>5. WorldTypeOK'
  BY <1>1, <1>2, <1>3, <1>4, Changing DEF WInv, WorldTypeOK
<1>6. \A r \in Paths : at'[r] \in DirInodes <=> at[r] \in DirInodes
  BY <1>1, <1>2, <1>3, ZeroIsNone
<1>7. Tree'
  <2>1. \A r \in Paths : Named(r)' = Named(r)
    BY DEF Named
  <2>2. \A r \in Paths : (Exists(r[1]))' <=> Exists(r[1])
    BY <1>6, PathParts, AboveAssumption DEF Exists, IsDir
  <2>3. \A r \in Paths : at'[r] # 0 => Exists(r[1])
    BY <1>1, <1>3 DEF WInv, Tree
  <2>4. \A r \in Paths : at'[r] \in DirInodes => Named(r) # {}
    BY <1>6 DEF WInv, Tree, IsDir
  <2> QED
    BY <2>1, <2>2, <2>3, <2>4 DEF Tree, IsDir
<1>8. Touched' = {p[1], q[1]}
  <2>1. mutation'.path = p /\ mutation'.other = q
    BY <1>1
  <2>2. mutation' # None
    BY <1>4 DEF None
  <2> QED
    BY <1>4, <2>1, <2>2 DEF Touched
<1>9. ASSUME NEW d \in Dirs \ Touched' PROVE Content(d)' = Content(d)
  <2>1. ASSUME NEW n \in Names PROVE at'[<<d, n>>] = at[<<d, n>>]
    <3>1. PICK r \in Paths : r = <<d, n>> /\ r[1] = d
      BY <1>9, PathOf
    <3> QED
      BY <1>3, <1>8, <1>9, <3>1
  <2> QED
    BY <2>1, ContentOf
<1>10. ASSUME NEW i \in Inodes, i # at[p] PROVE Links(i)' = Links(i)
  <2>1. {r \in Paths : at'[r] = i} = {r \in Paths : at[r] = i}
    BY <1>1, <1>3, <1>10, ZeroIsNone
  <2> QED
    BY <2>1 DEF Links
<1>11. Alone'
  <2>1. InFlight' = InFlight /\ listing' = listing
    BY <1>1 DEF InFlight
  <2>2. mutation'.path = p
    BY <1>1
  <2>3. /\ Cached(mutation.path)' <=> Cached(p)
        /\ EntryAt(mutation.path)' = EntryAt(p)
    BY <1>1, <2>2 DEF Cached, Rows, EntryAt, storeVars
  <2> QED
    BY <1>2, <1>4, <2>1, <2>3 DEF Alone
<1>12. \A i \in Inodes : \/ Links(i)' = Links(i)
                         \/ /\ mutation'.kind \in {"linked", "unlinked"} /\ mutation'.inode = i
                            /\ i \in exposed' \/ InFlight = {}
  BY <1>2, <1>4, <1>10
<1> QED
  BY <1>1, <1>2, <1>5, <1>7, <1>9, <1>11, <1>12, MutationStep

LEMMA UnlinkStep ==
    ASSUME IInv, WInv, NEW p \in Paths, Unlink(p)
    PROVE  IInv' /\ WInv'
<1>1. /\ mutation = None /\ Change /\ at[p] # 0 /\ ~IsDir(p) /\ Recounted(p)
      /\ at' = [at EXCEPT ![p] = 0]
      /\ mutation' = [kind |-> "unlinked", path |-> p, other |-> p, inode |-> at[p]]
      /\ UNCHANGED <<storeVars, listing, stats>>
  BY DEF Unlink, Mutable
<1>2. /\ exposed \subseteq exposed' /\ exposed' \subseteq Inodes \cup {0}
      /\ at[p] \in Inodes \ DirInodes
      /\ at[p] \notin exposed' => /\ InFlight = {} /\ \A d \in Dirs : listing[d] = None
                                  /\ Cached(p) /\ EntryAt(p).inode = at[p]
  BY <1>1, Recounting
<1>3. /\ at \in [Paths -> Inodes \cup {0}] /\ at' \in [Paths -> Inodes \cup {0}]
      /\ at'[p] = 0 /\ \A r \in Paths \ {p} : at'[r] = at[r]
  BY <1>1 DEF WInv, WorldTypeOK
<1>4. mutation' \in Mutations /\ mutation'.kind = "unlinked" /\ mutation'.inode = at[p]
  BY <1>1, <1>2 DEF Mutations
<1>5. WorldTypeOK'
  BY <1>1, <1>2, <1>3, <1>4, Changing DEF WInv, WorldTypeOK
<1>6. \A r \in Paths : at'[r] \in DirInodes <=> at[r] \in DirInodes
  BY <1>1, <1>2, <1>3, ZeroIsNone
<1>7. Tree'
  <2>1. \A r \in Paths : Named(r)' = Named(r)
    BY DEF Named
  <2>2. \A r \in Paths : (Exists(r[1]))' <=> Exists(r[1])
    BY <1>6, PathParts, AboveAssumption DEF Exists, IsDir
  <2>3. \A r \in Paths : at'[r] # 0 => Exists(r[1])
    BY <1>3 DEF WInv, Tree
  <2>4. \A r \in Paths : at'[r] \in DirInodes => Named(r) # {}
    BY <1>6 DEF WInv, Tree, IsDir
  <2> QED
    BY <2>1, <2>2, <2>3, <2>4 DEF Tree, IsDir
<1>8. p[1] \in Touched'
  <2>1. mutation'.path = p
    BY <1>1
  <2>2. mutation' # None
    BY <1>4 DEF None
  <2> QED
    BY <1>4, <2>1, <2>2 DEF Touched
<1>9. ASSUME NEW d \in Dirs \ Touched' PROVE Content(d)' = Content(d)
  <2>1. ASSUME NEW n \in Names PROVE at'[<<d, n>>] = at[<<d, n>>]
    <3>1. PICK r \in Paths : r = <<d, n>> /\ r[1] = d
      BY <1>9, PathOf
    <3> QED
      BY <1>3, <1>8, <1>9, <3>1
  <2> QED
    BY <2>1, ContentOf
<1>10. ASSUME NEW i \in Inodes, i # at[p] PROVE Links(i)' = Links(i)
  <2>1. {r \in Paths : at'[r] = i} = {r \in Paths : at[r] = i}
    BY <1>1, <1>3, <1>10, ZeroIsNone
  <2> QED
    BY <2>1 DEF Links
<1>11. Alone'
  <2>1. InFlight' = InFlight /\ listing' = listing
    BY <1>1 DEF InFlight
  <2>2. mutation'.path = p
    BY <1>1
  <2>3. /\ Cached(mutation.path)' <=> Cached(p)
        /\ EntryAt(mutation.path)' = EntryAt(p)
    BY <1>1, <2>2 DEF Cached, Rows, EntryAt, storeVars
  <2> QED
    BY <1>2, <1>4, <2>1, <2>3 DEF Alone
<1>12. \A i \in Inodes : \/ Links(i)' = Links(i)
                         \/ /\ mutation'.kind \in {"linked", "unlinked"} /\ mutation'.inode = i
                            /\ i \in exposed' \/ InFlight = {}
  BY <1>2, <1>4, <1>10
<1> QED
  BY <1>1, <1>2, <1>5, <1>7, <1>9, <1>11, <1>12, MutationStep

-----------------------------------------------------------------------------
(* A mutation is noted.                                                    *)

LEMMA CountsFlagged ==
    ASSUME IInv, NEW p
    PROVE  /\ StaleCountsOf(p) \in [Dirs -> Record]
           /\ \A d \in Dirs : /\ Distrusts(cache[d], StaleCountsOf(p)[d])
                              /\ SameCounts(cache[d], StaleCountsOf(p)[d])
           /\ Cached(p) => \A d \in Dirs : \A n \in Rows(d) :
                /\ EntryAt(p).inode # 0 /\ <<EntryAt(p).inode, <<d, n>>>> \in index
                /\ cache[d].entries[n].nlink # Unknown
                => StaleCountsOf(p)[d].entries[n].stale
<1>1. StaleCountsOf(p) \in [Dirs -> Record]
  BY StaleCountsOfQuiet DEF Quiet
<1>2. CASE ~Cached(p)
  <2>1. StaleCountsOf(p) = cache
    BY <1>2 DEF StaleCountsOf
  <2> QED
    BY <1>1, <1>2, <2>1, Records, DistrustsItself
<1>3. CASE Cached(p)
  <2>1. PICK i : i = EntryAt(p).inode
    OBVIOUS
  <2>2. StaleCountsOf(p) = StaleCounts(cache, i)
    BY <1>3, <2>1 DEF StaleCountsOf
  <2> QED
    BY <1>1, <2>1, <2>2, StaleCountsDistrusts
<1> QED
  BY <1>2, <1>3

LEMMA NoteMarks ==
    ASSUME IInv, WInv, Note
    PROVE  /\ mutation # None /\ mutation \in Mutations
           /\ \A d \in Dirs : Distrusts(cache[d], cache'[d]) /\ SameCounts(cache[d], cache'[d])
           /\ \A d \in Dirs \cap Touched :
                /\ cache'[d].state # "Fresh"
                /\ cache'[d].state = "Loading" => cache'[d].staleOnLand
           /\ mutation.kind \in {"linked", "unlinked"} /\ Cached(mutation.path) =>
                \A d \in Dirs : \A n \in Rows(d) :
                  /\ EntryAt(mutation.path).inode # 0
                  /\ <<EntryAt(mutation.path).inode, <<d, n>>>> \in index
                  /\ cache[d].entries[n].nlink # Unknown
                  => cache'[d].entries[n].stale
<1>1. mutation # None /\ mutation \in Mutations
  <2>1. mutation.kind \in {"renamed", "linked", "unlinked"}
    BY DEF Note
  <2> QED
    BY <2>1 DEF WInv, WorldTypeOK, None
<1>2. PICK c : /\ cache' = Mark(c, Touched)
               /\ \/ c = cache /\ mutation.kind = "renamed"
                  \/ c = StaleCountsOf(mutation.path)
  <2>1. CASE mutation.kind = "renamed" /\ NoteRenamed(mutation.path, mutation.other)
    <3>1. Touched = {mutation.path[1], mutation.other[1]}
                      \cup Under(mutation.path) \cup Under(mutation.other)
      BY <1>1, <2>1 DEF Touched
    <3> QED
      BY <2>1, <3>1 DEF NoteRenamed
  <2>2. CASE mutation.kind = "linked" /\ NoteLinked(mutation.path, mutation.other)
    <3>1. Touched = {mutation.path[1], mutation.other[1]}
      BY <1>1, <2>2 DEF Touched
    <3> QED
      BY <2>2, <3>1 DEF NoteLinked
  <2>3. CASE mutation.kind = "unlinked" /\ NoteUnlinked(mutation.path)
    <3>1. Touched = {mutation.path[1]} \cup Under(mutation.path)
      BY <1>1, <2>3 DEF Touched
    <3> QED
      BY <2>3, <3>1 DEF NoteUnlinked
  <2> QED
    BY <2>1, <2>2, <2>3 DEF Note
<1>3. PICK p : p = mutation.path
  OBVIOUS
<1>4. /\ c \in [Dirs -> Record]
      /\ \A d \in Dirs : Distrusts(cache[d], c[d]) /\ SameCounts(cache[d], c[d])
      /\ mutation.kind \in {"linked", "unlinked"} /\ Cached(p) =>
           \A d \in Dirs : \A n \in Rows(d) :
             /\ EntryAt(p).inode # 0 /\ <<EntryAt(p).inode, <<d, n>>>> \in index
             /\ cache[d].entries[n].nlink # Unknown
             => c[d].entries[n].stale
  <2>1. CASE c = cache /\ mutation.kind = "renamed"
    BY <2>1, Records, DistrustsItself
  <2>2. CASE c = StaleCountsOf(mutation.path)
    BY <1>3, <2>2, CountsFlagged
  <2> QED
    BY <1>2, <2>1, <2>2
<1>5. PICK D : D = Touched
  OBVIOUS
<1>6. \A d \in Dirs :
        /\ Distrusts(c[d], cache'[d]) /\ SameCounts(c[d], cache'[d])
        /\ cache'[d].entries = c[d].entries
        /\ d \in D => /\ cache'[d].state # "Fresh"
                      /\ cache'[d].state = "Loading" => cache'[d].staleOnLand
  BY <1>2, <1>4, <1>5, MarkDistrusts
<1>7. ASSUME NEW d \in Dirs
      PROVE  Distrusts(cache[d], cache'[d]) /\ SameCounts(cache[d], cache'[d])
  <2>1. /\ Distrusts(cache[d], c[d]) /\ Distrusts(c[d], cache'[d])
        /\ SameCounts(cache[d], c[d]) /\ cache'[d].entries = c[d].entries
    BY <1>4, <1>6
  <2>2. SameCounts(cache[d], cache'[d])
    BY <2>1 DEF SameCounts
  <2>3. Distrusts(cache[d], cache'[d])
    BY <2>1 DEF Distrusts, SameRows
  <2> QED
    BY <2>2, <2>3
<1> QED
  BY <1>1, <1>3, <1>4, <1>5, <1>6, <1>7

LEMMA NotedStep == IInv /\ WInv /\ Note => IInv' /\ WInv'
<1> SUFFICES ASSUME IInv, WInv, Note PROVE IInv' /\ WInv'
  OBVIOUS
<1>1. /\ mutation' = None /\ UNCHANGED <<at, listing, stats, exposed, changes>>
      /\ \/ NoteRenamed(mutation.path, mutation.other)
         \/ NoteLinked(mutation.path, mutation.other)
         \/ NoteUnlinked(mutation.path)
  BY DEF Note
<1>2. IInv'
  BY <1>1, NoteStep
<1>3. /\ mutation # None /\ mutation \in Mutations
      /\ \A d \in Dirs : Distrusts(cache[d], cache'[d]) /\ SameCounts(cache[d], cache'[d])
      /\ \A d \in Dirs \cap Touched :
           /\ cache'[d].state # "Fresh"
           /\ cache'[d].state = "Loading" => cache'[d].staleOnLand
      /\ mutation.kind \in {"linked", "unlinked"} /\ Cached(mutation.path) =>
           \A d \in Dirs : \A n \in Rows(d) :
             /\ EntryAt(mutation.path).inode # 0
             /\ <<EntryAt(mutation.path).inode, <<d, n>>>> \in index
             /\ cache[d].entries[n].nlink # Unknown
             => cache'[d].entries[n].stale
  BY NoteMarks
<1>4. WorldTypeOK'
  BY <1>1 DEF WInv, WorldTypeOK
<1>5. /\ \A d : Content(d)' = Content(d)
      /\ \A i : Links(i)' = Links(i)
      /\ Tree'
  BY <1>1, ShareStays DEF WInv
<1>6. Lifecycle'
  BY <1>1, <1>3 DEF WInv, Lifecycle, Distrusts
<1>7. Current'
  <2>1. ASSUME NEW d \in Dirs PROVE Currently(d)'
    <3>1. CASE d \notin Touched
      <4>1. Currently(d)
        BY <3>1 DEF WInv, Current
      <4> QED
        BY <1>1, <1>3, <1>5, <4>1, CurrentlyStays
    <3>2. CASE d \in Touched
      <4>1. /\ cache'[d].state # "Fresh"
            /\ cache'[d].state = "Loading" => cache'[d].staleOnLand
        BY <1>3, <3>2
      <4>2. listing[d].kind = "listed" => cache'[d].state = "Loading"
        BY <1>3 DEF WInv, Lifecycle, Distrusts, None
      <4> QED
        BY <1>1, <4>1, <4>2 DEF Currently
    <3> QED
      BY <3>1, <3>2
  <2> QED
    BY <2>1 DEF Current
<1>8. AllGenuine'
  BY <1>1, <1>3, GenuineStays DEF WInv, AllGenuine, Distrusts
<1>9. Alone'
  BY <1>1 DEF Alone, None
<1>10. Counted'
  <2>1. ASSUME NEW p \in Paths, Cached(p)' PROVE Excused(EntryAt(p).inode)' \/ CountTrue(p)'
    <3>1. p[1] \in Dirs /\ p = <<p[1], p[2]>> /\ SameRows(cache[p[1]], cache'[p[1]])
      BY <1>3, PathParts DEF Distrusts
    <3>2. Cached(p) /\ EntryAt(p)'.inode = EntryAt(p).inode
      BY <2>1, <3>1, RowKept
    <3>3. PICK i : i = EntryAt(p).inode
      OBVIOUS
    <3>4. i \in exposed => Excused(EntryAt(p).inode)'
      BY <1>1, <3>2, <3>3 DEF Excused
    <3>5. /\ EntryAt(p)'.nlink = EntryAt(p).nlink
          /\ EntryAt(p).stale => EntryAt(p)'.stale
      BY <1>3, <3>1, <3>2, RowCounts
    <3>6. CASE CountTrue(p)
      BY <1>5, <3>1, <3>2, <3>3, <3>5, <3>6, CountStays
    <3>7. CASE i \notin exposed /\ mutation.kind \in {"linked", "unlinked"} /\ mutation.inode = i
      <4>1. /\ i \in Inodes \ DirInodes /\ Cached(mutation.path)
            /\ EntryAt(mutation.path).inode = i
        BY <3>7 DEF WInv, Alone
      <4>2. p[2] \in Rows(p[1]) /\ EntryAt(p) = cache[p[1]].entries[p[2]]
        BY <3>2 DEF Cached, EntryAt
      <4>3. Genuine(EntryAt(p))
        BY <3>1, <4>2 DEF WInv, AllGenuine, GenuineIn
      <4>4. ~EntryAt(p).isDir /\ i # 0
        BY <3>3, <4>1, <4>3, ZeroIsNone DEF Genuine
      <4>5. <<i, p>> \in Pairs(p[1], cache[p[1]].entries, Rows(p[1]))
        BY <3>1, <3>3, <4>2, <4>4, PairsMember
      <4>6. <<i, p>> \in index
        BY <3>1, <4>5 DEF IInv, IndexExact
      <4>7. <<i, <<p[1], p[2]>>>> \in index
        BY <3>1, <4>6
      <4>8. EntryAt(p).nlink # Unknown => cache'[p[1]].entries[p[2]].stale
        BY <1>3, <3>1, <3>7, <4>1, <4>2, <4>4, <4>7
      <4>9. EntryAt(p).nlink = Unknown \/ EntryAt(p)'.stale
        BY <4>8 DEF EntryAt
      <4> QED
        BY <3>5, <4>9 DEF CountTrue, Unknown
    <3>8. Excused(i) \/ CountTrue(p)
      BY <3>2, <3>3 DEF WInv, Counted
    <3> QED
      BY <3>4, <3>6, <3>7, <3>8 DEF Excused
  <2>2. ASSUME NEW p \in Paths, stats'[p].kind = "stat"
        PROVE  stats'[p].inode \in exposed' \/ stats'[p].nlink = Links(stats[p].inode)'
    <3>1. PICK i : i = stats[p].inode
      OBVIOUS
    <3>2. stats[p].nlink = Links(i) \/ i \in exposed
      BY <1>1, <2>2, <3>1 DEF WInv, Counted
    <3>3. Links(stats[p].inode)' = Links(i)
      BY <1>1, <3>1 DEF Links
    <3> QED
      BY <1>1, <3>1, <3>2, <3>3
  <2> QED
    BY <2>1, <2>2 DEF Counted
<1>11. WInv'
  BY <1>4, <1>5, <1>6, <1>7, <1>8, <1>9, <1>10 DEF WInv
<1> QED
  BY <1>2, <1>11

-----------------------------------------------------------------------------
(* The theorems.                                                           *)

\* Nothing is cached and nothing in flight.
Empty ==
    /\ Init /\ WorldTypeOK /\ Tree /\ mutation = None
    /\ listing = [d \in Dirs |-> None] /\ stats = [p \in Paths |-> None]

LEMMA EmptyWorld == Empty => WInv
<1> SUFFICES ASSUME Empty PROVE WInv
  OBVIOUS
<1>0. /\ Init /\ WorldTypeOK /\ Tree /\ mutation = None
      /\ listing = [d \in Dirs |-> None] /\ stats = [p \in Paths |-> None]
  BY DEF Empty
<1>1. \A d \in Dirs : cache[d] = NoRecord /\ listing[d] = None
  BY <1>0 DEF Init
<1>2. NoRecord.state = "Missing" /\ NoRecord.entries = <<>> /\ None.kind = "none"
  BY DEF NoRecord, None
<1>3. \A d \in Dirs : Rows(d) = {}
  BY <1>1, <1>2 DEF Rows
<1>4. Lifecycle
  BY <1>1, <1>2 DEF Lifecycle
<1>5. Current
  BY <1>1, <1>2 DEF Current, Currently
<1>6. AllGenuine
  BY <1>1, <1>2, <1>3 DEF AllGenuine, GenuineIn
<1>7. Alone
  BY <1>0, <1>2 DEF Alone
<1>8. Counted
  <2>1. \A p \in Paths : ~Cached(p) /\ stats[p].kind # "stat"
    BY <1>0, <1>2, <1>3, PathParts DEF Cached
  <2> QED
    BY <2>1 DEF Counted
<1> QED
  BY <1>0, <1>4, <1>5, <1>6, <1>7, <1>8 DEF WInv

LEMMA WorldInitInv == WorldInit => IInv /\ WInv
<1> SUFFICES ASSUME WorldInit PROVE IInv /\ WInv
  OBVIOUS
<1>1. Init /\ mutation = None /\ at = StartShare /\ exposed = {} /\ changes = 0
      /\ listing = [d \in Dirs |-> None] /\ stats = [p \in Paths |-> None]
  BY DEF WorldInit
<1>2. WorldTypeOK
  BY <1>1, StartAssumption, BoundsAssumption
     DEF WorldTypeOK, ListReplies, StatReplies, Replies
<1>3. Tree
  <2>1. \A p \in Paths : StartShare[p] \in DirInodes => Named(p) # {}
    BY StartAssumption DEF Named
  <2> QED
    BY <1>1, <2>1, StartAssumption DEF Tree, Exists, IsDir
<1> QED
  BY <1>1, <1>2, <1>3, EmptyWorld, InitInv DEF Empty

LEMMA DisconnectedStep == IInv /\ WInv /\ Disconnected => IInv' /\ WInv'
<1> SUFFICES ASSUME IInv, WInv, Disconnected PROVE IInv' /\ WInv'
  OBVIOUS
<1>1. /\ Clear /\ Change /\ mutation = None /\ UNCHANGED <<at, mutation, exposed>>
      /\ listing' = [d \in Dirs |-> None] /\ stats' = [p \in Paths |-> None]
  BY DEF Disconnected
<1>2. Init'
  BY <1>1 DEF Clear, Init
<1>3. WorldTypeOK'
  BY <1>1, Changing DEF WInv, WorldTypeOK, ListReplies, StatReplies, Replies
<1>4. Tree'
  BY <1>1, ShareStays DEF WInv
<1>5. Empty'
  BY <1>1, <1>2, <1>3, <1>4 DEF Empty
<1> QED
  BY <1>1, <1>5, EmptyWorld, ClearStep, PTL

LEMMA WInvStep == IInv /\ WInv /\ [WorldNext]_vars => IInv' /\ WInv'
<1> SUFFICES ASSUME IInv, WInv, [WorldNext]_vars PROVE IInv' /\ WInv'
  OBVIOUS
<1>1. ASSUME NEW d \in Dirs, Fetch(d) \/ Refresh(d) PROVE IInv' /\ WInv'
  BY <1>1, FetchStep
<1>2. ASSUME NEW d \in Dirs, ServerLists(d) \/ ServerRefusesList(d) \/ ServerFindsNone(d)
      PROVE  IInv' /\ WInv'
  BY <1>2, ServerAnswersStep
<1>3. ASSUME NEW d \in Dirs, ListingLands(d) PROVE IInv' /\ WInv'
  BY <1>3, ListingLandsStep
<1>4. ASSUME NEW d \in Dirs, ListFailureLands(d) PROVE IInv' /\ WInv'
  BY <1>4, ListFailureLandsStep
<1>5. ASSUME NEW p \in Paths, ServerStats(p) PROVE IInv' /\ WInv'
  BY <1>5, ServerAnswersStep
<1>6. ASSUME NEW p \in Paths, StatLands(p) \/ StatFailureLands(p) PROVE IInv' /\ WInv'
  BY <1>6, StatLandsStep
<1>7. ASSUME NEW p \in Paths, Unlink(p) PROVE IInv' /\ WInv'
  BY <1>7, UnlinkStep
<1>8. ASSUME NEW p \in Paths, NEW q \in Paths, Rename(p, q) PROVE IInv' /\ WInv'
  BY <1>8, RenameStep
<1>9. ASSUME NEW p \in Paths, NEW q \in Paths, Link(p, q) PROVE IInv' /\ WInv'
  BY <1>9, LinkStep
<1>10. CASE Pump
  BY <1>10, PumpStep
<1>11. CASE Note
  BY <1>11, NotedStep
<1>12. CASE RefreshAll
  BY <1>12, RefreshAllStep
<1>13. CASE Disconnected
  BY <1>13, DisconnectedStep
<1>14. CASE UNCHANGED vars
  BY <1>14, IdleStep
<1> QED
  BY <1>1, <1>2, <1>3, <1>4, <1>5, <1>6, <1>7, <1>8, <1>9, <1>10, <1>11, <1>12, <1>13,
     <1>14 DEF WorldNext

LEMMA WInvHolds == WorldSpec => [](IInv /\ WInv)
BY WorldInitInv, WInvStep, PTL DEF WorldSpec

\* Whatever is requested, changed, answered and noted in whatever order, and
\* however deep the directories lie, once every mutation is noted a directory
\* shown as Fresh is what the share holds (staleOnLand, set for the listings in
\* flight at ShareCacheStore.cpp:129-144 and obeyed at 285-300).
THEOREM FreshAlwaysTrue == WorldSpec => []FreshIsTrue
<1>1. IInv /\ WInv => FreshIsTrue
  BY NothingTouched DEF WInv, Current, Currently, FreshIsTrue
<1> QED
  BY <1>1, WInvHolds, PTL

\* A count served as current is the number of names of the file, but for the
\* inodes a mutation of which overlapped a request or went through a path the
\* cache did not know (markInodeStale, ShareCacheStore.cpp:125-143).
THEOREM CountsAlwaysTrue == WorldSpec => []CountsAreTrue
<1>1. IInv /\ WInv => CountsAreTrue
  BY DEF WInv, Counted, Excused, CountsAreTrue, None
<1> QED
  BY <1>1, WInvHolds, PTL

\* With nothing in flight, nothing to fetch and nothing that nextStats would
\* name, whatever happened before, the views are shown what the share holds:
\* nextStats overlooks no count they wait for (ShareCacheStore.cpp:407-489).
THEOREM IdleAlwaysSettled == WorldSpec => []IdleIsSettled
<1>1. ASSUME IInv, WInv, Idle PROVE Settled
  <2>1. /\ mutation = None /\ \A d \in Dirs : listing[d] = None
        /\ \A k \in DOMAIN Subs : cache[Subs[k].dir].state \notin {"Missing", "Stale"}
        /\ Walk(Subs, {}, Window).paths = <<>>
    BY <1>1 DEF Idle
  <2>2. Subs \in Seq(View)
    BY SubsAssumption DEF View
  <2>3. \A k \in DOMAIN Subs : Wanted(Subs[k].dir, {}) = {}
    BY <1>1, <2>1, <2>2, NothingWanted, BoundsAssumption
  <2>4. \A k \in DOMAIN Subs : Subs[k].dir \in Dirs
    <3>1. PICK N \in Nat : N = Len(Subs)
      BY <2>2
    <3>2. \A k \in DOMAIN Subs : Subs[k] \in View
      BY <2>2, <3>1
    <3> QED
      BY <3>2, SubscriptionFields
  <2>5. ASSUME NEW d \in Dirs, cache[d].state = "Fresh" PROVE Listed(d) = Content(d)
    <3>1. Touched = {}
      BY <2>1, NothingTouched
    <3>2. Currently(d)
      BY <1>1, <3>1 DEF WInv, Current
    <3> QED
      BY <2>5, <3>2 DEF Currently
  <2>6. ASSUME NEW d \in Dirs, Wanted(d, {}) = {}, NEW n \in Rows(d),
               NEW e, e = EntryAt(<<d, n>>),
               ~e.isDir, e.inode \notin exposed, e.nlink # Unavailable
        PROVE  e.nlink = Links(e.inode) /\ ~e.stale
    <3>1. ~NeedsStat(e)
      BY <2>6 DEF Wanted
    <3>2. e.nlink # Unknown /\ ~e.stale
      BY <2>6, <3>1 DEF NeedsStat
    <3>3. n \in Names
      BY <1>1, Records DEF Rows
    <3>4. <<d, n>> \in Paths /\ Cached(<<d, n>>)
      BY <2>6, <3>3 DEF Paths, Cached
    <3>5. e \in Entry
      <4>1. cache[d] \in Record
        BY <1>1, Records
      <4> QED
        BY <2>6, <4>1, RecordFields DEF Rows, EntryAt
    <3>6. e.nlink >= 0
      BY <2>6, <3>2, <3>5, MaxLinksAssumption DEF Entry, Unknown, Unavailable
    <3>7. CountTrue(<<d, n>>)
      BY <1>1, <2>1, <2>6, <3>4 DEF WInv, Counted, Excused, None
    <3> QED
      BY <2>6, <3>2, <3>6, <3>7 DEF CountTrue
  <2>7. ASSUME NEW k \in DOMAIN Subs, NEW d \in Dirs, d = Subs[k].dir
        PROVE  cache[d].state = "Failed" \/ cache[d].state = "Fresh"
    <3>1. cache[d] \in Record /\ cache[d].state # "Loading"
      BY <1>1, <2>1, Records DEF WInv, Lifecycle
    <3> QED
      BY <2>1, <2>7, <3>1 DEF Record
  <2>8. ASSUME NEW k \in DOMAIN Subs, NEW d, d = Subs[k].dir
        PROVE  \/ cache[d].state = "Failed"
               \/ /\ cache[d].state = "Fresh" /\ Listed(d) = Content(d)
                  /\ \A n \in Rows(d) :
                       LET e == EntryAt(<<d, n>>)
                       IN  \/ e.isDir \/ e.inode \in exposed \/ e.nlink = Unavailable
                           \/ e.nlink = Links(e.inode) /\ ~e.stale
    <3>1. d \in Dirs /\ Wanted(d, {}) = {}
      BY <2>3, <2>4, <2>8
    <3> QED
      BY <2>5, <2>6, <2>7, <2>8, <3>1
  <2> QED
    BY <2>8 DEF Settled
<1>2. IInv /\ WInv => IdleIsSettled
  BY <1>1 DEF IdleIsSettled
<1> QED
  BY <1>2, WInvHolds, PTL
=============================================================================
