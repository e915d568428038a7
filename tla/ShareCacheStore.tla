--------------------------- MODULE ShareCacheStore ---------------------------
(***************************************************************************)
(* core/ShareCacheStore: the directory listings and link counts fetched    *)
(* from a share, and what of it is still to be trusted.  Pure bookkeeping: *)
(* one operator per public operation, and Next lets any caller make them   *)
(* in any order.  CachedShare adds the share and the requests in flight.   *)
(*                                                                         *)
(* A path is a directory and a name.  Names are numbers in their sort      *)
(* order, so the rows of a directory are the names of its entries.  Size   *)
(* and time of a file are left out: nothing is decided by them here.       *)
(***************************************************************************)
EXTENDS Integers, Sequences, FiniteSets, SequencesExt

CONSTANTS
    Dirs,      \* the directories of the share
    MaxName,   \* the names are 1 .. MaxName
    Above,     \* the paths at or above a directory (those naming one)
    Inodes,    \* the inode numbers, 0 standing for "the server sent none"
    MaxLinks   \* bound on link counts

Names == 1 .. MaxName
Paths == Dirs \X Names

ASSUME MaxNameAssumption == MaxName \in Nat
ASSUME AboveAssumption == Above \in [Dirs -> SUBSET Paths]
ASSUME InodesAssumption == Inodes \subseteq Nat \ {0}
ASSUME MaxLinksAssumption == MaxLinks \in Nat

Unknown == -1
Unavailable == -2

VARIABLES
    cache,   \* m_dirs; a directory without a record is Missing
    index    \* m_inodes: pairs of an inode and a path

storeVars == <<cache, index>>

\* What a listing says of a name, and what the store keeps of it.
File == [isDir : BOOLEAN, inode : Inodes \cup {0}]
Entry == [isDir : BOOLEAN, inode : Inodes \cup {0},
          nlink : {Unknown, Unavailable} \cup 0 .. MaxLinks, stale : BOOLEAN]
Listing == UNION {[N -> File] : N \in SUBSET Names}
Entries == UNION {[N -> Entry] : N \in SUBSET Names}

\* skipped: the rows before statCursor.
Record == [state : {"Missing", "Loading", "Fresh", "Stale", "Failed"},
           entries : Entries, staleOnLand : BOOLEAN, skipped : SUBSET Names]

NoRecord == [state |-> "Missing", entries |-> <<>>, staleOnLand |-> FALSE,
             skipped |-> {}]

Init ==
    /\ cache = [d \in Dirs |-> NoRecord]
    /\ index = {}

-----------------------------------------------------------------------------
(* Helpers.                                                                *)

Rows(d) == DOMAIN cache[d].entries
Cached(p) == p[2] \in Rows(p[1])
EntryAt(p) == cache[p[1]].entries[p[2]]

NeedsStat(e) == ~e.isDir /\ (e.nlink = Unknown \/ e.stale)

\* What the index holds for the rows N of E.
Pairs(d, E, N) ==
    {<<E[n].inode, <<d, n>>>> : n \in {k \in N : ~E[k].isDir /\ E[k].inode # 0}}

\* Faulty: the reply in flight is taken for newer than the invalidation.
MarkAtOnce(c, D) ==
    [d \in Dirs |-> IF d \in D /\ c[d].state # "Missing"
                    THEN [c[d] EXCEPT !.state = "Stale"] ELSE c[d]]

\* markStale for every directory of D.
Mark(c, D) ==
    [d \in Dirs |->
       CASE d \notin D \/ c[d].state = "Missing" -> c[d]
         [] d \in D /\ c[d].state = "Loading" -> [c[d] EXCEPT !.staleOnLand = TRUE]
         [] OTHER -> [c[d] EXCEPT !.state = "Stale"]]

\* Faulty: the cursor stays.
FlaggedKeepsCursor(r, S) ==
    [r EXCEPT !.entries = [n \in DOMAIN r.entries |->
                             [r.entries[n] EXCEPT !.stale = @ \/ n \in S]]]

\* A record with the rows of S flagged and the cursor set back.
Flagged(r, S) ==
    [r EXCEPT !.entries = [n \in DOMAIN r.entries |->
                             [r.entries[n] EXCEPT !.stale = @ \/ n \in S]],
              !.skipped = {n \in r.skipped : \A k \in S : n < k}]

\* Faulty: nothing is flagged.
StaleCountsNone(c, i) == c

StaleCounts(c, i) ==
    [d \in Dirs |->
       Flagged(c[d], {n \in DOMAIN c[d].entries :
                        /\ i # 0 /\ <<i, <<d, n>>>> \in index
                        /\ c[d].entries[n].nlink # Unknown})]

StaleCountsOf(p) == IF Cached(p) THEN StaleCounts(cache, EntryAt(p).inode) ELSE cache

\* Faulty: the directory at the path and none below it.
UnderAlone(p) == {d \in Dirs : Above[d] = Above[p[1]] \cup {p}}

\* markStaleUnder: the directories at or below a path.
Under(p) == {d \in Dirs : p \in Above[d]}

-----------------------------------------------------------------------------
(* Fetch lifecycle.                                                        *)

MarkLoading(d) ==
    /\ cache' = [cache EXCEPT ![d].state = "Loading"]
    /\ UNCHANGED index

New(f) == [isDir |-> f.isDir, inode |-> f.inode, nlink |-> Unknown, stale |-> FALSE]

\* A row of the same name: the link count goes with the inode.
Carried(e, f) ==
    IF e.inode = f.inode
    THEN [New(f) EXCEPT !.nlink = e.nlink, !.stale = e.nlink # Unknown]
    ELSE New(f)

\* Faulty: a row replaced under its name keeps its old index entry.
ReindexedAddsOnly(d, old, new) ==
    LET both == DOMAIN old \cap DOMAIN new
        changed == {n \in both : old[n].isDir # new[n].isDir \/ old[n].inode # new[n].inode}
    IN  (index \ Pairs(d, old, DOMAIN old \ both))
          \cup Pairs(d, new, (DOMAIN new \ both) \cup changed)

\* The index after the rows old of d have become new.
Reindexed(d, old, new) ==
    LET both == DOMAIN old \cap DOMAIN new
        changed == {n \in both : old[n].isDir # new[n].isDir \/ old[n].inode # new[n].inode}
    IN  (index \ Pairs(d, old, (DOMAIN old \ both) \cup changed))
          \cup Pairs(d, new, (DOMAIN new \ both) \cup changed)

\* Faulty: the cursor stays where it was among the old rows.
ApplyListingKeepsCursor(d, L) ==
    LET old == cache[d].entries
        new == [n \in DOMAIN L |->
                  IF n \in DOMAIN old THEN Carried(old[n], L[n]) ELSE New(L[n])]
    IN  /\ cache' = [cache EXCEPT ![d] =
                       [state |-> IF @.staleOnLand THEN "Stale" ELSE "Fresh",
                        entries |-> new, staleOnLand |-> FALSE, skipped |-> @.skipped]]
        /\ index' = Reindexed(d, old, new)

ApplyListing(d, L) ==
    LET old == cache[d].entries
        new == [n \in DOMAIN L |->
                  IF n \in DOMAIN old THEN Carried(old[n], L[n]) ELSE New(L[n])]
    IN  /\ cache' = [cache EXCEPT ![d] =
                       [state |-> IF @.staleOnLand THEN "Stale" ELSE "Fresh",
                        entries |-> new, staleOnLand |-> FALSE, skipped |-> {}]]
        /\ index' = Reindexed(d, old, new)

ApplyListFailure(d) ==
    /\ cache' = [cache EXCEPT ![d].state = "Failed", ![d].staleOnLand = FALSE]
    /\ UNCHANGED index

\* The cache with a stat reply; another file's count stays flagged.
WithStat(p, nlink, inode) ==
    LET counted == [cache EXCEPT ![p[1]].entries[p[2]].nlink = nlink,
                                 ![p[1]].entries[p[2]].stale = FALSE]
    IN  IF inode # 0 /\ EntryAt(p).inode # 0 /\ EntryAt(p).inode # inode
        THEN Mark([counted EXCEPT ![p[1]] = Flagged(@, {p[2]})], {p[1]})
        ELSE counted

ApplyStat(p, nlink, inode) ==
    /\ cache' = IF Cached(p) THEN WithStat(p, nlink, inode) ELSE cache
    /\ UNCHANGED index

ApplyStatFailure(p) ==
    /\ cache' = IF Cached(p) THEN WithStat(p, Unavailable, 0) ELSE cache
    /\ UNCHANGED index

-----------------------------------------------------------------------------
(* Invalidation rules.                                                     *)

NoteRenamed(from, to) ==
    /\ cache' = Mark(cache, {from[1], to[1]} \cup Under(from) \cup Under(to))
    /\ UNCHANGED index

NoteLinked(existing, newLink) ==
    /\ cache' = Mark(StaleCountsOf(existing), {existing[1], newLink[1]})
    /\ UNCHANGED index

NoteUnlinked(p) ==
    /\ cache' = Mark(StaleCountsOf(p), {p[1]} \cup Under(p))
    /\ UNCHANGED index

MarkAllStale ==
    /\ cache' = [d \in Dirs |->
                   [Mark(cache, Dirs)[d] EXCEPT
                      !.skipped = {},
                      !.entries = [n \in DOMAIN @ |->
                         [@[n] EXCEPT !.stale = cache[d].entries[n].stale \/
                             (/\ ~cache[d].entries[n].isDir
                              /\ cache[d].entries[n].nlink # Unknown)]]]]
    /\ UNCHANGED index

Clear ==
    /\ cache' = [d \in Dirs |-> NoRecord]
    /\ index' = {}

-----------------------------------------------------------------------------
(* Stat ordering.                                                          *)

Ascending == [n \in Names |-> n]

\* The elements of s at the places I, in their order.
AtPlaces(s) ==
    [I \in SUBSET DOMAIN s |->
       [i \in 1 .. Cardinality(I) |->
          s[CHOOSE j \in I : Cardinality({k \in I : k <= j}) = i]]]

Kept(s, W) == AtPlaces(s)[{j \in DOMAIN s : s[j] \in W}]

FirstOf(s, k) == SubSeq(s, 1, IF k < Len(s) THEN k ELSE Len(s))

\* The rows of d that want a stat and are not in taken.
Wanted(d, taken) ==
    {n \in Rows(d) : NeedsStat(EntryAt(<<d, n>>)) /\ <<d, n>> \notin taken}

\* The rows R of d as paths in the order of s, Unknown counts first.
UnknownFirst(d, s, R) ==
    LET U == {n \in R : EntryAt(<<d, n>>).nlink = Unknown}
        rows == Kept(s, U) \o Kept(s, R \ U)
    IN  [i \in DOMAIN rows |-> <<d, rows[i]>>]

\* Faulty: the cursor passes rows that are merely stale.
PassedStale(d) ==
    {n \in Rows(d) : \A k \in Rows(d) :
       k <= n => EntryAt(<<d, k>>).isDir \/ EntryAt(<<d, k>>).nlink # Unknown}

\* The rows the cursor may pass: what comes before the first that is wanted.
Passed(d) ==
    {n \in Rows(d) : \A k \in Rows(d) :
       k <= n => k \in cache[d].skipped \/ ~NeedsStat(EntryAt(<<d, k>>))}

\* The first k rows of R.
FirstRows(R, k) == {n \in R : Cardinality({m \in R : m <= n}) <= k}

Full(acc, max) == Len(acc.paths) >= max

\* The visible rows of one subscription, all that are Unknown before any that
\* is merely stale.
Priority(acc, sub, exclude, max) ==
    LET visible == UnknownFirst(sub.dir, sub.priority,
                                Wanted(sub.dir, exclude \cup ToSet(acc.paths)))
    IN  [acc EXCEPT !.paths = @ \o FirstOf(visible, max - Len(@))]

\* Faulty: rows just taken for their visibility take up room again.
RestCountsSeen(acc, sub, exclude, max) ==
    LET d == sub.dir
        room == FirstRows(Wanted(d, exclude) \ Passed(d), max - Len(acc.paths))
        rest == {n \in room : <<d, n>> \notin ToSet(acc.paths)}
    IN  [paths |-> acc.paths \o UnknownFirst(d, Ascending, rest),
         walked |-> acc.walked \cup {d}]

\* The rows from the cursor on, as many as there is room for.
Rest(acc, sub, exclude, max) ==
    LET d == sub.dir
        rest == FirstRows(Wanted(d, exclude \cup ToSet(acc.paths)) \ Passed(d),
                          max - Len(acc.paths))
    IN  [paths |-> acc.paths \o UnknownFirst(d, Ascending, rest),
         walked |-> acc.walked \cup {d}]

Progress == [paths : Seq(Paths), walked : SUBSET Dirs]

OneSubscription(sub, exclude, max) ==
    [acc \in Progress |->
       LET p == Priority(acc, sub, exclude, max)
       IN  IF Full(acc, max) \/ Rows(sub.dir) = {} THEN acc
           ELSE IF Full(p, max) THEN p
           ELSE Rest(p, sub, exclude, max)]

WalkAfter(subs, exclude, max) ==
    LET after[k \in 0 .. Len(subs)] ==
          IF k = 0 THEN [paths |-> <<>>, walked |-> {}]
          ELSE OneSubscription(subs[k], exclude, max)[after[k - 1]]
    IN  after

Walk(subs, exclude, max) == WalkAfter(subs, exclude, max)[Len(subs)]

NextStats(subs, exclude, max) ==
    /\ \E walked \in {Walk(subs, exclude, max).walked} :
         cache' = [d \in Dirs |-> IF d \in walked
                                  THEN [cache[d] EXCEPT !.skipped = Passed(d)]
                                  ELSE cache[d]]
    /\ UNCHANGED index

-----------------------------------------------------------------------------
(* Any caller.                                                             *)

Subscription == [dir : Dirs, priority : {<<>>} \cup {<<n>> : n \in Names}
                                          \cup {<<n, k>> : n, k \in Names}]
\* Rows visible in a view are distinct.
Subscriptions ==
    {<<s>> : s \in {u \in Subscription : Len(u.priority) < 2
                                           \/ u.priority[1] # u.priority[2]}}

Next ==
    \/ \E d \in Dirs :
         \/ MarkLoading(d) \/ ApplyListFailure(d)
         \/ \E L \in Listing : ApplyListing(d, L)
    \/ \E p \in Paths :
         \/ ApplyStatFailure(p) \/ NoteUnlinked(p)
         \/ \E k \in 0 .. MaxLinks, i \in Inodes \cup {0} : ApplyStat(p, k, i)
         \/ \E q \in Paths : NoteRenamed(p, q) \/ NoteLinked(p, q)
    \/ MarkAllStale \/ Clear
    \/ \E subs \in Subscriptions, ex \in SUBSET Paths, max \in 1 .. MaxName :
         NextStats(subs, ex, max)

Spec == Init /\ [][Next]_storeVars

-----------------------------------------------------------------------------
(* Properties.                                                             *)

TypeOK ==
    /\ cache \in [Dirs -> Record]
    /\ index \subseteq Inodes \X Paths

\* The index, maintained row by row by applyListing, names exactly the cached
\* files of an inode: an invalidation by inode misses none and hits no other.
IndexExact == index = UNION {Pairs(d, cache[d].entries, Rows(d)) : d \in Dirs}

\* nextStats never skips a row for good: whatever makes a row before the cursor
\* want a stat again sets the cursor back.
CursorSound ==
    \A d \in Dirs : \A n \in cache[d].skipped :
        n \in Rows(d) => ~NeedsStat(EntryAt(<<d, n>>))

\* ShareCacheStore.h, nextStats: at most max paths, each once, that want a stat
\* and are not in flight; fewer than max only when there are no more; visible
\* rows before the rest, and among them Unknown counts before merely stale ones.
StatsAsPromised ==
    \A s \in Subscriptions, ex \in SUBSET Paths, max \in 1 .. MaxName :
        LET d == s[1].dir
            out == Walk(s, ex, max).paths
            wanted == {p \in Paths : /\ p[1] = d /\ p \notin ex
                                     /\ Cached(p) /\ NeedsStat(EntryAt(p))}
            visible == {<<d, n>> : n \in ToSet(s[1].priority)}
        IN  /\ Len(out) <= max /\ IsInjective(out)
            /\ ToSet(out) \subseteq wanted
            /\ Len(out) < max => ToSet(out) = wanted
            /\ \A p \in (visible \cap wanted) \ ToSet(out), q \in ToSet(out) :
                 /\ q \in visible
                 /\ EntryAt(p).nlink = Unknown => EntryAt(q).nlink = Unknown
=============================================================================
