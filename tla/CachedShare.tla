----------------------------- MODULE CachedShare -----------------------------
(***************************************************************************)
(* ShareCacheStore between a share and the facade the store is written for *)
(* (docs/master-plan.md; not in the source yet): one listing in flight per *)
(* directory, stats by nextStats with the paths in flight excluded, each   *)
(* mutation noted when its completion arrives.  The share and the facade   *)
(* are external; every step of the store is one of its operations.         *)
(*                                                                         *)
(* The server performs a request between the call and the reply, so what a *)
(* reply says may be older than a mutation noted before it lands.          *)
(***************************************************************************)
EXTENDS ShareCacheStore, FiniteSets

CONSTANTS
    StartShare,   \* the inode at each path at first, 0 for none
    DirInodes,    \* those of directories
    Browsed,      \* the directories that somebody asks the cache for
    Subs,         \* the subscriptions of the views
    Window,       \* stats in flight at most
    MaxChanges    \* bound on mutations, refreshes and disconnections together

\* What is there is in directories that are there, directories at paths that
\* name one.
ASSUME StartAssumption ==
    /\ DirInodes \subseteq Inodes /\ StartShare \in [Paths -> Inodes \cup {0}]
    /\ \A p \in Paths :
         /\ StartShare[p] # 0 => \A q \in Above[p[1]] : StartShare[q] \in DirInodes
         /\ StartShare[p] \in DirInodes => \E d \in Dirs : p \in Above[d]
\* The paths above a directory are a line, of any length: what is above one of
\* them is above the directory, none is above itself, and of two of them one is
\* above the other.
ASSUME TreeAssumption ==
    \A d \in Dirs : \A p, q \in Above[d] :
        /\ Above[p[1]] \subseteq Above[d] /\ p \notin Above[p[1]]
        /\ p = q \/ p \in Above[q[1]] \/ q \in Above[p[1]]
ASSUME BoundsAssumption ==
    /\ Window \in Nat \ {0} /\ MaxChanges \in Nat
    /\ IsFiniteSet(Dirs) /\ Cardinality(Paths) <= MaxLinks
ASSUME SubsAssumption == Subs \in Seq([dir : Dirs, priority : Seq(Names)])
ASSUME BrowsedAssumption ==
    /\ Browsed \subseteq Dirs
    /\ \A k \in DOMAIN Subs : Subs[k].dir \in Browsed

VARIABLES
    at,        \* the share: the inode at each path
    listing,   \* per directory: no request, an unanswered one, or the reply
    stats,     \* the same per path
    mutation,  \* the mutation performed and not yet noted
    exposed,   \* history: inodes a mutation of which overlapped another
               \* request or was made through a path the cache did not know
    changes    \* how many of MaxChanges were used

worldVars == <<at, listing, stats, mutation, exposed, changes>>
vars == <<storeVars, worldVars>>

None == [kind |-> "none"]
Asked == [kind |-> "asked"]
Error == [kind |-> "error"]

WorldInit ==
    /\ Init
    /\ at = StartShare
    /\ listing = [d \in Dirs |-> None]
    /\ stats = [p \in Paths |-> None]
    /\ mutation = None
    /\ exposed = {}
    /\ changes = 0

Links(i) == Cardinality({p \in Paths : at[p] = i})
InFlight == {p \in Paths : stats[p] # None}

IsDir(p) == at[p] \in DirInodes
Exists(d) == \A p \in Above[d] : IsDir(p)

Content(d) ==
    [n \in {k \in Names : at[<<d, k>>] # 0} |->
       [isDir |-> IsDir(<<d, n>>), inode |-> at[<<d, n>>]]]

\* A request made before a mutation is noted overlaps it.
Ask == exposed' = exposed \cup (IF mutation = None THEN {} ELSE {mutation.inode})

Change == changes < MaxChanges /\ changes' = changes + 1

-----------------------------------------------------------------------------
(* Listings and stats.                                                     *)

\* ensure(dir), and the re-fetch of a directory that is Stale.
Fetch(d) ==
    /\ d \in Browsed /\ Ask /\ listing[d] = None
    /\ cache[d].state \in {"Missing", "Stale"}
    /\ MarkLoading(d)
    /\ listing' = [listing EXCEPT ![d] = Asked]
    /\ UNCHANGED <<at, stats, mutation, changes>>

\* refresh(dir), whatever its state.
Refresh(d) ==
    /\ Change
    /\ d \in Browsed /\ Ask /\ listing[d] = None
    /\ MarkLoading(d)
    /\ listing' = [listing EXCEPT ![d] = Asked]
    /\ UNCHANGED <<at, stats, mutation>>

ServerLists(d) ==
    /\ listing[d] = Asked /\ Exists(d)
    /\ listing' = [listing EXCEPT ![d] = [kind |-> "listed", content |-> Content(d)]]
    /\ UNCHANGED <<storeVars, at, stats, mutation, exposed, changes>>

Refused(d) ==
    /\ listing[d] = Asked
    /\ listing' = [listing EXCEPT ![d] = Error]
    /\ UNCHANGED <<storeVars, at, stats, mutation, exposed>>

ServerRefusesList(d) == Change /\ Refused(d)
ServerFindsNone(d) == ~Exists(d) /\ UNCHANGED changes /\ Refused(d)

ListingLands(d) ==
    /\ listing[d].kind = "listed"
    /\ ApplyListing(d, listing[d].content)
    /\ listing' = [listing EXCEPT ![d] = None]
    /\ UNCHANGED <<at, stats, mutation, exposed, changes>>

ListFailureLands(d) ==
    /\ listing[d] = Error
    /\ ApplyListFailure(d)
    /\ listing' = [listing EXCEPT ![d] = None]
    /\ UNCHANGED <<at, stats, mutation, exposed, changes>>

Room == Window - Cardinality(InFlight)

Pump ==
    /\ Ask
    /\ Room > 0
    /\ \E out \in {ToSet(Walk(Subs, InFlight, Room).paths)} :
         /\ out # {}
         /\ stats' = [p \in Paths |-> IF p \in out THEN Asked ELSE stats[p]]
    /\ NextStats(Subs, InFlight, Room)
    /\ UNCHANGED <<at, listing, mutation, changes>>

ServerStats(p) ==
    /\ stats[p] = Asked
    /\ stats' = [stats EXCEPT ![p] =
                   IF at[p] = 0 THEN Error
                   ELSE [kind |-> "stat", nlink |-> Links(at[p]), inode |-> at[p]]]
    /\ UNCHANGED <<storeVars, at, listing, mutation, exposed, changes>>

StatLands(p) ==
    /\ stats[p].kind = "stat"
    /\ ApplyStat(p, stats[p].nlink, stats[p].inode)
    /\ stats' = [stats EXCEPT ![p] = None]
    /\ UNCHANGED <<at, listing, mutation, exposed, changes>>

StatFailureLands(p) ==
    /\ stats[p] = Error
    /\ ApplyStatFailure(p)
    /\ stats' = [stats EXCEPT ![p] = None]
    /\ UNCHANGED <<at, listing, mutation, exposed, changes>>

-----------------------------------------------------------------------------
(* Mutations.                                                              *)

Knows(p) == Cached(p) /\ EntryAt(p).inode = at[p]

Mutable(p) == Change /\ mutation = None /\ at[p] # 0
Free(q) == at[q] = 0 /\ Exists(q[1])

\* The link count of the file changes.
Recounted(p) ==
    exposed' = exposed \cup
        IF Knows(p) /\ InFlight = {} /\ \A d \in Dirs : listing[d] = None
        THEN {} ELSE {at[p]}

Named(p) == {d \in Dirs : p \in Above[d]}

\* The exchange of what is in and below p with what is below q, name by name.
\* There is one at most, and none if a directory below one has no counterpart.
Exchanges(p, q) ==
    LET moved == Named(p) \cup Named(q)
    IN  {m \in [Dirs -> Dirs] :
           \A d \in Dirs :
             /\ m[m[d]] = d
             /\ IF d \in moved THEN d \in Named(p) <=> m[d] \in Named(q) ELSE m[d] = d
             /\ \A r \in Above[d] : r[1] \in moved => <<m[r[1]], r[2]>> \in Above[m[d]]}

\* A directory takes along all that is below it, to paths at which, as q is
\* free, there is nothing.
Rename(p, q) ==
    /\ Mutable(p) /\ Free(q) /\ (IsDir(p) => p \notin Above[q[1]])
    /\ \E m \in IF IsDir(p) THEN Exchanges(p, q) ELSE {[d \in Dirs |-> d]} :
         at' = [r \in Paths |->
                  CASE r = p -> 0
                    [] r = q -> at[p]
                    [] OTHER -> at[<<m[r[1]], r[2]>>]]
    /\ mutation' = [kind |-> "renamed", path |-> p, other |-> q, inode |-> 0]
    /\ UNCHANGED <<storeVars, listing, stats, exposed>>

Link(p, q) ==
    /\ Mutable(p) /\ Free(q) /\ ~IsDir(p) /\ Recounted(p)
    /\ at' = [at EXCEPT ![q] = at[p]]
    /\ mutation' = [kind |-> "linked", path |-> p, other |-> q, inode |-> at[p]]
    /\ UNCHANGED <<storeVars, listing, stats>>

Unlink(p) ==
    /\ Mutable(p) /\ ~IsDir(p) /\ Recounted(p)
    /\ at' = [at EXCEPT ![p] = 0]
    /\ mutation' = [kind |-> "unlinked", path |-> p, other |-> p, inode |-> at[p]]
    /\ UNCHANGED <<storeVars, listing, stats>>

Note ==
    /\ \/ mutation.kind = "renamed" /\ NoteRenamed(mutation.path, mutation.other)
       \/ mutation.kind = "linked" /\ NoteLinked(mutation.path, mutation.other)
       \/ mutation.kind = "unlinked" /\ NoteUnlinked(mutation.path)
    /\ mutation' = None
    /\ UNCHANGED <<at, listing, stats, exposed, changes>>

\* linkRunFinished until every mutation is noted, and the user's refresh.
RefreshAll ==
    /\ Change
    /\ MarkAllStale
    /\ UNCHANGED <<at, listing, stats, mutation, exposed>>

\* The session leaves Connected: replies still to come are dropped.
Disconnected ==
    /\ Change
    /\ mutation = None
    /\ Clear
    /\ listing' = [d \in Dirs |-> None]
    /\ stats' = [p \in Paths |-> None]
    /\ UNCHANGED <<at, mutation, exposed>>

WorldNext ==
    \/ \E d \in Dirs :
         \/ Fetch(d) \/ Refresh(d)
         \/ ServerLists(d) \/ ServerRefusesList(d) \/ ServerFindsNone(d)
         \/ ListingLands(d) \/ ListFailureLands(d)
    \/ \E p \in Paths :
         \/ ServerStats(p) \/ StatLands(p) \/ StatFailureLands(p)
         \/ Unlink(p)
         \/ \E q \in Paths : Rename(p, q) \/ Link(p, q)
    \/ Pump \/ Note \/ RefreshAll \/ Disconnected

\* The facade fetches what is Missing or Stale and pumps, the server answers,
\* replies land and completions are noted; neither kind of request waits for
\* ever behind the other.
ListingSteps ==
    \E d \in Dirs : \/ Fetch(d) \/ ServerLists(d) \/ ServerFindsNone(d)
                   \/ ListingLands(d) \/ ListFailureLands(d)
StatSteps ==
    Pump \/ \E p \in Paths : ServerStats(p) \/ StatLands(p) \/ StatFailureLands(p)

WorldFairness == WF_vars(ListingSteps) /\ WF_vars(StatSteps) /\ WF_vars(Note)

WorldSpec == WorldInit /\ [][WorldNext]_vars
FairWorldSpec == WorldSpec /\ WorldFairness

-----------------------------------------------------------------------------
(* Properties.                                                             *)

Listed(d) == [n \in Rows(d) |-> [isDir |-> EntryAt(<<d, n>>).isDir,
                                 inode |-> EntryAt(<<d, n>>).inode]]

\* A Fresh directory is what the share holds, once every mutation performed is
\* noted: a listing that may be older than a mutation never lands as Fresh.
FreshIsTrue ==
    mutation = None =>
        \A d \in Dirs : cache[d].state = "Fresh" => Listed(d) = Content(d)

CountTrue(p) ==
    LET e == EntryAt(p) IN e.nlink >= 0 /\ ~e.stale => e.nlink = Links(e.inode)

\* A count served as current is the number of names the file has, in whatever
\* directories, unless a mutation of it overlapped another request or was made
\* through a path the cache did not know.
CountsAreTrue ==
    mutation = None =>
        \A p \in Paths : Cached(p) => EntryAt(p).inode \in exposed \/ CountTrue(p)

\* docs/decisions/0005, without that restriction: every mutation "invalidates
\* ... the link count of every cached path sharing either inode".
EveryMutationInvalidates ==
    mutation = None => \A p \in Paths : Cached(p) => CountTrue(p)

\* What the views are shown is what the share holds.
Settled ==
    \A k \in DOMAIN Subs :
        LET d == Subs[k].dir
        IN  \/ cache[d].state = "Failed"
            \/ /\ cache[d].state = "Fresh" /\ Listed(d) = Content(d)
               /\ \A n \in Rows(d) :
                    LET e == EntryAt(<<d, n>>)
                    IN  \/ e.isDir \/ e.inode \in exposed \/ e.nlink = Unavailable
                        \/ e.nlink = Links(e.inode) /\ ~e.stale

\* The cache catches up with the share for whoever watches: once the changes
\* stop, each subscribed directory is Fresh, or Failed and left alone, and in a
\* Fresh one every count is there and current, or its stat failed.
CatchesUp == <>[]Settled

\* The store asks for all it needs: with nothing in flight, no directory to
\* fetch and nothing that nextStats would name, that is already so.
Idle ==
    /\ mutation = None /\ InFlight = {} /\ \A d \in Dirs : listing[d] = None
    /\ \A k \in DOMAIN Subs : cache[Subs[k].dir].state \notin {"Missing", "Stale"}
    /\ Walk(Subs, {}, Window).paths = <<>>
IdleIsSettled == Idle => Settled
=============================================================================
