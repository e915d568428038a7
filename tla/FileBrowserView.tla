--------------------------- MODULE FileBrowserView ---------------------------
(***************************************************************************)
(* ui/FileBrowserView: one view of the share.  It shows the last listing   *)
(* it asked for and fills in the link counts of the files with a bounded   *)
(* number of stats in flight.                                              *)
(*                                                                         *)
(* Replies are broadcast by path to every consumer of the session: a reply *)
(* may answer an earlier request of this view, or one of the other view,   *)
(* of the search panel or of the validation (Other...).  Which rows are    *)
(* visible is up to the user; any rows may be.  A row is the name of an    *)
(* entry: a listing has no name twice.  Rows of directories are left out:  *)
(* they have no count to fill in.                                          *)
(***************************************************************************)
EXTENDS Integers, FiniteSets, Sequences, SequencesExt

CONSTANTS
    Dirs, Root,         \* the directories
    Files,              \* the names of the files in them
    MaxStatsInFlight,   \* kMaxStatsInFlight
    MaxNavs, MaxOthers  \* bounds of the instance

ASSUME RootAssumption == Root \in Dirs
ASSUME NamesAssumption == "none" \notin Files \cup Dirs
ASSUME FilesAssumption == IsFiniteSet(Files)
ASSUME BoundsAssumption ==
    MaxStatsInFlight \in Nat \ {0} /\ MaxNavs \in Nat /\ MaxOthers \in Nat

VARIABLES
    currentPath, pendingPath, pendingReveal,
    selected,       \* the row the view last selected by itself
    nlink,          \* the link counts of the files shown, by name
    statOrder, statCursor, statRequested, statInFlight,
    pumping,        \* inside pumpStats
    wire,           \* this view's requests that have no reply yet
    \* What the properties need to remember:
    navs,           \* number of listings asked for
    asked,          \* the path of the last of them
    failed,         \* and whether its answer was a failure
    wanted,         \* what was last asked to be revealed: path and name
    shown,          \* number of listings shown
    others          \* counted against the bound

stats == <<statOrder, statCursor, statRequested, statInFlight>>
history == <<navs, asked, failed, wanted, shown, others>>
vars == <<currentPath, pendingPath, pendingReveal, selected, nlink, stats,
          pumping, wire, history>>

None == "none"
Unknown == [state |-> "unknown", of |-> 0]

ListOf(d, k) == [kind |-> "list", dir |-> d, name |-> None, of |-> k]
StatOf(d, n, k) == [kind |-> "stat", dir |-> d, name |-> n, of |-> k]

\* The window opens a view and has it list the root.
Init ==
    /\ currentPath = None /\ pendingPath = Root /\ pendingReveal = None
    /\ selected = None /\ nlink = <<>>
    /\ statOrder = <<>> /\ statCursor = 1 /\ statRequested = {} /\ statInFlight = {}
    /\ pumping = FALSE
    /\ wire = {ListOf(Root, 1)}
    /\ navs = 1 /\ asked = Root /\ failed = FALSE /\ wanted = <<None, None>>
    /\ shown = 0 /\ others = 0

-----------------------------------------------------------------------------
(* FileListModel.                                                          *)

SetEntries(N) == nlink' = [n \in N |-> Unknown]

\* Nothing happens for a row the model does not have.
SetNlink(n, count) == nlink' = [nlink EXCEPT ![n] = count]

-----------------------------------------------------------------------------
(* Navigation.                                                             *)

\* Faulty: the listing that is shown already is not asked for.
ListDirectoryIfNew(d) ==
    /\ pendingPath' = d /\ failed' = FALSE
    /\ wire' = IF d = currentPath THEN wire ELSE wire \cup {ListOf(d, navs + 1)}

\* listDirectory asks the server, or fails before it returns: then
\* onDirectoryListFailed has cleared what is pending.
ListDirectory(d) ==
    \/ /\ pendingPath' = d /\ failed' = FALSE
       /\ wire' = wire \cup {ListOf(d, navs + 1)}
    \/ /\ pendingPath' = None /\ failed' = TRUE
       /\ UNCHANGED wire

\* navigateTo, up to what is to be revealed afterwards.
Ask(d) ==
    /\ navs < MaxNavs /\ ~pumping
    /\ navs' = navs + 1 /\ asked' = d
    /\ ListDirectory(d)
    /\ UNCHANGED <<currentPath, selected, nlink, stats, pumping, shown, others>>

\* Faulty: a selection for an earlier listing is kept.
NavigateKeepsReveal(d) ==
    /\ Ask(d)
    /\ wanted' = <<None, None>>
    /\ UNCHANGED pendingReveal

\* The path box, the Up button or a double click.
NavigateTo(d) ==
    /\ Ask(d)
    /\ pendingReveal' = None
    /\ wanted' = <<None, None>>

Refresh == currentPath # None /\ NavigateTo(currentPath)

Select(n) == selected' = IF n \in DOMAIN nlink THEN n ELSE selected

NavigateToAndReveal(d, n) ==
    /\ ~pumping
    /\ wanted' = <<d, n>>
    /\ \/ /\ d = currentPath /\ pendingPath = None
          /\ Select(n)
          /\ UNCHANGED <<currentPath, pendingPath, pendingReveal, nlink, stats,
                         pumping, wire, navs, asked, failed, shown, others>>
       \/ /\ ~(d = currentPath /\ pendingPath = None)
          /\ Ask(d)
          /\ pendingReveal' = n

\* Faulty: any listing is shown.
ShowAny(d, N) ==
    /\ pendingPath' = None /\ currentPath' = d /\ shown' = shown + 1
    /\ SetEntries(N)
    /\ statOrder' \in SetToSeqs(N)
    /\ statCursor' = 1 /\ statRequested' = {} /\ statInFlight' = {}
    /\ pumping' = TRUE
    /\ pendingReveal' = None
    /\ selected' = IF pendingReveal \in N THEN pendingReveal ELSE None

\* Faulty: the rows asked for in the last listing still count as asked for.
ShowKeepsRequested(d, N) ==
    /\ d = pendingPath
    /\ pendingPath' = None /\ currentPath' = d /\ shown' = shown + 1
    /\ SetEntries(N)
    /\ statOrder' \in SetToSeqs(N)
    /\ statCursor' = 1 /\ statInFlight' = {}
    /\ pumping' = TRUE
    /\ pendingReveal' = None
    /\ selected' = IF pendingReveal \in N THEN pendingReveal ELSE None
    /\ UNCHANGED statRequested

\* onDirectoryListed for the path that is pending, with resetStatQueue.
Show(d, N) ==
    /\ d = pendingPath
    /\ pendingPath' = None /\ currentPath' = d /\ shown' = shown + 1
    /\ SetEntries(N)
    /\ statOrder' \in SetToSeqs(N)
    /\ statCursor' = 1 /\ statRequested' = {} /\ statInFlight' = {}
    /\ pumping' = TRUE
    /\ pendingReveal' = None
    /\ selected' = IF pendingReveal \in N THEN pendingReveal ELSE None

OnDirectoryListed(d, N) ==
    /\ \/ Show(d, N)
       \/ /\ d # pendingPath
          /\ UNCHANGED <<currentPath, pendingPath, pendingReveal, selected, nlink,
                         stats, pumping, shown>>
    /\ UNCHANGED <<navs, asked, failed, wanted>>

OnDirectoryListFailed(d) ==
    /\ \/ /\ d = pendingPath
          /\ pendingPath' = None /\ pendingReveal' = None /\ failed' = TRUE
       \/ /\ d # pendingPath
          /\ UNCHANGED <<pendingPath, pendingReveal, failed>>
    /\ UNCHANGED <<currentPath, selected, nlink, stats, pumping, navs, asked,
                   wanted, shown>>

-----------------------------------------------------------------------------
(* Link counts.                                                            *)

SlotFree == Cardinality(statInFlight) < MaxStatsInFlight

\* The rows of statOrder from the cursor on that have not been asked for.
Ahead == {k \in statCursor .. Len(statOrder) : statOrder[k] \notin statRequested}

\* nextStatRow: a row that is visible, or else the first from the cursor on.
NextStatRow(n) ==
    \/ /\ n \in DOMAIN nlink /\ nlink[n] = Unknown /\ n \notin statRequested
       /\ UNCHANGED statCursor
    \/ \E k \in Ahead : /\ \A l \in Ahead : k <= l
                        /\ statOrder[k] = n /\ statCursor' = k

PumpNext ==
    /\ pumping /\ SlotFree
    /\ \E n \in Files :
         /\ NextStatRow(n)
         /\ statRequested' = statRequested \cup {n}
         /\ statInFlight' = statInFlight \cup {n}
         /\ wire' = wire \cup {StatOf(currentPath, n, shown)}
    /\ UNCHANGED <<currentPath, pendingPath, pendingReveal, selected, nlink,
                   statOrder, pumping, history>>

\* statFile fails before it returns.  onStatFailed calls pumpStats inside the
\* loop: it goes on where the loop would, and the loop then finds it all done.
PumpNextFails ==
    /\ pumping /\ SlotFree
    /\ \E n \in Files :
         /\ NextStatRow(n)
         /\ statRequested' = statRequested \cup {n}
         /\ SetNlink(n, [state |-> "unavailable", of |-> shown])
    /\ UNCHANGED <<currentPath, pendingPath, pendingReveal, selected,
                   statInFlight, statOrder, pumping, wire, history>>

PumpEnds ==
    /\ pumping /\ pumping' = FALSE
    /\ \/ ~SlotFree /\ UNCHANGED statCursor
       \/ SlotFree /\ Ahead = {} /\ statCursor' = Len(statOrder) + 1
    /\ UNCHANGED <<currentPath, pendingPath, pendingReveal, selected, nlink,
                   statOrder, statRequested, statInFlight, wire, history>>

\* Scrolling, filtering or sorting changes which rows are visible.  It happens
\* between events only: nothing that pumpStats calls moves the scroll bar.
Scroll ==
    /\ ~pumping /\ pumping' = TRUE
    /\ UNCHANGED <<currentPath, pendingPath, pendingReveal, selected, nlink,
                   stats, wire, history>>

\* Faulty: the slot is not used again.
OnStatReplyOnly(d, n, k, state) ==
    /\ \/ /\ d = currentPath /\ n \in statInFlight
          /\ statInFlight' = statInFlight \ {n}
          /\ SetNlink(n, [state |-> state, of |-> k])
       \/ /\ ~(d = currentPath /\ n \in statInFlight)
          /\ UNCHANGED <<statInFlight, nlink>>
    /\ UNCHANGED <<currentPath, pendingPath, pendingReveal, selected, pumping,
                   statOrder, statCursor, statRequested, navs, asked, failed,
                   wanted, shown>>

\* onFileStatted and onStatFailed; k is the listing the stat was asked for in.
OnStatReply(d, n, k, state) ==
    /\ \/ /\ d = currentPath /\ n \in statInFlight
          /\ statInFlight' = statInFlight \ {n}
          /\ SetNlink(n, [state |-> state, of |-> k])
          /\ pumping' = TRUE
       \/ /\ ~(d = currentPath /\ n \in statInFlight)
          /\ UNCHANGED <<statInFlight, nlink, pumping>>
    /\ UNCHANGED <<currentPath, pendingPath, pendingReveal, selected,
                   statOrder, statCursor, statRequested, navs, asked, failed,
                   wanted, shown>>

-----------------------------------------------------------------------------
(* The session and its other consumers.                                    *)

Reply(r) ==
    /\ ~pumping
    /\ wire' = wire \ {r}
    /\ \/ /\ r.kind = "list"
          /\ \/ \E N \in SUBSET Files : OnDirectoryListed(r.dir, N)
             \/ OnDirectoryListFailed(r.dir)
       \/ /\ r.kind = "stat"
          /\ \E state \in {"counted", "unavailable"} :
               OnStatReply(r.dir, r.name, r.of, state)
    /\ UNCHANGED others

OtherReply ==
    /\ ~pumping /\ others < MaxOthers /\ others' = others + 1
    /\ \/ \E d \in Dirs, N \in SUBSET Files : OnDirectoryListed(d, N)
       \/ \E d \in Dirs : OnDirectoryListFailed(d)
       \/ \E d \in Dirs, n \in Files, state \in {"counted", "unavailable"} :
            OnStatReply(d, n, shown, state)
    /\ UNCHANGED wire

-----------------------------------------------------------------------------

Pump == PumpNext \/ PumpNextFails \/ PumpEnds

Next ==
    \/ \E d \in Dirs : NavigateTo(d) \/ \E n \in Files : NavigateToAndReveal(d, n)
    \/ Refresh
    \/ Pump
    \/ Scroll
    \/ \E r \in wire : Reply(r)
    \/ OtherReply

Spec == Init /\ [][Next]_vars

\* pumpStats runs to its end, the server answers every request, and the event
\* loop delivers the answers however much the user scrolls.
FairSpec == Spec /\ WF_vars(Pump) /\ SF_vars(\E r \in wire : Reply(r))

-----------------------------------------------------------------------------
(* Properties.                                                             *)

\* What may be asked when l listings were asked for and s shown.
Requests(l, s) ==
    {ListOf(d, k) : d \in Dirs, k \in 1 .. l}
    \cup {StatOf(d, n, k) : d \in Dirs, n \in Files, k \in 1 .. s}

\* With the bound on the stats in flight.
TypeOK ==
    /\ currentPath \in Dirs \cup {None} /\ pendingPath \in Dirs \cup {None}
    /\ pendingReveal \in Files \cup {None} /\ selected \in Files \cup {None}
    /\ DOMAIN nlink \subseteq Files
    /\ nlink \in [DOMAIN nlink -> [state : {"unknown", "counted", "unavailable"}, of : 0 .. shown]]
    /\ statOrder \in Seq(Files) /\ statCursor \in 1 .. Len(statOrder) + 1
    /\ statRequested \subseteq Files
    /\ statInFlight \subseteq statRequested
    /\ Cardinality(statInFlight) <= MaxStatsInFlight
    /\ pumping \in BOOLEAN
    /\ navs \in Nat /\ shown \in Nat
    /\ wire \subseteq Requests(navs, shown)

\* A file of the listing is waiting to be asked for, waiting for its answer,
\* or has its count, whatever older or other replies came in between.
EveryRowAccounted ==
    \A n \in DOMAIN nlink :
        /\ n \in ToSet(statOrder)
        /\ nlink[n] = Unknown => (n \in statRequested <=> n \in statInFlight)
        /\ nlink[n] # Unknown => n \in statRequested \ statInFlight

\* The view never waits for what does not come: the pending listing and every
\* stat in flight is with the server, asked for by this view, and once
\* pumpStats has ended rows are unasked for only because every slot is taken.
NeverStranded ==
    /\ pendingPath # None => \E r \in wire : r.kind = "list" /\ r.dir = pendingPath
    /\ \A n \in statInFlight : StatOf(currentPath, n, shown) \in wire
    /\ (~pumping /\ SlotFree) => DOMAIN nlink \subseteq statRequested

\* Listings land in any order, also those of earlier requests and of other
\* consumers: the view comes to show the last path asked for, unless listing
\* that path failed.
LastRequestWins ==
    IF pendingPath = None THEN failed \/ currentPath = asked ELSE pendingPath = asked

\* The view selects a row only as it was last asked to reveal it, in the
\* folder it was asked for.
RevealsOnlyAsAsked ==
    [][(selected' # selected /\ selected' # None) => wanted' = <<currentPath', selected'>>]_vars

Settled ==
    pendingPath = None /\ \A n \in DOMAIN nlink : nlink[n] # Unknown

\* When the user leaves it alone the view settles with every count filled in.
FillsIn == <>[]Settled

\* FileBrowserView.h: replies for an old listing "miss m_statInFlight and are
\* dropped", so that every count shown was asked for after its listing.
OldStatsDropped == \A n \in DOMAIN nlink : nlink[n].of \in {0, shown}
=============================================================================
