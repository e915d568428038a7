---------------------------- MODULE MatchSearcher ----------------------------
(***************************************************************************)
(* core/MatchSearcher: lists two folder trees of the share, a few          *)
(* directories at a time, and hands the files it gathered to the pairing.  *)
(*                                                                         *)
(* Its slots and its signals are ordinary calls: listDirectory may fail    *)
(* before it returns, and a handler of progress, finished or failed may    *)
(* cancel or start a search.  calls is the stack of what is under way, the *)
(* innermost first: "pump" (the loop of pumpListings), "progress" (a       *)
(* handler of progress, after which pumpListings is called) and "end" (a   *)
(* handler of finished or failed).                                         *)
(*                                                                         *)
(* External: the session's listings (asked by anyone, answered to all by   *)
(* path), the share, and the owner, who drops the searcher on a            *)
(* disconnection.  A path is the sequence of its names.                    *)
(***************************************************************************)
EXTENDS Integers, FiniteSets, Sequences, SequencesExt

CONSTANTS
    Objects,           \* what may be on the share: [dir, name, isDir, size]
    Shares,            \* what may be there at first
    Changing,          \* what may come and go
    Options,           \* the searches a user may ask for: [primary,
                       \* secondary, recursive, sizeMinBytes]
    Shown,             \* the directories the other consumers list
    TmpNames,          \* names that end in .smbmgr-tmp
    MaxListsInFlight,  \* kMaxListsInFlight
    MaxStarts,         \* bound on the searches
    MaxOutside         \* bound on changes and others' listings together

ASSUME MaxListsInFlightAssumption == MaxListsInFlight \in Nat \ {0}
ASSUME BoundsAssumption == {MaxStarts, MaxOutside} \subseteq Nat

VARIABLES
    options, running, inPump, visited, queue, inFlight, files,
    foldersListed, folderErrors,
    calls,    \* see above
    wire,     \* the listings asked of the session and not yet answered
    share,    \* the objects that are there
    \* What the properties need to remember:
    starts,   \* number of searches started; the number of the current one
    open,     \* starts not yet answered by finished or failed
    asked,    \* the directories this search asked for
    answers,  \* the answers this search accepted
    signal,   \* what the last step signalled
    outside   \* how many of MaxOutside were used

traversal == <<visited, queue, inFlight, files, foldersListed, folderErrors>>
history == <<starts, open, asked, answers>>
world == <<share, outside>>
vars == <<options, running, inPump, traversal, calls, wire, history, signal, world>>

Sides == {"primary", "secondary"}
PathOf(o) == Append(o.dir, o.name)
Folders == {PathOf(o) : o \in {q \in Objects : q.isDir}}
             \cup UNION {{o.primary, o.secondary} : o \in Options}
Paths == Folders \cup {PathOf(o) : o \in Objects}

ASSUME ObjectsAssumption ==
    IsFiniteSet(Objects) /\ \A o \in Objects : o.isDir \in BOOLEAN /\ o.size \in Nat
ASSUME PathsAssumption == \A d \in Folders : d \in Seq(ToSet(d))
ASSUME WorldAssumption ==
    Shares \subseteq SUBSET Objects /\ Changing \subseteq Objects /\ Shown \subseteq Folders

\* owner: the search that asked, 0 for any other consumer of the session.
Requests == [path : Folders, owner : 0 .. MaxStarts,
             state : {"Sent", "Listed", "Failed"}, entries : SUBSET Objects]

NoSignal == [kind |-> "none"]

Init ==
    /\ options \in Options
    /\ running = FALSE /\ inPump = FALSE
    /\ visited = {} /\ queue = <<>> /\ inFlight = {} /\ files = {}
    /\ foldersListed = 0 /\ folderErrors = 0
    /\ calls = <<>> /\ wire = {}
    /\ share \in Shares
    /\ starts = 0 /\ open = 0 /\ asked = {} /\ answers = {}
    /\ signal = NoSignal
    /\ outside = 0

-----------------------------------------------------------------------------
(* Helpers.                                                                *)

Under(path, root) == IsStrictPrefix(root, path)

\* Faulty: both sides include subfolders.
SidesOfAll(d) ==
    {s \in Sides : d = options[s] \/ Under(d, options[s])}

\* sideMaskOf
SidesOf(d) ==
    {s \in Sides : d = options[s] \/ (s \in options.recursive /\ Under(d, options[s]))}

\* The innermost call; "loop" is the event loop.
Top == IF calls = <<>> THEN "loop" ELSE Head(calls)

\* pumpListings is called, with c under way.
Pump(c) ==
    \/ inPump /\ calls' = c /\ UNCHANGED inPump
    \/ ~inPump /\ calls' = <<"pump">> \o c /\ inPump' = TRUE

ResetState ==
    /\ visited' = {} /\ queue' = <<>> /\ inFlight' = {} /\ files' = {}
    /\ foldersListed' = 0 /\ folderErrors' = 0

Progress(c) ==
    /\ calls' = <<"progress">> \o c
    /\ signal' = [kind |-> "progress", listed |-> foldersListed',
                  pending |-> Len(queue') + Cardinality(inFlight')]

\* Faulty: the search is still on when finished goes out.
EndRunning(kind, c) ==
    /\ running' = running /\ open' = open - 1
    /\ ResetState
    /\ calls' = <<"end">> \o c
    /\ signal' = [kind |-> kind, files |-> files, errors |-> folderErrors]

\* The search is over: everything is reset before the signal goes out.
End(kind, c) ==
    /\ running' = FALSE /\ open' = open - 1
    /\ ResetState
    /\ calls' = <<"end">> \o c
    /\ signal' = [kind |-> kind, files |-> files, errors |-> folderErrors]

-----------------------------------------------------------------------------
(* The user's requests.                                                    *)

Start(o) ==
    /\ Top # "pump" /\ ~running /\ starts < MaxStarts
    /\ options' = o /\ running' = TRUE
    /\ visited' = {o.primary, o.secondary}
    /\ queue' = IF o.primary = o.secondary THEN <<o.primary>>
                                           ELSE <<o.primary, o.secondary>>
    /\ inFlight' = {} /\ files' = {} /\ foldersListed' = 0 /\ folderErrors' = 0
    /\ Pump(calls)
    /\ starts' = starts + 1 /\ open' = open + 1 /\ asked' = {} /\ answers' = {}
    /\ signal' = NoSignal
    /\ UNCHANGED <<wire, world>>

Cancel ==
    /\ Top # "pump" /\ running
    /\ End("cancelled", calls)
    /\ UNCHANGED <<options, inPump, wire, starts, asked, answers, world>>

-----------------------------------------------------------------------------
(* Listings.                                                               *)

\* Faulty: the error is counted, the directory stays in flight.
FailureKeepsSlot(d, owner, c) ==
    /\ running /\ d \in inFlight
    /\ d \notin {options.primary, options.secondary}
    /\ folderErrors' = folderErrors + 1
    /\ answers' = answers \cup {[path |-> d, owner |-> owner, ok |-> FALSE, entries |-> {}]}
    /\ UNCHANGED <<running, visited, queue, inFlight, files, foldersListed, open>>
    /\ Progress(c)

\* onDirectoryListFailed, with c under way.
OnDirectoryListFailed(d, owner, c) ==
    /\ running /\ d \in inFlight
    /\ answers' = answers \cup {[path |-> d, owner |-> owner, ok |-> FALSE, entries |-> {}]}
    /\ \/ /\ d \in {options.primary, options.secondary}
          /\ End("failed", c)
       \/ /\ d \notin {options.primary, options.secondary}
          /\ inFlight' = inFlight \ {d}
          /\ folderErrors' = folderErrors + 1
          /\ UNCHANGED <<running, visited, queue, files, foldersListed, open>>
          /\ Progress(c)

\* The directories a listing adds.
FoundDirs(d, E) ==
    {PathOf(e) : e \in {x \in E : x.isDir /\ SidesOf(PathOf(x)) # {}}} \ visited

\* The files a listing adds.
FoundFiles(d, E) ==
    {[path |-> PathOf(e), size |-> e.size, sides |-> SidesOf(d)] :
        e \in {x \in E : /\ ~x.isDir /\ x.size >= options.sizeMinBytes
                         /\ x.name \notin TmpNames}}

\* The entries come in any order.
OnDirectoryListed(d, owner, E) ==
    /\ running /\ d \in inFlight
    /\ inFlight' = inFlight \ {d}
    /\ foldersListed' = foldersListed + 1
    /\ visited' = visited \cup FoundDirs(d, E)
    /\ \E new \in SetToSeqs(FoundDirs(d, E)) : queue' = queue \o new
    /\ files' = files \cup FoundFiles(d, E)
    /\ answers' = answers \cup {[path |-> d, owner |-> owner, ok |-> TRUE, entries |-> E]}
    /\ Progress(<<>>)
    /\ UNCHANGED <<running, folderErrors, open>>

Dropped(d) ==
    /\ ~(running /\ d \in inFlight)
    /\ signal' = NoSignal
    /\ UNCHANGED <<running, traversal, calls, open, answers>>

\* One turn of the loop: the next directory is asked for, or fails at once.
PumpNext ==
    /\ Top = "pump"
    /\ running /\ Cardinality(inFlight) < MaxListsInFlight /\ queue # <<>>
    /\ inFlight' = inFlight \cup {Head(queue)}
    /\ queue' = Tail(queue)
    /\ wire' = wire \cup {[path |-> Head(queue), owner |-> starts,
                           state |-> "Sent", entries |-> {}]}
    /\ asked' = asked \cup {Head(queue)}
    /\ signal' = NoSignal
    /\ UNCHANGED <<options, running, inPump, visited, files, foldersListed,
                   folderErrors, calls, starts, open, answers, world>>

\* listDirectory fails before it returns; the handler runs inside the loop.
PumpNextFails ==
    LET d == Head(queue) IN
    /\ Top = "pump"
    /\ running /\ Cardinality(inFlight) < MaxListsInFlight /\ queue # <<>>
    /\ asked' = asked \cup {d}
    /\ answers' = answers \cup {[path |-> d, owner |-> starts, ok |-> FALSE, entries |-> {}]}
    /\ \/ /\ d \in {options.primary, options.secondary}
          /\ End("failed", calls)
       \/ /\ d \notin {options.primary, options.secondary}
          /\ queue' = Tail(queue)
          /\ folderErrors' = folderErrors + 1
          /\ UNCHANGED <<running, visited, inFlight, files, foldersListed, open>>
          /\ Progress(calls)
    /\ UNCHANGED <<options, inPump, wire, starts, world>>

\* The loop is over; maybeFinish ends the search when nothing is left of it.
PumpEnds ==
    /\ Top = "pump"
    /\ ~(running /\ Cardinality(inFlight) < MaxListsInFlight /\ queue # <<>>)
    /\ inPump' = FALSE
    /\ \/ /\ running /\ queue = <<>> /\ inFlight = {}
          /\ End("finished", Tail(calls))
       \/ /\ ~(running /\ queue = <<>> /\ inFlight = {})
          /\ calls' = Tail(calls) /\ signal' = NoSignal
          /\ UNCHANGED <<running, traversal, open>>
    /\ UNCHANGED <<options, wire, starts, asked, answers, world>>

\* Faulty: the slot that became free is not used.
HandlerOnlyReturns ==
    /\ Top \in {"progress", "end"}
    /\ calls' = Tail(calls)
    /\ signal' = NoSignal
    /\ UNCHANGED <<inPump, options, running, traversal, wire, history, world>>

\* A handler returns to what signalled; after progress that calls pumpListings.
HandlerReturns ==
    /\ \/ Top = "progress" /\ Pump(Tail(calls))
       \/ Top = "end" /\ calls' = Tail(calls) /\ UNCHANGED inPump
    /\ signal' = NoSignal
    /\ UNCHANGED <<options, running, traversal, wire, history, world>>

-----------------------------------------------------------------------------
(* The session, the share and the owner.                                   *)

Contents(d) == {o \in share : o.dir = d}
OnShare(d) == d = <<>> \/ \E o \in share : o.isDir /\ PathOf(o) = d

ServerLists(r) ==
    /\ r.state = "Sent"
    /\ \/ wire' = (wire \ {r}) \cup {[r EXCEPT !.state = "Failed"]}
       \/ /\ OnShare(r.path)
          /\ wire' = (wire \ {r}) \cup {[r EXCEPT !.state = "Listed",
                                                  !.entries = Contents(r.path)]}
    /\ signal' = NoSignal
    /\ UNCHANGED <<options, running, inPump, traversal, calls, history, world>>

Deliver(r) ==
    /\ Top = "loop" /\ r.state # "Sent"
    /\ wire' = wire \ {r}
    /\ \/ r.state = "Listed" /\ OnDirectoryListed(r.path, r.owner, r.entries)
       \/ r.state = "Failed" /\ OnDirectoryListFailed(r.path, r.owner, <<>>)
       \/ Dropped(r.path)
    /\ UNCHANGED <<options, inPump, starts, asked, world>>

Outside == outside < MaxOutside /\ outside' = outside + 1

\* Another consumer lists a directory.
OtherLists(d) ==
    /\ Top = "loop" /\ Outside
    /\ wire' = wire \cup {[path |-> d, owner |-> 0, state |-> "Sent", entries |-> {}]}
    /\ signal' = NoSignal
    /\ UNCHANGED <<options, running, inPump, traversal, calls, history, share>>

\* ... and fails at once: everyone hears of it.
OtherFails(d) ==
    /\ Top = "loop" /\ Outside
    /\ OnDirectoryListFailed(d, 0, <<>>) \/ Dropped(d)
    /\ UNCHANGED <<options, inPump, wire, starts, asked, share>>

Change(o) ==
    /\ Outside
    /\ share' = IF o \in share THEN share \ {o} ELSE share \cup {o}
    /\ signal' = NoSignal
    /\ UNCHANGED <<options, running, inPump, traversal, calls, wire, history>>

\* Faulty: the searcher of the old connection is kept.
DisconnectKeepsSearcher ==
    /\ Top = "loop" /\ (running \/ wire # {})
    /\ wire' = {}
    /\ signal' = NoSignal
    /\ UNCHANGED <<options, inPump, calls, starts, asked, answers, world,
                   running, traversal, open>>

\* The session forgets its listings and the window its searcher; the next
\* connection gets a new one.
Disconnect ==
    /\ Top = "loop" /\ (running \/ wire # {})
    /\ wire' = {}
    /\ running' = FALSE /\ open' = 0
    /\ ResetState
    /\ signal' = NoSignal
    /\ UNCHANGED <<options, inPump, calls, starts, asked, answers, world>>

-----------------------------------------------------------------------------

Searcher == PumpNext \/ PumpNextFails \/ PumpEnds \/ HandlerReturns
Session == \E r \in wire : ServerLists(r) \/ Deliver(r)

Next ==
    \/ Searcher
    \/ Session
    \/ \E o \in Options : Start(o)
    \/ Cancel
    \/ \E d \in Shown : OtherLists(d) \/ OtherFails(d)
    \/ \E o \in Changing : Change(o)
    \/ Disconnect

Spec == Init /\ [][Next]_vars

\* Handlers and the loop run to their end; the server answers every listing
\* (or the session ends) and the event loop delivers the answers.
FairSpec == Spec /\ WF_vars(Searcher) /\ WF_vars(Session)

-----------------------------------------------------------------------------
(* Properties.                                                             *)

TypeOK ==
    /\ options \in Options /\ running \in BOOLEAN /\ inPump \in BOOLEAN
    /\ visited \subseteq Folders /\ queue \in Seq(Folders)
    /\ inFlight \subseteq Folders /\ Cardinality(inFlight) <= MaxListsInFlight
    /\ \A f \in files : /\ f.path \in Paths /\ f.size \in Nat
                        /\ f.sides \in (SUBSET Sides) \ {{}}
    /\ foldersListed \in Nat /\ folderErrors \in Nat
    /\ calls \in Seq({"pump", "progress", "end"})
    /\ wire \subseteq Requests /\ share \subseteq Objects
    /\ starts \in 0 .. MaxStarts /\ asked \subseteq Folders

\* However the two trees and the replies overlap, no directory is asked for
\* twice by one search (m_visited of enqueueDir), and each one scheduled is
\* counted exactly once as listed, failed, queued or in flight: the counts of
\* progress add up, and a search with nothing pending has heard of them all.
EachFolderOnce ==
    /\ IsInjective(queue) /\ ToSet(queue) \cap asked = {}
    /\ Cardinality(visited) = foldersListed + folderErrors + Len(queue)
                                + Cardinality(inFlight)

\* Between two events a search that runs waits for at least one answer, the
\* queue waits only for a free slot, and each listing in flight is one this
\* search asked for and the session still has: none waits for ever.  The loop
\* guard m_inPump and the final maybeFinish see to it.
NeverStranded ==
    (running /\ Top = "loop") =>
        /\ inFlight # {}
        /\ queue # <<>> => Cardinality(inFlight) = MaxListsInFlight
        /\ \A d \in inFlight : \E r \in wire : r.path = d /\ r.owner = starts

\* One finished or failed for each start, none while it runs and none later,
\* also when the handlers start and cancel searches of their own.
OneEndPerStart == open = IF running THEN 1 ELSE 0

Answered == {r.path : r \in answers}
AnswerOf(d) == CHOOSE r \in answers : r.path = d

Closed(D) ==
    /\ {options.primary, options.secondary} \subseteq D
    /\ \A d \in D \cap Answered : \A e \in AnswerOf(d).entries :
         (e.isDir /\ SidesOf(PathOf(e)) # {}) => PathOf(e) \in D

\* A side has a directory that is its root, or any below it when it includes
\* subfolders.
OnSide(d, s) ==
    IF s \in options.recursive
    THEN \E k \in 0 .. Len(d) : SubSeq(d, 1, k) = options[s]
    ELSE d = options[s]

\* A search that finishes has the answer for exactly the directories its two
\* walks reach, and gathered exactly the files the answers show on the sides
\* asked for, each once and none that is a copy in progress; the folders it
\* could not list are counted, and no root is among them.
FinishedIsComplete ==
    signal.kind = "finished" =>
        /\ Closed(Answered)
        /\ \A D \in SUBSET Answered : Closed(D) => D = Answered
        /\ \A d \in {options.primary, options.secondary} : AnswerOf(d).ok
        /\ signal.errors = Cardinality({r \in answers : ~r.ok})
        /\ signal.files =
             UNION {{[path |-> PathOf(e), size |-> e.size,
                      sides |-> {s \in Sides : OnSide(r.path, s)}] :
                       e \in {x \in r.entries : /\ ~x.isDir /\ x.name \notin TmpNames
                                                /\ x.size >= options.sizeMinBytes}} :
                     r \in answers}

\* A search ends: by itself, by the user or with the connection.
SearchEnds == running ~> ~running
=============================================================================
