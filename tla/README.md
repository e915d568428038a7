# smbmgr in TLA+

smbmgr is a Qt desktop program that connects to an SMB share, browses it in two
side-by-side views, searches two folder trees for files of (nearly) equal size and
replaces the files the user picks with hard links.  This directory holds TLA+
modules of the program's own logic, the TLC configurations that check them on
small instances, and TLAPS proofs of what holds for every instance.

Everything in the program runs on one GUI thread.  What makes it hard is not
threads but asynchrony: replies of the server arrive in any order, signals are
broadcast to every consumer and handled synchronously (a handler may call back
into the object that is signalling), failures are queued on the event loop,
requests time out at the client while the server still applies them, and a
disconnection can come at any of these points.

## The system

| Component | State | Operations | Used by |
|---|---|---|---|
| `smb/SmbSession` | connection state, libsmb2 context, lookup, pending lists / stats / operations, teardown flags, operation ids | connect, abort, disconnect, list, stat, rename, link, remove; service pass, teardown | everything below |
| `core/LinkRunner` | batch, current job, step, awaited id, counts | start; completion handlers | `MatchFinderPanel` |
| `core/MatchSearcher` | roots, queue, visited and in-flight directories, collected files | start, cancel; listing handlers | `MatchFinderPanel` |
| `core/MatchPairing` | none (pure) | pair files by size | `MatchSearcher` |
| `core/MatchConflicts` | none (pure) | reject contradictory batches | `MatchFinderPanel` |
| `core/ShareCacheStore` | directories, entries, staleness, link counts, inode index | listing / stat replies, noted mutations, scheduler | nothing yet (unit 1 of the master plan) |
| `core/PathUtil` | none (pure) | normalize, join, split | all |
| `ui/FileBrowserView` | path, pending path, stat order, cursor, in-flight window | navigate, refresh; reply handlers; stat pump | `MainWindow` |
| `ui/MatchFinderPanel` | path fields and their settings, pending validations, rows of the jobs, controls | validate, edit, search, check, ask, link | `MainWindow` |
| `models/MatchResultsModel`, `ui/CheckBoxHeader` | rows with check and status, number checked, lock, box in the header | set, check one or all, lock, set a status | `MatchFinderPanel` |
| `models/FileListModel`, `FileFilterProxyModel` | rows, link counts, sort and filter | set a listing, set a count | `FileBrowserView` |
| `ui/MainWindow` | views, panel | connect / disconnect, refresh after a run, reveal | - |

`MainWindow` owns one `SmbSession`.  Each connection gets a new panel (with its
searcher and runner) and two views; a disconnection deletes them.  Views, panel
and searcher all listen to the same session signals, and tell replies apart by
path only; operations alone carry ids.

What makes each part correct:

* **Session**: a context is never destroyed under libsmb2; nothing of a
  connection disturbs the next; every operation completes once, asynchronously;
  the audit log claims an outcome exactly when the session was given one.
* **Link runner**: no data is lost whatever is refused, timed out, applied late or
  cut off; a report says what the share shows; a run ends.
* **Search**: exactly the two walks, each folder once, exactly one end per start,
  never stuck; the pairing misses nothing and shows no pair twice.
* **Cache store**: what is served as current is what the share holds; what is
  missing is asked for; the whole settles.
* **Panel**: a batch and the rows it came from stay together while it runs, a
  message reaches the row it is about and is true, what is enabled is what the state
  allows, and nothing stays disabled for ever.
* **View**: it settles on the last path asked for, with every count filled in,
  whatever replies of its own past and of others arrive.

Hard behaviours, with the lines where they bite, are the `hazards` of
`PROJECT.json`.  The recurring ones are: failures signalled from inside the call
that asked (`listDirectory`, `statFile`) against failures queued
(`failOpLater`); callbacks that come back into the object that is signalling;
replies told apart by path only; an operation with an unknown outcome that may
still be applied; teardown at any of these points.

## Modules

| Module | Models | Composes |
|---|---|---|
| `SafeReplace` | abstract: what may happen to a share's names | |
| `LinkRunner` | `core/LinkRunner.cpp` over the requests of `SmbSession` | implements `SafeReplace` |
| `OpChannel` | abstract: an operation is open, then answered once | |
| `SmbSession` | `smb/SmbSession.cpp`, and the connect action of `ui/MainWindow.cpp` that calls it | implements `OpChannel` |
| `ShareCacheStore` | `core/ShareCacheStore.cpp`, any caller | |
| `CachedShare` | the store between a share and its facade | extends `ShareCacheStore` |
| `MatchSearcher` | `core/MatchSearcher.cpp` over the listings of a session | |
| `MatchPairing` | `computeMatches` of `core/MatchPairing.h` | called at the end of a search |
| `FileBrowserView` | `ui/FileBrowserView.cpp` over listings and stats | |
| `MatchFinderPanel` | `ui/MatchFinderPanel.cpp`, `models/MatchResultsModel.cpp`, the header's box, and the life of a panel in `ui/MainWindow.cpp` | extends `LinkRunner`, implements its `Spec` |
| `MC*` | the small instances of each | |
| `*Proofs` | theorems | extend the modules they are about |

Definitions marked `Faulty:` in a module are wrong versions of the definition that
follows them.  No specification uses them; each is there to be put in place of the
right one, to show that a property notices.

### LinkRunner, SafeReplace

`LinkRunner` has one action per handler of `core/LinkRunner.cpp` and of the part of
`SmbSession` it calls.  A completion handler is one step with everything it calls:
`onOpSucceeded`, `finishJob`, `startNextJob` and the request they issue.
`Submit` is the common shape of `renameFile`, `createHardLink` and `removeFile`.
The share is external: per name the inode at the path and the one at its
`.smbmgr-tmp` path.  A request the client gave up on goes to `stray`, from where the
server may still apply it at any later time, or never.  `ConflictFree` is what
`MatchConflicts::find` lets through.

`SafeReplace` is the abstract promise: what may happen to the share's names.
`LinkRunner` is checked (`ReplacesSafely`) and proved (`RunnerReplacesSafely`) to
implement it.

### MatchFinderPanel

The panel is the program around the runner: it extends `LinkRunner`, and each of its
actions that starts a batch, delivers a completion, or ends or makes a connection
contains the action of the runner.  A signal runs its slots before the emitter goes
on, so `Completes` is the session's reply, the runner's handler and the panel's
slots (`SetStatuses`, `AllFinished`) in one step.  `DrivesRunner` says that what
the panel does to the runner is what `LinkRunner` allows, so that everything checked
and proved of the runner holds under the panel.

* *Validation*.  `validating` is per side what the panel waits for, `asked` what
  the session will answer; the panel hears every listing of the session (`OwnAnswer`,
  `OthersAnswer`), and a failed one clears field and setting, whatever they hold by
  then (`FieldsAfter`).  A folder that cannot be listed at once fails inside
  `OpenPanel`, before the constructor's caller goes on.
* *Search*.  Known by its interface: it ends found, failed or cancelled; `MatchSearcher`
  is its inside.  `searching' \in BOOLEAN` in `StartClicked` is the search
  that fails before `start` returns.
* *Rows*.  `checkedCount`, `header` and `locked` are kept beside the rows, as in
  the code, and not computed from them.  `InOrder` is the order of the table.
* *The question*.  `LinkClicked` takes the rows and opens the message box;
  `Confirm` or `Dismiss` is the rest of the handler.  In between the box's event loop runs
  everything but the user's clicks.
* *Deletion*.  `Disconnected` dooms the panel, the teardown flushes, and
  `DeletePanel` destroys it with searcher, runner and rows.  If the message box is open
  then, it is destroyed too although it is a local variable: `panel = "undefined"`, from
  which nothing is modelled.

### SmbSession, OpChannel

Attempts to connect are numbered, and a context, a host lookup and a request carry
the number they belong to, so that the properties can tell connections apart where
the code has only a pointer.  A pass of `service()` is several steps: `ServiceBegin`,
any number of callbacks (`OnConnectDone`, `OnReadDone`, `OnOpDone`), after each of
which a handler may call back into the session (`MayCall`), and `ServiceEnd` with
the deferred teardown.  `Flush` is what the callbacks do when
`smb2_destroy_context` runs them.  A finished lookup is a posted event (`resolved`)
that `abortHostLookup` cannot revoke.  A request is identified with its place in
`reply`: `new`, `delayed` (the throttle of stats), `pending`, `queued` (a failure on the
event loop), and the three ends `ok`, `failed`, `dropped` (reads die silently in a
teardown).

`ConnectToShare` asks for a disconnected session only, as the code does.  Its one caller
is part of the module: `OpenPrompt` is `MainWindow::onConnectActionTriggered` up to the
modal password prompt, `CancelPrompt` and `AnswerPrompt` are the rest of it, and while the
prompt is open its event loop goes on delivering.  What was posted before the prompt
is delivered before its user can answer (`resolved = {}` in `AnswerPrompt`): this rule of
Qt's event loop, and no line of `SmbSession.cpp`, is why the result of a lookup that was
aborted too late cannot be taken for that of the next attempt (`onHostResolved`
asks for the state only).  `MainWindow::setPasswordPrompt`, with which the tests put a prompt
that answers at once in place of the dialog, is not modelled.

`answered` is a history variable: the operations whose callback ran in a pass, with an
answer of the server or with the PDU timeout.  `LogTruthful` compares the log with it: an
operation that was sent and lost in the flush is logged as unknown, not as failed.  Of
a timeout the code logs *failed* although the server may have applied the operation; that is
what `link_rename_timeout` is about.
Socket notifiers are left out: which of them fires changes only when a pass
happens, and that is the fairness of passes.

### ShareCacheStore, CachedShare

One operator per public operation of the store, with everything it calls
(`Reindexed`, the carry-over of counts, the reset of the cursor).  Names are
numbers in their sort order, so a row is a name, and the cursor of a directory is
the set `skipped` of rows it has passed.  `Walk` is `nextStats`: the paths taken so
far go from one subscription to the next, first its visible rows (`Priority`), then
the rest from the cursor on (`Rest`); the rows of each are a set put in
an order (`UnknownFirst`), which is what the proof can reason about.  `Next` lets any caller make any call in any order; that is
how the store is specified, since nothing in the program calls it yet.
`CachedShare` adds the caller it is written for (docs/master-plan.md, external) and
a share that other requests change: listings and stats are in flight while
mutations are made and noted.  `exposed` is a history variable: the inodes of
which the cache cannot be blamed for a wrong count, since a mutation of them
overlapped another request or went through a path that is not cached.  So `CountsAreTrue`
says nothing of a stat that is in flight when a mutation is made and noted: its late
reply clears the mark, and the store has no means to tell (`PROJECT.json` lists
the hazard as not covered).  For listings it has one, `staleOnLand`, and
`FreshIsTrue` exempts none of them.
A directory's path is known by `Above`, the paths on the way to it, so that the tree may have
any depth.  To rename a directory gives all that is below it other paths; the set of paths
is fixed, so that the rename is an exchange (`Exchanges`) of the paths below the
old name with those below the new one, and is possible where each directory below has
such a counterpart.

### MatchSearcher, MatchPairing

Signals and slots are calls: `calls` is the stack of what is under way, so that a
listing that fails before `listDirectory` returns (`PumpNextFails`) and a handler
that cancels or starts a search (`Start`, `Cancel` while `Top` is a handler) happen
where they do in the code, with `inPump` the guard of the loop.  Listings of other
consumers and of earlier searches are in the same `wire` and are answered by path,
as the session broadcasts them.  `MatchPairing` is the pure algorithm as a state
machine, one action per turn of the inner loop, so that the proof can say what
holds half-way.  The sort is any permutation that sorts; the final stable sort is
exact.

### FileBrowserView

`navigateTo`, `navigateToAndReveal`, `refresh`, the listing and stat handlers and the
pump.  The rows that are visible are the user's choice, so the visible part of
`nextStatRow` may pick any row still Unknown; the cursor part picks the first from
`statOrder`.  Each stat on the `wire` remembers the listing it was asked for in
(`of`), which the code does not: that is what `OldStatsDropped` is about.

## Runs

| Run | States | Shows |
|---|---|---|
| `panel` | 664 118 | the panel around a run of two jobs: batch, rows and controls belong together, messages are true, the runner is used as specified, the panel always comes back |
| `link_repeat` | 1 057 888 | several runs on one victim across reconnections: the answer waited for is coming, the copy is kept, reports are true, no data lost, `SafeReplace` implemented |
| `link_rename_timeout` | violation | a rename reported failed may have been applied |
| `session_requests` | 18 870 | two connections, the prompt before each, a listing, a throttled stat and an operation at any time: safety, `OpChannel` implemented, everything asked settles |
| `store_any_caller` | 18 396 | the store under every sequence of calls |
| `cache_races` | 1 805 001 | two directories, two names of one file, two changes racing listings and stats |
| `cache_live` | 40 495 | the cache settles, also after a directory two below the root has moved with all above and below it |
| `cache_unknown_unlink` | violation | an unlink through an uncached path leaves a count served as current |
| `search` | 1 147 169 | two searches over overlapping trees with re-entrant handlers, with a queue behind full slots |
| `pairing` | 1 338 860 | all lists of up to three files, caps that bite |
| `view` | 535 822 | three listings, a reveal, replies of others, synchronous failures |
| `view_old_stats` | violation | a stat of an earlier listing is shown as the count of the new one |

### Bounds, and why they are enough

* `LinkRunner`: `MaxOpId` bounds the operation id from which no run is started, not
  the requests of a run.  `link_repeat` has batches of one job: `MaxOpId = 5` lets a
  second run, or several that fail early, start while requests of the first are
  still stray.  Batches of two jobs with a shared primary, the smallest in which jobs
  could disturb each other, are in `panel`.  What happens with more names, jobs and
  runs is proved.
* `MatchFinderPanel`: two results a search may find, one whose rows can be linked
  together and one whose rows contradict each other; saved paths that name one
  folder twice, or one folder and none; a share that is clean and one with a leftover
  copy.  `MaxInputs = 2` is the number of edits and searches together: an
  edit while a validation is under way, and a search, or two searches.
  `MaxOpId` bounds `OpenPanel` and `LinkClicked` too, and is 1: a run may start only before
  any operation was made, so that there is one run, and no new panel after it.
  Several runs and panels after each other are covered by the proofs.
* `SmbSession`: two attempts are what a stale event needs (one to leave it, one to
  be disturbed); one request of each kind, since requests meet only in the flush,
  which treats them alike.
* `ShareCacheStore`: one directory of two names, two inodes and the absent one,
  counts 0 and 1: rows enter, leave, change kind and inode; a cursor has a before
  and an after.
* `CachedShare`: `MaxChanges` counts mutations, refreshes, refusals and disconnections.  In
  `cache_races` it is 2, the least that lets one race another, over two directories
  side by side; in `cache_live` it is 1, over the root, two directories in it and one in each
  of these: the least in which what moves lies two levels below, so that what is
  cached under the old path has to be found (`Under`).  There `Browsed` are the root and
  the two deepest directories; any number and any depth is proved.
  `Window = 1` makes the budget bite.
* `MatchSearcher`: a tree of depth two, nested roots and a root given twice; two
  starts, so that replies of the first reach the second; one change of the share
  or one listing of another consumer (`MaxOutside`).  `/a` holds two directories, so that
  after its answer one waits while the root and the other take both slots of
  `MaxListsInFlight = 2` (the code has 8).
* `MatchPairing`: three files are the least with two windows that overlap; sizes 0, 1, 3
  against differences 0 and 1, caps of 2 and 9 rows and pairs.
* `FileBrowserView`: three listings, since a reply can be late by one and by two;
  one stat in flight (the code has 32) with two files makes rows wait.

`CHECK_DEADLOCK FALSE` is set where an instance really ends: the runner at
`MaxOpId`, the session with every attempt and request used up, the others at their bounds or
because the program then waits for its user.

### Fairness

* Panel: a request is answered or times out, a queued failure is delivered, a listing
  of the validation is answered, a teardown that began ends, the event
  loop deletes what is to be deleted (all WF): what the session and Qt provide.
  A search ends (WF): what `SearchEnds` of `MatchSearcher` shows.  That the user answers a
  question, clicks or edits is not assumed: with a message box open the panel is
  usable.
* Session: the tick timer fires every 250 ms, so passes begin (WF) and end (WF);
  once the PDU timeout has expired every pass runs the request's callback, so
  a callback enabled again and again happens (SF); the event loop delivers what
  is posted, and the throttle of stats its timer, between passes (SF, since a pass can
  come first each time but not for ever).  That a user connects, or the server
  applies anything, is not assumed.
* Cache: facade, server and replies make progress, listings and stats each on
  their own (WF); that the server finds no such directory is an answer too.
  It is the plan's facade, not yet code.
* Searcher: calls on the stack run (WF), the server answers or the session ends and
  the event loop delivers (WF).
* View: the pump runs to its end (WF); a reply that stays deliverable is
  delivered even though scrolling starts the pump again and again (SF): one
  scroll event at most is handled between two turns of the event loop.

### Where code and words differ

Three runs are violations, each of one statement of a comment, test or document;
`findings` in `PROJECT.json` quotes them.  More differences were met and are
not runs:

* `core/MatchSearcher.h` says a cancelled search "drops late replies"; the next
  search takes a reply for a directory it has in flight itself, by path.  The
  reply is a true listing of that directory, only older; `FinishedIsComplete`
  holds with it.
* `ui/FileBrowserView.cpp:379` bounds the stats of old and new listings together by
  twice the window; refreshing repeatedly exceeds it.  Only load depends on it.
* A listing or stat in flight at a teardown ends without a signal; its consumers are
  deleted by the window at the same moment (`ReadsSettle`, `ControlsComeBack`).
* `ui/MatchFinderPanel.h:35` says of the on-connect validation that a path that fails
  is cleared.  `onDirectoryListFailed` clears the field and the setting of the side
  that waits, also when the user has typed another path meanwhile, and on any failure
  of any listing of that folder, also one a view asked for.
* `ui/MatchFinderPanel.cpp:229` says that every option is written through on change;
  a path is when its editing is finished, so that a crash before that loses it.
* A disconnection while the question before a run is open deletes the panel and, as its
  child, the message box, which is a local variable of the handler that is still
  under way.  It is undefined in C++ what follows, so that there is no run
  of it: the model stops there (`panel = "undefined"`).

## Proofs

Assumptions are the named `ASSUME`s of the modules only.  They hold in every run
(TLC evaluates them) and say what the code's types say.

### LinkRunnerProofs

`IInv == TypeOK /\ IdsUnique /\ AwaitedOpIsComing /\ CopyKept`.  Each part needs the
ones before it: that an answer is for the request waited for needs unique ids;
that a link is asked for only when the copy stands aside needs that the answer
taken for the rename's is the rename's.  `CopyKept` is the reason why no data is
lost: a request that may still take the copy away is the only one for its victim, and
until the runner asks for it nobody takes the copy.  The property itself
(`NoDataLost`) is not inductive: it says nothing of requests that were given up
and may still be applied.  From it follow `NoDataIsLost` and `RunnerReplacesSafely`:
each step of the server maps to a step of `SafeReplace`, every other step stutters.
All of it holds for every set of names and inodes, all batches and any number of runs.

`ReportTruthful` speaks of finished jobs.  To carry it through a run, `RInv` adds what is
true half-way: the runner has one request in flight at most, the one it waits for
(`OneInFlight`); what earlier runs left over touches paths whose outcome is unsure
only (`LeftoverUnsure`); reports, jobs and `current` are in step (`InStep`); paths the
batch has not come to are as they were at its start (`Untouched`); and the two files of
the current job are as its step says, before and after the server did what it asks for
(`AtStep`).  `AtStep` needs `CopyKept` of the runner's invariant: the undo after a
failed link finds the copy.  That jobs do not disturb each other rests on
`ConflictFree` alone.

### MatchFinderPanelProofs

`PInv` is the runner's invariants and, of the panel: the rows are those of a search
and their sums are right (`Tabled`), the controls match (`Controlled`), nothing moves under
an open message box (`Quiet`), the run owns its rows (`RunOwnsRows`), and every
job has a row of its own that says what was last said of it (`Told`).  They hold each
other up: that the rows are not reset during a run needs the controls, the controls
need the count of the checked rows, and that the answer *yes* starts the batch
that was asked about needs `Quiet`.  The first theorem, `PanelDrivesRunner`, is the
refinement: from `PInv`, every step of the panel is a step of the runner or leaves it
alone.  `StatusesAlwaysTruthful` then follows from `Told` and from what
`LinkRunnerProofs` knows of reports.  `InOrderRight` shows that a set of rows has
an order, by a smallest set that would have none.

### MatchPairingProofs

The rows of the result are described by the pairs of places the scan has passed
(`Passed`): `RowsFromPassed` (each row is a row of such a pair), `PassedHaveRows` (each
such pair of candidates has one), `Prepared` (the list is sorted and has the files
handed in) and `Through` (a scan not cut short has passed all).  None of the three
properties is inductive alone, since they speak of the files handed in and of the
end.  That the window can stop at the first file too big is the one place where
sorting is used (`WindowEndsStep`).

### SmbSessionProofs

`IInv == TypeOK /\ Passes /\ Lookups /\ Contexts /\ Hanging /\ Logged`.  The safety
properties are what it says between passes.  The point of `Passes` is that
`teardownPending` is set within a service pass only, and that a session that is
Disconnected in a pass has it set: so the pass's end tears down, and nothing is left
for the next connection.  `Lookups` says that a lookup, also one whose result is
posted and cannot be revoked, belongs to an attempt that has no context
yet, and that the prompt is open only while the session is disconnected.  With
what `AnswerPrompt` assumes of the event loop it follows that no old result is left when an
attempt starts.  `Logged` is the log beside the requests: what is queued or completed has an
entry, what was not answered has none but *unknown*; it is `LogTruthful` made inductive.  For `OpChannel` a request and a completion move one operation each, and
everything else stutters, the flush too: it turns what was pending into failures that are
queued, and both are `open` in the channel.

### ShareCacheStoreProofs

`IndexExact` and `CursorSound` are inductive with the types.  All operations but
`applyListing` and `clear` keep the rows of every directory and change only what is
known of them, so that the index stays; the cursor is reset wherever a row may come to
want a stat again.

`StatsAlwaysAsPromised` is about what `nextStats` returns, for every order of calls, number of
rows, set in flight and budget.  It follows from `IInv` alone; the work is in the
operators.  The rows taken are a set put in an order (`Kept`): `Ranks` counts the members up
to a place to show that each place has one member, so that an ordered set has the length of
the set, its members and none twice (`PathsIs`), and a prefix of it is the set cut to size.
`PriorityIs` and `RestIs` say what each half of a subscription adds (`Fills`: more than
was there, no more than the budget, all that is wanted when there is room left).  The
cursor never counts: by `CursorSound` no row before it is wanted (`PassedWantNothing`), so that
starting there saves time and nothing else.  The recursion over the subscriptions is shown to
exist by growing the function one place at a time (`WalkExists`, with `Climbs`: a set
that has 0 and each successor has all), and used through `WalkSteps` only.

### CachedShareProofs

`FreshAlwaysTrue` and `CountsAlwaysTrue` are about the store under the use it is
written for.  The invariant is the store's own (`IInv` of `ShareCacheStoreProofs`) with
`WInv == WorldTypeOK /\ Tree /\ Lifecycle /\ Current /\ AllGenuine /\ Alone /\ Counted`.

* *Trust is only lost, but for a reply.*  Every operation of the store gives a record that
  `Distrusts` the one before, but `Clear` and those that begin and end a listing:
  the rows stay, Fresh does not come back, and the mark of a listing in flight
  (`staleOnLand`) does not go.  The mark of a count (`stale`) goes for the path of a stat
  reply and for no other (`SameCounts`).
* *`Current`.*  Between a mutation and its note some directories are wrong: they are
  `Touched`, computed from the mutation as it happened.  `Current` is about all others.
  A mutation leaves what is in them alone; its note marks those it touched
  (`NoteMarks`), so that they become current by promising nothing.  A listing that landed
  in between does not count as Fresh, since `staleOnLand` is set by then or the
  directory is still touched.  What moved with a directory, however deep, is found by its
  path (`Under`): the paths above a directory are a line (`LineAbove`), so that an exchange
  changes the part above the renamed name and keeps the rest (`ExchangeAbove`), and a
  directory that lies below neither name is left alone (`RenameApart`).
* *`Counted`.*  A count that is shown without a mark is the number of names, unless the inode
  is `Excused`: exposed, or that of the mutation not yet noted.  `Alone` says of the latter
  what the note needs: nothing is in flight, and the path the note will go by
  is cached with that inode, so that the note reaches every row of it through the
  index.  Here the store's `IndexExact` is used.
* `AllGenuine`: what is cached was on the share once, so that a row of a directory is never
  counted as a file.

`IdleAlwaysSettled` shows `IdleIsSettled`, the safety part of `CatchesUp`: when nothing is in
flight, no directory is to be fetched and `nextStats` returns nothing, then what the views show
is what the share holds.  From the store comes `NothingWanted`: an empty answer means that no
row of any subscription wants a stat, however they overlap.  So each row of a Fresh
directory has a count without a mark, or one that could not be had, and `Counted` says
that it is the true one.

`SubsAssumption` says what a subscription is, a directory and a list of names.
`BrowsedAssumption` says that what is subscribed to is asked for (`Browsed` are the
directories anybody asks the cache for).  `StartAssumption` says that the share is a tree at
the start and `TreeAssumption` that the paths above a directory are a line, of any length;
`MaxLinks` bounds the type of counts, so that there are no more names than that.

### MatchSearcherProofs

`Stack` says that the pump is on the stack of calls once at most, and that the guard
`m_inPump` tells whether it is; `Ledger` is the account of the traversal (asked, queued, in
flight, listed, failed), `TypeOK` with the bound on those in flight; `Slots` that a running search has a call on the stack which
goes on with it, or an answer to come, with a queue only while every slot is
taken; `InWire` that an answer in flight is on the wire.  `Slots` is `NeverStranded` made
inductive: while handlers start and cancel searches inside a pump, who goes on
with the search is on the stack.

`FinishesComplete` shows `FinishedIsComplete`: a search that ends has listed the
folders that can be reached from its roots, and no other, and collected exactly their
files.  `Reachable` is a smallest closed set, and the walk is related to it without
induction on its length: `Tally`, which TLC also checks, says that every closed set that has
the roots contains what is `visited` (so nothing is listed in excess), and that the
children of each answer are `visited` (so that, once nothing is pending, the answered
folders are closed themselves).  Each folder is answered once, also when the answer is a late
reply of an earlier search; the number of errors is the number of failed answers.
`PathsAssumption` says that a folder's path is a sequence of its own names.

### FileBrowserViewProofs

`NeverStranded` is split in its parts (`Pending`, `Answering`, `Asking`).  `Asking`, that rows
are left unasked only while every slot is taken, needs `Ordered`: what the cursor has
passed was asked for, so that an exhausted order means that every row was.
It needs finitely many files (`FilesAssumption`).  `Reveal` ties the file to be revealed to the
listing that is pending for it, which is what `RevealsOnlyAsAsked` rests on when
listings of other folders land first.

### Only model-checked

Liveness (`ControlsComeBack`, `OpsAnswered`, `ReadsSettle`, `CatchesUp`, `SearchEnds`,
`FillsIn`): the prover handles neither fairness nor ENABLED.  Every invariant and action property
that a passing run checks is also proved.

## Not modelled

* Of the panel: the options that only go into a search (subfolders, sizes), the
  forwarding of the selected row to the views, the spinner, texts and geometry.
* Of `MainWindow`: the status bar, the URL box, menus and geometry.
* `FileListModel`, `FileFilterProxyModel`: presentation, but for rows and link counts.  The row
  ranges with which `ShareCacheStore::applyListing` describes a difference are not modelled:
  the unit tests replay them (`tst_sharecachestore.cpp:252`).
* `PathUtil`, the parsing of share URLs, `VersionCompare`: string functions; paths
  here are sequences of names or model values.
* `Logger`: files and formats.  What the log claims of operations is in `SmbSession`.
* Load: the bound of `MatchSearcher.cpp:91` counts the directories of one search, that of
  `FileBrowserView.cpp:379` the stats of one listing; several searches or listings
  after each other exceed them, and nothing but the server's load depends on it.
* `connectToShare` from inside a handler after a disconnection in the same pass
  (`SmbSession.cpp:224`) is not made by any caller, and so not by the model's user.
* libsmb2, Qt, and the server: external, modelled from how the code uses them.

## Plan

Done: every component that keeps state on behalf of the user's data is modelled, and
every safety property of it that a run checks is proved.

Left:

1. The search inside the panel (`MatchSearcher` in place of its interface), once its
   instance is small enough to be multiplied with that of the runner.
2. The facade of the cache, when it is there to be read instead of planned: with it the
   stats in flight when a mutation is noted.
