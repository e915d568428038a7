-------------------------- MODULE MatchFinderPanel --------------------------
(***************************************************************************)
(* ui/MatchFinderPanel with models/MatchResultsModel, ui/CheckBoxHeader    *)
(* and the window that makes and deletes the panel, around LinkRunner: the *)
(* user validates, searches, checks rows, confirms a batch and watches it  *)
(* run, while the connection may end at any point.                         *)
(*                                                                         *)
(* A signal runs its slots before the emitter goes on, so a step of the    *)
(* runner and what the panel does about it are one action.  The search is  *)
(* known by its interface only (module MatchSearcher is its inside); the   *)
(* other consumers of the session, who hear of the same folders, the user  *)
(* and the toolkit are external.  Every use of a path field trims it, so a *)
(* text stands for its trimmed form; FolderOf is pathutil::normalize.      *)
(***************************************************************************)
EXTENDS LinkRunner

CONSTANTS
    Text,      \* what may be typed into a path field
    Blank,     \* an empty field, an empty setting, no folder
    Folder,    \* the folders the texts name
    FolderOf,  \* the folder each text names
    Settings,  \* the paths that may be saved when the program starts
    Results,   \* what a search may find
    MaxInputs  \* bound on edits of the fields and searches together

Sides == {"primary", "secondary"}

ASSUME TextAssumption == Blank \notin Text \cup Folder /\ FolderOf \in [Text -> Folder]
ASSUME SettingsAssumption == Settings \subseteq [Sides -> Text \cup {Blank}]
ASSUME ResultsAssumption == Results \subseteq Seq(Job)

\* A set of rows, in the order of the table.
InOrder(R) == CHOOSE s \in [1 .. Cardinality(R) -> R] :
                \A i, j \in 1 .. Cardinality(R) : i < j => s[i] < s[j]
MatchesAt(matches, rs) == [k \in DOMAIN rs |-> matches[rs[k]]]

\* JobLists holds every batch that can be checked without a conflict.
ASSUME BatchesAssumption ==
    \A m \in Results : \A R \in SUBSET DOMAIN m :
        LET js == MatchesAt(m, InOrder(R))
        IN  js # <<>> /\ ConflictFree(js) => js \in JobLists
ASSUME MaxInputsAssumption == MaxInputs \in Nat

VARIABLES
    panel,        \* "shown", "doomed" between the disconnection and the
                  \* deletion, "none", or "undefined": see DeletePanel
    dialog,       \* the message box whose event loop onLinkSelectedClicked is in
    picked,       \* ... and the rows it took from the model before that
    edit, saved,  \* per side: the field and its setting
    validating,   \* per side: the folder awaiting on-connect validation
    asked,        \* the folders the validation asked the session to list
    searching,    \* m_searcher->isRunning()
    rows, checkedCount, locked, header,  \* the results and their header
    jobRows,      \* LinkRunner job index -> row
    controls,     \* what updateControls last set
    viewed,       \* the share when the views last asked for it
    inputs        \* counted against MaxInputs

form == <<edit, saved, validating, asked, inputs>>
table == <<rows, checkedCount, locked, header, jobRows>>
panelVars == <<panel, dialog, picked, form, searching, table, controls, viewed>>
allVars == <<vars, panelVars>>

Unstarted == ""
Row(match) == [match |-> match, checked |-> FALSE, status |-> Unstarted]
Checked == {r \in DOMAIN rows : rows[r].checked}
Share == [file |-> file, aside |-> aside]

-----------------------------------------------------------------------------
(* The controls.                                                           *)

\* Faulty: Start Search does not look at the link run.
ControlsDuringRun(search, linking, pending, count) ==
    [start |-> IF search THEN "Cancel" ELSE "Start",
     canStart |-> search \/ ~pending,
     canLink |-> ~search /\ ~linking /\ count > 0,
     canEdit |-> ~search /\ ~linking]

\* updateControls
ControlsFor(search, linking, pending, count) ==
    [start |-> IF search THEN "Cancel" ELSE "Start",
     canStart |-> search \/ (~linking /\ ~pending),
     canLink |-> ~search /\ ~linking /\ count > 0,
     canEdit |-> ~search /\ ~linking]

\* validationPending
Pending == \E s \in Sides : validating[s] # Blank

UpdateControls == controls' = ControlsFor(searching', Running', Pending', checkedCount')

\* aggregateCheckState
Aggregate(count, n) ==
    IF count = 0 THEN "Unchecked" ELSE IF count = n THEN "Checked" ELSE "Partial"

\* checkedCountChanged and its slot.
CountChanged == header' = Aggregate(checkedCount', Len(rows')) /\ UpdateControls

SetMatches(matches) ==
    /\ rows' = [k \in DOMAIN matches |-> Row(matches[k])]
    /\ checkedCount' = 0
    /\ CountChanged

\* The user can reach the panel: no message box is open.
Idle == panel = "shown" /\ dialog = "none"

-----------------------------------------------------------------------------
(* The path fields.                                                        *)

Type(s, text) ==
    /\ Idle /\ controls.canEdit
    /\ inputs < MaxInputs /\ inputs' = inputs + 1
    /\ edit' = [edit EXCEPT ![s] = text]
    /\ UNCHANGED <<vars, panel, dialog, picked, saved, validating, asked,
                   searching, table, controls, viewed>>

\* editingFinished, also when the field loses the focus to something else.
FinishEdit(s) ==
    /\ panel \in {"shown", "doomed"} /\ saved[s] # edit[s]
    /\ saved' = [saved EXCEPT ![s] = edit[s]]
    /\ UNCHANGED <<vars, panel, dialog, picked, edit, validating, asked, inputs,
                   searching, table, controls, viewed>>

\* Fields after the folders in F could not be listed, out of those awaited.
FieldsAfter(fields, awaited, F) ==
    [s \in Sides |-> IF awaited[s] \in F THEN Blank ELSE fields[s]]

\* Faulty: the answer settles one side only.
ResolvedOneSide(awaited, F) ==
    [s \in Sides |-> IF awaited[s] \in F /\ (s = "primary" \/ awaited["primary"] \notin F)
                     THEN Blank ELSE awaited[s]]

Resolved(awaited, F) ==
    [s \in Sides |-> IF awaited[s] \in F THEN Blank ELSE awaited[s]]

\* onDirectoryListed, for whoever asked: own says the answer is the one to
\* this panel's request.
Listed(f, own) ==
    /\ connected \/ ops # {} \/ asked # {}
    /\ panel \in {"shown", "doomed"}
    /\ validating' = Resolved(validating, {f})
    /\ asked' = IF own THEN asked \ {f} ELSE asked
    /\ UNCHANGED <<vars, panel, dialog, picked, edit, saved, inputs, searching, table, viewed>>
    /\ IF validating' # validating THEN UpdateControls ELSE UNCHANGED controls

\* onDirectoryListFailed
ListFailed(f, own) ==
    /\ connected \/ ops # {} \/ asked # {}
    /\ panel \in {"shown", "doomed"}
    /\ validating' = Resolved(validating, {f})
    /\ edit' = FieldsAfter(edit, validating, {f})
    /\ saved' = FieldsAfter(saved, validating, {f})
    /\ asked' = IF own THEN asked \ {f} ELSE asked
    /\ UNCHANGED <<vars, panel, dialog, picked, inputs, searching, table, viewed>>
    /\ IF validating' # validating THEN UpdateControls ELSE UNCHANGED controls

OwnAnswer == \E f \in asked : Listed(f, TRUE) \/ ListFailed(f, TRUE)

\* An answer to another consumer's request for a folder that is awaited.
OthersAnswer ==
    \E s \in Sides : /\ validating[s] # Blank
                     /\ \/ Listed(validating[s], FALSE)
                        \/ ListFailed(validating[s], FALSE)

-----------------------------------------------------------------------------
(* The search.                                                             *)

\* onStartClicked: cancel() signals finished before it returns, and the first
\* listings may fail before start() does, which ends the search as failed.
StartClicked ==
    /\ Idle /\ controls.canStart
    /\ \/ /\ searching
          /\ searching' = FALSE
          /\ UNCHANGED <<vars, panel, dialog, picked, form, table, viewed>>
          /\ UpdateControls
       \/ /\ ~searching
          /\ \A s \in Sides : edit[s] # Blank
          /\ inputs < MaxInputs /\ inputs' = inputs + 1
          /\ searching' \in BOOLEAN
          /\ UNCHANGED <<vars, panel, dialog, picked, edit, saved, validating, asked,
                         locked, jobRows, viewed>>
          /\ SetMatches(<<>>)

\* onSearchFinished, not cancelled.
SearchFinished(matches) ==
    /\ searching /\ searching' = FALSE
    /\ UNCHANGED <<vars, panel, dialog, picked, form, locked, jobRows, viewed>>
    /\ SetMatches(matches)

\* onSearchFailed
SearchFailed ==
    /\ searching /\ searching' = FALSE
    /\ UNCHANGED <<vars, panel, dialog, picked, form, table, viewed>>
    /\ UpdateControls

SearchEnds == SearchFailed \/ \E m \in Results : SearchFinished(m)

-----------------------------------------------------------------------------
(* The rows.                                                               *)

\* MatchResultsModel::setData
CheckRow(r) ==
    /\ Idle /\ ~locked
    /\ rows' = [rows EXCEPT ![r].checked = ~@]
    /\ checkedCount' = IF rows[r].checked THEN checkedCount - 1 ELSE checkedCount + 1
    /\ UNCHANGED <<vars, panel, dialog, picked, form, searching, locked, jobRows, viewed>>
    /\ CountChanged

\* Faulty: the count is that of the rows that changed.
AllCheckedCountsChanged(checked) ==
    /\ ~locked /\ \E r \in DOMAIN rows : rows[r].checked # checked
    /\ rows' = [r \in DOMAIN rows |-> [rows[r] EXCEPT !.checked = checked]]
    /\ checkedCount' = IF checked THEN Cardinality(DOMAIN rows \ Checked) ELSE 0

\* MatchResultsModel::setAllChecked, when a row changes.
AllChecked(checked) ==
    /\ ~locked /\ \E r \in DOMAIN rows : rows[r].checked # checked
    /\ rows' = [r \in DOMAIN rows |-> [rows[r] EXCEPT !.checked = checked]]
    /\ checkedCount' = IF checked THEN Len(rows) ELSE 0

\* A click on the header's box asks for all, or for none when all are.
ToggleAll ==
    /\ Idle
    /\ AllChecked(header # "Checked")
    /\ UNCHANGED <<vars, panel, dialog, picked, form, searching, locked, jobRows, viewed>>
    /\ CountChanged

-----------------------------------------------------------------------------
(* The link run.                                                           *)

\* matchAt for each of the rows.
JobsAt(rs) == MatchesAt([r \in DOMAIN rows |-> rows[r].match], rs)

\* checkedRows
CheckedRows == InOrder(Checked)

\* Faulty: only a secondary checked twice is looked for.
FindDuplicatesOnly(js) ==
    IF \A i, j \in DOMAIN js : js[i].victim = js[j].victim => i = j
    THEN "question" ELSE "warning"

\* The message box that matchconflicts::find leads to.
Find(js) == IF ConflictFree(js) THEN "question" ELSE "warning"

\* onLinkSelectedClicked up to its message box.
LinkClicked ==
    /\ Idle /\ controls.canLink
    /\ ~searching /\ ~Running
    /\ Checked # {}
    /\ nextOpId <= MaxOpId
    /\ picked' = CheckedRows
    /\ dialog' = Find(JobsAt(picked'))
    /\ UNCHANGED <<vars, panel, form, searching, table, controls, viewed>>

\* The warning is closed, or the question answered with no.
Dismiss ==
    /\ panel = "shown" /\ dialog # "none"
    /\ dialog' = "none" /\ picked' = <<>>
    /\ UNCHANGED <<vars, panel, form, searching, table, controls, viewed>>

\* Faulty: a job's messages go to the row of the same number.
StatusByJobNumber(r) ==
    IF r \in DOMAIN report' \ DOMAIN report THEN report'[r]
    ELSE IF Running' /\ current' = r THEN step'
    ELSE rows[r].status

\* jobFinished and jobStatusChanged reach the row through m_jobRows.
StatusAfter(r) ==
    IF \E k \in DOMAIN report' \ DOMAIN report : jobRows'[k] = r
    THEN report'[CHOOSE k \in DOMAIN report' \ DOMAIN report : jobRows'[k] = r]
    ELSE IF Running' /\ jobRows'[current'] = r THEN step'
    ELSE rows[r].status

SetStatuses == rows' = [r \in DOMAIN rows |-> [rows[r] EXCEPT !.status = StatusAfter(r)]]

\* The question is answered with yes.
Confirm ==
    /\ panel = "shown" /\ dialog = "question"
    /\ dialog' = "none" /\ picked' = <<>>
    /\ jobRows' = picked
    /\ Start(JobsAt(picked))
    /\ locked' = TRUE
    /\ SetStatuses
    /\ UNCHANGED <<panel, form, searching, checkedCount, header, viewed>>
    /\ UpdateControls

\* Faulty: the views are refreshed only when every job succeeded.
RefreshOnSuccess == viewed' = IF panel = "shown" /\ failed' = 0 THEN Share' ELSE viewed

\* linkRunFinished: the window refreshes every view it still has.
RefreshViews == viewed' = IF panel = "shown" THEN Share' ELSE viewed

\* allFinished
AllFinished ==
    /\ locked' = FALSE
    /\ UpdateControls
    /\ RefreshViews

\* What the panel does about a completion the runner has seen.
Slots ==
    /\ UNCHANGED <<panel, dialog, picked, form, searching, checkedCount, header, jobRows>>
    /\ SetStatuses
    /\ \/ Running /\ ~Running' /\ AllFinished
       \/ ~(Running /\ ~Running') /\ UNCHANGED <<locked, controls, viewed>>

Completes == (\E r \in ops : Reply(r) \/ Timeout(r)) /\ Slots
Delivers == (\E id \in posted : Deliver(id)) /\ Slots

\* The server, and requests it meets late; the panel sees nothing of it.
ServerStep ==
    /\ \/ \E r \in ops : Apply(r) \/ Reject(r)
       \/ \E r \in stray : StrayApplied(r) \/ StrayDropped(r)
    /\ UNCHANGED panelVars

-----------------------------------------------------------------------------
(* The window.                                                             *)

\* beginPathValidation lists each folder once.
ToAsk(awaited) == {awaited[s] : s \in Sides} \ {Blank}

Awaited(texts) == [s \in Sides |-> IF texts[s] = Blank THEN Blank ELSE FolderOf[texts[s]]]

NoFields == [s \in Sides |-> Blank]
AtRest(pending) == ControlsFor(FALSE, FALSE, pending, 0)

PanelInit ==
    /\ Init
    /\ panel = "shown" /\ dialog = "none" /\ picked = <<>>
    /\ saved \in Settings /\ edit = saved /\ inputs = 0
    /\ validating = Awaited(edit) /\ asked = ToAsk(validating)
    /\ searching = FALSE
    /\ rows = <<>> /\ checkedCount = 0 /\ locked = FALSE /\ header = "Unchecked"
    /\ jobRows = <<>>
    /\ controls = AtRest(Pending)
    /\ viewed = Share

\* onSessionStateChanged(Connected): a new panel with the saved paths, two
\* views that list the root, and the validation, in which the listings of the
\* folders in F fail before listDirectory returns.  Bounded by MaxOpId.
OpenPanel ==
    /\ Connect /\ panel = "none"
    /\ nextOpId <= MaxOpId
    /\ panel' = "shown"
    /\ \E awaited \in {Awaited(saved)} : \E F \in SUBSET ToAsk(awaited) :
         /\ validating' = Resolved(awaited, F)
         /\ edit' = FieldsAfter(saved, awaited, F)
         /\ saved' = FieldsAfter(saved, awaited, F)
         /\ asked' = ToAsk(awaited) \ F
    /\ controls' = AtRest(Pending')
    /\ viewed' = Share
    /\ UNCHANGED <<dialog, picked, inputs, searching, table>>

\* onSessionStateChanged(Disconnected): deleteLater.
Disconnected ==
    /\ Disconnect
    /\ panel' = "doomed"
    /\ UNCHANGED <<dialog, picked, form, searching, table, controls, viewed>>

\* The teardown drops listings silently.
Flush ==
    /\ \/ Teardown
       \/ ~connected /\ ops = {} /\ asked # {} /\ UNCHANGED vars
    /\ asked' = {}
    /\ UNCHANGED <<panel, dialog, picked, edit, saved, validating, inputs,
                   searching, table, controls, viewed>>

\* The event loop deletes the panel, its searcher, runner and model, and with
\* it a message box that is a local variable of onLinkSelectedClicked: from
\* there on anything may happen, and the model stops.
DeletePanel ==
    /\ panel = "doomed" /\ ops = {} /\ asked = {}
    /\ \/ Destroy
       \/ ~Running /\ UNCHANGED vars
    /\ panel' = IF dialog = "none" THEN "none" ELSE "undefined"
    /\ dialog' = "none" /\ picked' = <<>>
    /\ edit' = NoFields /\ validating' = NoFields
    /\ searching' = FALSE
    /\ rows' = <<>> /\ checkedCount' = 0 /\ locked' = FALSE /\ header' = "Unchecked"
    /\ jobRows' = <<>>
    /\ controls' = AtRest(FALSE)
    /\ UNCHANGED <<saved, asked, inputs, viewed>>

PanelNext ==
    \/ \E s \in Sides : FinishEdit(s) \/ \E t \in Text \cup {Blank} : Type(s, t)
    \/ OwnAnswer
    \/ OthersAnswer
    \/ StartClicked \/ SearchEnds
    \/ \E r \in DOMAIN rows : CheckRow(r)
    \/ ToggleAll
    \/ LinkClicked \/ Dismiss \/ Confirm
    \/ Completes \/ Delivers \/ ServerStep
    \/ OpenPanel \/ Disconnected \/ Flush \/ DeletePanel

\* Requests are answered or given up, the event loop runs what is queued on
\* it, and a search ends (SearchEnds of MatchSearcher); nobody has to click.
PanelFairness ==
    /\ WF_allVars(Completes) /\ WF_allVars(Delivers)
    /\ WF_allVars(OwnAnswer) /\ WF_allVars(SearchEnds)
    /\ WF_allVars(Flush) /\ WF_allVars(DeletePanel)

PanelSpec == PanelInit /\ [][PanelNext]_allVars
FairPanelSpec == PanelSpec /\ PanelFairness

-----------------------------------------------------------------------------
(* Properties.                                                             *)

ControlState == [start : {"Start", "Cancel"}, canStart : BOOLEAN,
                 canLink : BOOLEAN, canEdit : BOOLEAN]
Fields == [Sides -> Text \cup {Blank}]

\* Every variable of the panel has its type, and those of the runner theirs.
PanelTypeOK ==
    /\ TypeOK
    /\ panel \in {"shown", "doomed", "none", "undefined"}
    /\ dialog \in {"none", "warning", "question"}
    /\ picked \in Seq(Nat) /\ jobRows \in Seq(Nat)
    /\ edit \in Fields /\ saved \in Fields /\ inputs \in 0 .. MaxInputs
    /\ validating \in [Sides -> Folder \cup {Blank}] /\ asked \subseteq Folder
    /\ searching \in BOOLEAN /\ locked \in BOOLEAN
    /\ rows \in Seq([match : Job, checked : BOOLEAN,
                     status : {Unstarted} \cup Step \cup Status])
    /\ checkedCount \in Nat
    /\ header \in {"Unchecked", "Partial", "Checked"}
    /\ controls \in ControlState
    /\ viewed \in [file : Named, aside : Named]

\* While a batch runs the rows are its own: nothing searches, no row is reset
\* or unchecked, and each job is the match of the row its messages go to.
\* Rows are locked then and only then.  The click handler of Start Search does
\* not look at the runner: it rests on the button (MatchFinderPanel.cpp:323).
RunOwnsRows ==
    /\ locked <=> Running
    /\ Running =>
        /\ ~searching /\ dialog = "none"
        /\ DOMAIN jobRows = DOMAIN jobs
        /\ \A k \in DOMAIN jobs : /\ jobRows[k] \in DOMAIN rows
                                  /\ rows[jobRows[k]].match = jobs[k]
        /\ {jobRows[k] : k \in DOMAIN jobs} = Checked

\* The panel uses the runner as module LinkRunner has it used: it starts only
\* batches without a conflict, one at a time, although its rows are read again
\* after the event loop of the question; so all that is proved of the runner
\* holds under the panel.
DrivesRunner == Spec

\* The message a row ends with is what the share shows of the row's two files,
\* whatever row of the table the job was, as long as every operation on them
\* had a definite answer; the row of the running job says the step it is at.
\* (A row whose job is still to come keeps the message of an earlier run.)
StatusesTruthful ==
    /\ \A k \in DOMAIN jobRows \cap DOMAIN report :
         jobRows[k] \in DOMAIN rows =>
            LET row == rows[jobRows[k]]
            IN  row.status \in Status /\ Sure(row.match) => Shows(row.status, row.match)
    /\ Running => rows[jobRows[current]].status = step

\* What the user sees enabled is what the state allows, although the search,
\* the run, the validation and the checks change in different slots: Start
\* Search stays disabled until the validation resolves and during a run, the
\* form during both, the link button without checked rows; the header's box
\* sums up the rows.
ControlsMatch ==
    panel \in {"shown", "doomed"} =>
        /\ controls = ControlsFor(searching, Running, Pending, checkedCount)
        /\ checkedCount = Cardinality(Checked)
        /\ header = Aggregate(Cardinality(Checked), Len(rows))

\* The views were refreshed after the last change a run made, unless a request
\* was given up (MainWindow.cpp:238, "Any view may be showing affected files").
ViewsNotBehind ==
    panel = "shown" /\ ~Running /\ unsure = {} => viewed = Share

\* A panel never stays disabled: the validation, a search and a run all end,
\* with the search button and the form enabled again, or the panel is deleted.
Usable ==
    \/ panel \in {"none", "undefined"}
    \/ panel = "shown" /\ controls.canStart /\ controls.canEdit
ControlsComeBack == ~Usable ~> Usable
=============================================================================
