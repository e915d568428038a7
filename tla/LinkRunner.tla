----------------------------- MODULE LinkRunner -----------------------------
(***************************************************************************)
(* core/LinkRunner: replaces files with hard links, one job at a time, by  *)
(* a chain of operations (rename aside, link, unlink; rename back when the *)
(* link fails) that SmbSession answers asynchronously by id.               *)
(*                                                                         *)
(* Around the runner stand the part of SmbSession it uses (ids, the        *)
(* requests in flight, failures queued on the event loop, disconnection)   *)
(* and the share itself.  The share is external: for every name it holds   *)
(* the inode at that path (file) and the inode at path + ".smbmgr-tmp"     *)
(* (aside).  A request the client has given up (PDU timeout, teardown) may *)
(* have been applied already, or be applied later (stray), or never.       *)
(***************************************************************************)
EXTENDS Naturals, Sequences, FiniteSets

CONSTANTS
    Name,      \* paths a job may mention (never a *.smbmgr-tmp path)
    Inode,     \* the inodes of the share
    None,      \* no file at this path
    JobLists,  \* the batches the panel may pass to start()
    Shares,    \* what the share may hold when the program starts
    MaxOpId    \* bound: no run starts once this many ids are used up

Job == [primary : Name, victim : Name]

\* MatchConflicts::find accepts a batch only when no path is a victim twice,
\* or a victim of one job and the primary of another.
ConflictFree(js) ==
    /\ \A i, j \in DOMAIN js : js[i].victim = js[j].victim => i = j
    /\ \A i, j \in DOMAIN js : js[i].victim # js[j].primary

ASSUME NoneAssumption == None \notin Inode
ASSUME JobListsAssumption ==
    \A js \in JobLists : js \in Seq(Job) /\ ConflictFree(js)
ASSUME SharesAssumption ==
    Shares \subseteq [file : [Name -> Inode \cup {None}],
                      aside : [Name -> Inode \cup {None}]]
ASSUME MaxOpIdAssumption == MaxOpId \in Nat

Step == {"Rename", "Link", "Unlink", "UndoRename"}
Status == {"replaced", "rename failed", "restored", "restore failed",
           "tmp left"}

VARIABLES
    jobs, current, step, opId, succeeded, failed, \* the runner's members
    report,     \* jobFinished messages of this run, in order
    connected,  \* SmbSession::state() = Connected
    nextOpId,   \* m_nextOpId
    ops,        \* m_pendingOps with what the server has made of each
    posted,     \* ids whose operationFailed is queued on the event loop
    file, aside,\* the share
    stray,      \* given up by the client, still to be seen by the server
    before,     \* history: the batch of the run and the share at its start
    unsure      \* history: victims of operations with an unknown outcome

runnerVars == <<jobs, current, step, opId, succeeded, failed, report>>
sessionVars == <<connected, nextOpId, ops, posted>>
shareVars == <<file, aside, stray>>
vars == <<runnerVars, sessionVars, shareVars, before, unsure>>

Request == [id : Nat, step : Step, job : Job]
Running == jobs # <<>>
Named == [Name -> Inode \cup {None}]

Init ==
    /\ jobs = <<>> /\ current = 0 /\ step = "Rename" /\ opId = 0
    /\ succeeded = 0 /\ failed = 0 /\ report = <<>>
    /\ connected = TRUE /\ nextOpId = 1 /\ ops = {} /\ posted = {}
    /\ \E s \in Shares : file = s.file /\ aside = s.aside
    /\ stray = {}
    /\ before = [batch |-> <<>>, file |-> file, aside |-> aside]
    /\ unsure = {}

-----------------------------------------------------------------------------
(* The requests of SmbSession.                                             *)

\* renameFile / createHardLink / removeFile: the request goes out, or its
\* submission fails (two ids are spent), or the session is not connected; an
\* immediate failure is queued, never signalled synchronously.
Submit(st, job, inFlight, queued) ==
    \/ /\ connected
       /\ opId' = nextOpId
       /\ nextOpId' = nextOpId + 1
       /\ ops' = inFlight \cup {[id |-> nextOpId, step |-> st, job |-> job,
                                 srv |-> "queued"]}
       /\ posted' = queued
    \/ /\ connected
       /\ opId' = nextOpId + 1
       /\ nextOpId' = nextOpId + 2
       /\ ops' = inFlight
       /\ posted' = queued \cup {nextOpId + 1}
    \/ /\ ~connected
       /\ opId' = nextOpId
       /\ nextOpId' = nextOpId + 1
       /\ ops' = inFlight
       /\ posted' = queued \cup {nextOpId}

-----------------------------------------------------------------------------
(* The runner.                                                             *)

NextStep(st, inFlight, queued) ==
    /\ step' = st
    /\ Submit(st, jobs[current], inFlight, queued)
    /\ UNCHANGED <<jobs, current, succeeded, failed, report>>

\* finishJob and the startNextJob it ends with: the next job's rename, or the
\* jobs cleared before allFinished(succeeded, failed).
FinishJob(status, inFlight, queued) ==
    /\ report' = Append(report, status)
    /\ IF status = "replaced"
       THEN succeeded' = succeeded + 1 /\ UNCHANGED failed
       ELSE failed' = failed + 1 /\ UNCHANGED succeeded
    /\ \/ /\ current < Len(jobs)
          /\ current' = current + 1
          /\ step' = "Rename"
          /\ Submit("Rename", jobs[current + 1], inFlight, queued)
          /\ UNCHANGED jobs
       \/ /\ current >= Len(jobs)
          /\ jobs' = <<>>
          /\ current' = 0
          /\ ops' = inFlight
          /\ posted' = queued
          /\ UNCHANGED <<step, opId, nextOpId>>

\* Faulty: any completion is taken for the one awaited.
NotMineAnyId(id) == ~Running

\* Completions of other requests, or after the run, are not the runner's.
NotMine(id) == ~Running \/ id # opId

Ignore(inFlight, queued) ==
    /\ ops' = inFlight
    /\ posted' = queued
    /\ UNCHANGED <<runnerVars, nextOpId>>

\* Faulty: the copy is removed before the link is made.
AfterSuccessSwapped(st) ==
    CASE st = "Rename" -> "Unlink" [] st = "Unlink" -> "Link"
      [] st = "Link" -> "replaced" [] st = "UndoRename" -> "restored"

\* The switch of onOpSucceeded: what follows a step that succeeded.
AfterSuccess(st) ==
    CASE st = "Rename"     -> "Link"
      [] st = "Link"       -> "Unlink"
      [] st = "Unlink"     -> "replaced"
      [] st = "UndoRename" -> "restored"

\* Faulty: a failed link is taken for one that was there; a failed removal is
\* undone.
AfterFailureRemoves(st) == IF st = "Link" THEN "Unlink" ELSE "tmp left"
AfterFailureUndoes(st) ==
    CASE st = "Rename" -> "rename failed"
      [] st \in {"Link", "Unlink"} -> "UndoRename"
      [] st = "UndoRename" -> "restore failed"

\* The switch of onOpFailed.
AfterFailure(st) ==
    CASE st = "Rename"     -> "rename failed"
      [] st = "Link"       -> "UndoRename"
      [] st = "Unlink"     -> "tmp left"
      [] st = "UndoRename" -> "restore failed"

React(after, inFlight, queued) ==
    \/ after \in Step /\ NextStep(after, inFlight, queued)
    \/ after \in Status /\ FinishJob(after, inFlight, queued)

OnOpSucceeded(id, inFlight, queued) ==
    \/ NotMine(id) /\ Ignore(inFlight, queued)
    \/ ~NotMine(id) /\ React(AfterSuccess(step), inFlight, queued)

OnOpFailed(id, inFlight, queued) ==
    \/ NotMine(id) /\ Ignore(inFlight, queued)
    \/ ~NotMine(id) /\ React(AfterFailure(step), inFlight, queued)

\* start(): no-op while a run is in progress or for an empty batch.
Start(js) ==
    /\ ~Running
    /\ js # <<>>
    /\ nextOpId <= MaxOpId
    /\ jobs' = js
    /\ current' = 1
    /\ step' = "Rename"
    /\ succeeded' = 0
    /\ failed' = 0
    /\ report' = <<>>
    /\ Submit("Rename", js[1], ops, posted)
    /\ before' = [batch |-> js, file |-> file, aside |-> aside]
    /\ UNCHANGED <<connected, shareVars, unsure>>

\* The panel, and the runner with it, is deleted once the session is
\* Disconnected and the event loop runs again.
Destroy ==
    /\ ~connected /\ ops = {}
    /\ Running
    /\ jobs' = <<>>
    /\ current' = 0
    /\ UNCHANGED <<step, opId, succeeded, failed, report>>
    /\ UNCHANGED <<sessionVars, shareVars, before, unsure>>

-----------------------------------------------------------------------------
(* The share: what the server does with a request.                         *)

Perform(r) ==
    LET v == r.job.victim
        p == r.job.primary
    IN  \/ /\ r.step = "Rename"
           /\ file[v] # None /\ aside[v] = None
           /\ file' = [file EXCEPT ![v] = None]
           /\ aside' = [aside EXCEPT ![v] = file[v]]
        \/ /\ r.step = "Link"
           /\ file[p] # None /\ file[v] = None
           /\ file' = [file EXCEPT ![v] = file[p]]
           /\ UNCHANGED aside
        \/ /\ r.step = "Unlink"
           /\ aside[v] # None
           /\ aside' = [aside EXCEPT ![v] = None]
           /\ UNCHANGED file
        \/ /\ r.step = "UndoRename"
           /\ aside[v] # None /\ file[v] = None
           /\ file' = [file EXCEPT ![v] = aside[v]]
           /\ aside' = [aside EXCEPT ![v] = None]

Answered(r, a) == (ops \ {r}) \cup {[r EXCEPT !.srv = a]}

Apply(r) ==
    /\ r.srv = "queued"
    /\ Perform(r)
    /\ ops' = Answered(r, "done")
    /\ UNCHANGED <<runnerVars, connected, nextOpId, posted, stray, before, unsure>>

\* The server may refuse any request (permissions, sharing violations, ...).
Reject(r) ==
    /\ r.srv = "queued"
    /\ ops' = Answered(r, "rejected")
    /\ UNCHANGED <<runnerVars, connected, nextOpId, posted, shareVars, before, unsure>>

StrayApplied(r) ==
    /\ Perform(r)
    /\ stray' = stray \ {r}
    /\ UNCHANGED <<runnerVars, sessionVars, before, unsure>>

StrayDropped(r) ==
    /\ stray' = stray \ {r}
    /\ UNCHANGED <<runnerVars, sessionVars, file, aside, before, unsure>>

-----------------------------------------------------------------------------
(* Completions and the connection.                                         *)

\* onOpDone with the server's answer.
Reply(r) ==
    /\ r.srv # "queued"
    /\ IF r.srv = "done"
       THEN OnOpSucceeded(r.id, ops \ {r}, posted)
       ELSE OnOpFailed(r.id, ops \ {r}, posted)
    /\ UNCHANGED <<connected, shareVars, before, unsure>>

\* The client gives the requests in R up; those the server has not seen yet
\* may still reach it.
GiveUp(R) ==
    /\ stray' = stray \cup {r \in R : r.srv = "queued"}
    /\ unsure' = unsure \cup {r.job.victim : r \in R}

\* onOpDone with a timeout status: kPduTimeoutSeconds without an answer.
Timeout(r) ==
    /\ OnOpFailed(r.id, ops \ {r}, posted)
    /\ GiveUp({r})
    /\ UNCHANGED <<connected, file, aside, before>>

\* The state flips first: a handler that disconnects from inside
\* smb2_service() leaves the requests pending until the service pass ends.
Disconnect ==
    /\ connected
    /\ connected' = FALSE
    /\ UNCHANGED <<runnerVars, nextOpId, ops, posted, shareVars, before, unsure>>

\* Faulty: the requests that die in the flush are not answered.
TeardownSilent ==
    /\ ~connected /\ ops # {}
    /\ ops' = {}
    /\ GiveUp(ops)
    /\ UNCHANGED <<runnerVars, connected, nextOpId, posted, file, aside, before>>

\* teardown() flushes the pending callbacks; each queues a failure.
Teardown ==
    /\ ~connected /\ ops # {}
    /\ ops' = {}
    /\ posted' = posted \cup {r.id : r \in ops}
    /\ GiveUp(ops)
    /\ UNCHANGED <<runnerVars, connected, nextOpId, file, aside, before>>

\* The event loop delivers a queued operationFailed.
Deliver(id) ==
    /\ OnOpFailed(id, ops, posted \ {id})
    /\ UNCHANGED <<connected, shareVars, before, unsure>>

\* A new connection; the main window makes a new panel and runner.
Connect ==
    /\ ~connected /\ ops = {} /\ ~Running
    /\ connected' = TRUE
    /\ UNCHANGED <<runnerVars, nextOpId, ops, posted, shareVars, before, unsure>>

Next ==
    \/ \E js \in JobLists : Start(js)
    \/ \E r \in ops : Apply(r)
    \/ \E r \in ops : Reject(r)
    \/ \E r \in ops : Reply(r)
    \/ \E r \in ops : Timeout(r)
    \/ \E r \in stray : StrayApplied(r)
    \/ \E r \in stray : StrayDropped(r)
    \/ \E id \in posted : Deliver(id)
    \/ Disconnect \/ Teardown \/ Connect \/ Destroy

Spec == Init /\ [][Next]_vars

-----------------------------------------------------------------------------
(* Properties.                                                             *)

TypeOK ==
    /\ jobs \in JobLists \cup {<<>>}
    /\ current \in 0 .. Len(jobs)
    /\ Running => current \in DOMAIN jobs
    /\ step \in Step
    /\ opId \in Nat /\ nextOpId \in Nat \ {0}
    /\ succeeded \in Nat /\ failed \in Nat
    /\ report \in Seq(Status)
    /\ connected \in BOOLEAN
    /\ ops \subseteq [id : Nat, step : Step, job : Job,
                      srv : {"queued", "done", "rejected"}]
    /\ stray \subseteq [id : Nat, step : Step, job : Job, srv : {"queued"}]
    /\ posted \subseteq Nat
    /\ file \in Named /\ aside \in Named
    /\ before \in [batch : JobLists \cup {<<>>}, file : Named, aside : Named]
    /\ unsure \subseteq Name

\* A run never waits for an answer that cannot come: the id it waits for is
\* either that of the one request in flight for the current job and step, or
\* has its failure queued on the event loop (SmbSession.h: completion arrives
\* always, asynchronously).
AwaitedOpIsComing ==
    Running =>
        \/ opId \in posted /\ \A r \in ops : r.id # opId
        \/ /\ opId \notin posted
           /\ \E r \in ops :
                /\ r.id = opId /\ r.step = step /\ r.job = jobs[current]
                /\ \A q \in ops : q.id = opId => q = r

\* Ids keep an answer from being taken for that of another request: they are
\* never reused, and a request is answered once.
IdsUnique ==
    /\ opId < nextOpId
    /\ \A p \in posted : p < nextOpId
    /\ \A r \in ops \cup stray : r.id < nextOpId
    /\ \A r \in ops : r.id \notin posted
    /\ \A r, q \in ops : r.id = q.id => r = q
    /\ \A r \in ops, q \in stray : r.id # q.id

\* Requests the server may still apply.
Open == {r \in ops : r.srv = "queued"} \cup stray

\* Requests that take the copy moved aside away.
TakesAside(r) == r.step \in {"Unlink", "UndoRename"}

\* Nobody is about to take the copy of v, which exists.
Held(v) ==
    /\ aside[v] # None
    /\ \A r \in Open : TakesAside(r) => r.job.victim # v

\* Why the data survives.  A request that takes the copy is alone for its
\* victim, the copy exists, and a removal has the link in place; from the
\* server's rename until the runner asks for the removal or the undo, nobody
\* takes the copy.  So a link finds the copy aside, and a leftover request
\* of an earlier job or run finds its path occupied.
CopyKept ==
    /\ \A r \in Open :
         LET v == r.job.victim IN
         /\ r.step = "Link" => file[v] # None \/ aside[v] # None
         /\ TakesAside(r) => aside[v] # None
         /\ r.step = "Unlink" => file[v] # None
    /\ \A r, q \in Open :
         TakesAside(r) /\ TakesAside(q) /\ r.job.victim = q.job.victim => r = q
    /\ Running /\ step = "Link" => Held(jobs[current].victim)
    /\ \A r \in ops :
         Running /\ r.id = opId /\ r.srv = "done" =>
            /\ step = "Rename" => Held(jobs[current].victim)
            /\ step = "Link" => file[jobs[current].victim] # None

\* What jobFinished says of a job is what the share shows, and the victims of
\* the jobs still to come are as they were when the run began, as long as every
\* operation on the two paths had a definite answer, and whatever the other
\* jobs of the batch do: this is what the conflict check of the batch is for.
Shows(status, j) ==
    LET v == j.victim
        p == j.primary
    IN  CASE status = "replaced"      -> /\ file[v] = file[p] /\ file[v] # None
                                         /\ aside[v] = None
          [] status = "rename failed" -> /\ file[v] = before.file[v]
                                         /\ aside[v] = before.aside[v]
          [] status = "restored"      -> /\ file[v] = before.file[v]
                                         /\ aside[v] = None
          [] status = "restore failed" -> aside[v] = before.file[v]
          [] status = "tmp left"      -> /\ file[v] = file[p]
                                         /\ aside[v] = before.file[v]

Sure(j) == j.victim \notin unsure /\ j.primary \notin unsure

ReportTruthful ==
    /\ \A k \in DOMAIN report :
         Sure(before.batch[k]) => Shows(report[k], before.batch[k])
    /\ \A k \in DOMAIN jobs :
         k > current /\ Sure(jobs[k]) =>
            /\ file[jobs[k].victim] = before.file[jobs[k].victim]
            /\ aside[jobs[k].victim] = before.aside[jobs[k].victim]

\* An inode loses its last name only when the copy moved aside is removed
\* while the victim's path names a file again: LinkRunner.h, "the victim's
\* data still exists (under the tmp name) until the link is in place".  It
\* holds with timeouts, late applications and disconnects at every point.
HasName(i) == \E n \in Name : file[n] = i \/ aside[n] = i

NoDataLost ==
    [][\A i \in Inode :
         HasName(i) /\ ~HasName(i)' =>
            \E n \in Name : aside[n] = i /\ file[n] # None]_vars

\* Whatever the runner, the session and the connection do, the share only
\* ever changes as a safe replacement allows (module SafeReplace).
Safe == INSTANCE SafeReplace
ReplacesSafely == Safe!Spec

\* tests/integration/tst_linkrunner.cpp: "If even the first step (rename)
\* fails, the victim is untouched."
RenameFailureLeavesVictimUntouched ==
    \A k \in DOMAIN report :
        report[k] = "rename failed" =>
            LET v == before.batch[k].victim IN file[v] = before.file[v]
=============================================================================
