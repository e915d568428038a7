-------------------------- MODULE LinkRunnerProofs --------------------------
(***************************************************************************)
(* For every set of names, batches and share: the type invariant of        *)
(* LinkRunner, that the answer it waits for always comes, that the share   *)
(* changes only as SafeReplace allows, so that no data is lost, and that   *)
(* the report is true.                                                     *)
(***************************************************************************)
EXTENDS LinkRunner, TLAPS

OpSet == [id : Nat, step : Step, job : Job, srv : {"queued", "done", "rejected"}]

\* The three things a completion can lead to.
Ended(F, Q) ==
    /\ jobs' = <<>> /\ current' = 0
    /\ ops' = F /\ posted' = Q
    /\ UNCHANGED <<step, opId, nextOpId>>

Asked(st, F, Q) ==
    /\ Running
    /\ jobs' = jobs /\ current' \in DOMAIN jobs
    /\ step' = st
    /\ Submit(st, jobs[current'], F, Q)

IInv == TypeOK /\ IdsUnique /\ AwaitedOpIsComing /\ CopyKept

-----------------------------------------------------------------------------
\* What the handlers do, by outcome.
LEMMA SucceededOutcome ==
    ASSUME TypeOK, NEW id, NEW F, NEW Q, OnOpSucceeded(id, F, Q)
    PROVE  \/ NotMine(id) /\ Ignore(F, Q)
           \/ Ended(F, Q)
           \/ Asked("Rename", F, Q)
           \/ id = opId /\ step = "Rename" /\ current' = current /\ Asked("Link", F, Q)
           \/ id = opId /\ step = "Link" /\ current' = current /\ Asked("Unlink", F, Q)
<1>1. CASE NotMine(id) /\ Ignore(F, Q)
  BY <1>1
<1>2. CASE ~NotMine(id)
  <2>1. Running /\ id = opId /\ current \in 1 .. Len(jobs) /\ DOMAIN jobs = 1 .. Len(jobs)
        /\ Len(jobs) \in Nat
    BY <1>2, JobListsAssumption DEF NotMine, TypeOK, Running
  <2>2. CASE step = "Rename" /\ NextStep("Link", F, Q)
    BY <2>1, <2>2 DEF NextStep, Asked
  <2>3. CASE step = "Link" /\ NextStep("Unlink", F, Q)
    BY <2>1, <2>3 DEF NextStep, Asked
  <2>4. ASSUME NEW status, FinishJob(status, F, Q)
        PROVE  Ended(F, Q) \/ Asked("Rename", F, Q)
    BY <2>1, <2>4 DEF FinishJob, Ended, Asked
  <2>5. QED
    BY <1>2, <2>2, <2>3, <2>4 DEF OnOpSucceeded, React, AfterSuccess, Step, TypeOK
<1>3. QED
  BY <1>1, <1>2 DEF OnOpSucceeded

LEMMA FailedOutcome ==
    ASSUME TypeOK, NEW id, NEW F, NEW Q, OnOpFailed(id, F, Q)
    PROVE  \/ NotMine(id) /\ Ignore(F, Q)
           \/ Ended(F, Q)
           \/ Asked("Rename", F, Q)
           \/ id = opId /\ step = "Link" /\ current' = current /\ Asked("UndoRename", F, Q)
<1>1. CASE NotMine(id) /\ Ignore(F, Q)
  BY <1>1
<1>2. CASE ~NotMine(id)
  <2>1. Running /\ id = opId /\ current \in 1 .. Len(jobs) /\ DOMAIN jobs = 1 .. Len(jobs)
        /\ Len(jobs) \in Nat
    BY <1>2, JobListsAssumption DEF NotMine, TypeOK, Running
  <2>2. CASE step = "Link" /\ NextStep("UndoRename", F, Q)
    BY <2>1, <2>2 DEF NextStep, Asked
  <2>3. ASSUME NEW status, FinishJob(status, F, Q)
        PROVE  Ended(F, Q) \/ Asked("Rename", F, Q)
    BY <2>1, <2>3 DEF FinishJob, Ended, Asked
  <2>4. QED
    BY <1>2, <2>2, <2>3 DEF OnOpFailed, React, AfterFailure, Step, TypeOK
<1>3. QED
  BY <1>1, <1>2 DEF OnOpFailed

-----------------------------------------------------------------------------
\* Type correctness.
LEMMA SubmitType ==
    ASSUME nextOpId \in Nat \ {0}, NEW st \in Step, NEW j \in Job,
           NEW F \in SUBSET OpSet, NEW Q \in SUBSET Nat, Submit(st, j, F, Q)
    PROVE  /\ opId' \in Nat /\ nextOpId' \in Nat \ {0}
           /\ ops' \subseteq OpSet /\ posted' \subseteq Nat
<1>1. [id |-> nextOpId, step |-> st, job |-> j, srv |-> "queued"] \in OpSet
  BY DEF OpSet
<1>2. /\ opId' \in Nat /\ nextOpId' \in Nat \ {0}
      /\ nextOpId \in Nat /\ nextOpId + 1 \in Nat
  BY DEF Submit
<1>3. ops' \subseteq OpSet
  BY <1>1 DEF Submit
<1>4. posted' \subseteq Nat
  BY <1>2 DEF Submit
<1>5. QED
  BY <1>2, <1>3, <1>4

\* A completion leaves the runner and the session's requests well typed.
HandlerTyped ==
    /\ jobs' \in JobLists \cup {<<>>}
    /\ current' \in 0 .. Len(jobs')
    /\ jobs' # <<>> => current' \in DOMAIN jobs'
    /\ step' \in Step
    /\ opId' \in Nat /\ nextOpId' \in Nat \ {0}
    /\ succeeded' \in Nat /\ failed' \in Nat
    /\ report' \in Seq(Status)
    /\ ops' \subseteq OpSet
    /\ posted' \subseteq Nat

LEMMA HandlerType ==
    ASSUME TypeOK, NEW id, NEW F \in SUBSET OpSet, NEW Q \in SUBSET Nat,
           OnOpSucceeded(id, F, Q) \/ OnOpFailed(id, F, Q)
    PROVE  HandlerTyped
<1>0. jobs \in Seq(Job)
  <2>1. CASE jobs \in JobLists
    BY <2>1, JobListsAssumption
  <2>2. CASE jobs = <<>>
    BY <2>2
  <2>3. QED
    BY <2>1, <2>2 DEF TypeOK
<1>1. /\ jobs \in Seq(Job) /\ Len(jobs) \in Nat /\ DOMAIN jobs = 1 .. Len(jobs)
      /\ Running => current \in 1 .. Len(jobs)
      /\ succeeded \in Nat /\ failed \in Nat /\ report \in Seq(Status)
      /\ nextOpId \in Nat \ {0} /\ opId \in Nat /\ step \in Step
      /\ jobs \in JobLists \cup {<<>>} /\ current \in 0 .. Len(jobs)
      /\ current \in Nat
  BY <1>0 DEF TypeOK, Running
<1>2. CASE Ignore(F, Q)
  BY <1>1, <1>2 DEF Ignore, runnerVars, HandlerTyped, Running
<1>3. ASSUME NEW st \in Step, NextStep(st, F, Q), Running
      PROVE  HandlerTyped
  <2>1. jobs[current] \in Job
    BY <1>1, <1>3
  <2>2. Submit(st, jobs[current], F, Q)
    BY <1>3 DEF NextStep
  <2>3. /\ opId' \in Nat /\ nextOpId' \in Nat \ {0}
        /\ ops' \subseteq OpSet /\ posted' \subseteq Nat
    BY <1>1, <2>1, <2>2, SubmitType
  <2>4. QED
    BY <1>1, <1>3, <2>3 DEF NextStep, HandlerTyped, Running
<1>4. ASSUME NEW status \in Status, FinishJob(status, F, Q), Running
      PROVE  HandlerTyped
  <2>1. report' \in Seq(Status) /\ succeeded' \in Nat /\ failed' \in Nat
    BY <1>1, <1>4 DEF FinishJob
  <2>2. CASE current >= Len(jobs)
    <3>1. jobs' = <<>> /\ current' = 0 /\ ops' = F /\ posted' = Q
          /\ UNCHANGED <<step, opId, nextOpId>>
      BY <1>1, <1>4, <2>2 DEF FinishJob
    <3>2. QED
      BY <1>1, <2>1, <3>1 DEF HandlerTyped
  <2>3. CASE current < Len(jobs)
    <3>1. /\ current' = current + 1 /\ step' = "Rename" /\ jobs' = jobs
          /\ Submit("Rename", jobs[current + 1], F, Q)
      BY <1>1, <1>4, <2>3 DEF FinishJob
    <3>2. current + 1 \in DOMAIN jobs /\ jobs[current + 1] \in Job
      BY <1>1, <2>3
    <3>3. /\ opId' \in Nat /\ nextOpId' \in Nat \ {0}
          /\ ops' \subseteq OpSet /\ posted' \subseteq Nat
      BY <1>1, <3>1, <3>2, SubmitType DEF Step
    <3>4. QED
      BY <1>1, <2>1, <3>1, <3>2, <3>3 DEF HandlerTyped, Step
  <2>4. QED
    BY <1>1, <2>2, <2>3
<1>5. QED
  BY <1>2, <1>3, <1>4 DEF OnOpSucceeded, OnOpFailed, React, NotMine

\* The share keeps its type whatever the server does.
LEMMA PerformType ==
    ASSUME TypeOK, NEW r, r.job \in Job, Perform(r)
    PROVE  file' \in Named /\ aside' \in Named
  BY DEF TypeOK, Named, Job, Perform

LEMMA TypeInit == Init => TypeOK
<1> SUFFICES ASSUME Init PROVE TypeOK
  OBVIOUS
<1>1. file \in Named /\ aside \in Named
  BY SharesAssumption DEF Init, Named
<1>2. QED
  BY <1>1 DEF Init, TypeOK, Step, Running

LEMMA TypeStep == TypeOK /\ [Next]_vars => TypeOK'
<1> SUFFICES ASSUME TypeOK, [Next]_vars PROVE TypeOK'
  OBVIOUS
<1> DEFINE Stray == [id : Nat, step : Step, job : Job, srv : {"queued"}]
<1>0. /\ ops \subseteq OpSet /\ posted \subseteq Nat
      /\ \A r \in OpSet : r.srv = "queued" => r \in Stray
      /\ \A r \in ops : r.job \in Job /\ r.job.victim \in Name
  BY DEF TypeOK, OpSet, Job
<1>1. ASSUME NEW js \in JobLists, Start(js) PROVE TypeOK'
  <2>1. js \in Seq(Job) /\ js # <<>>
    BY <1>1, JobListsAssumption DEF Start
  <2>2. 1 \in DOMAIN js /\ js[1] \in Job /\ 1 \in 0 .. Len(js)
    BY <2>1
  <2>3. /\ opId' \in Nat /\ nextOpId' \in Nat \ {0}
        /\ ops' \subseteq OpSet /\ posted' \subseteq Nat
    BY <1>0, <1>1, <2>2, SubmitType DEF Start, Step, TypeOK
  <2>4. QED
    BY <1>1, <2>1, <2>2, <2>3 DEF Start, TypeOK, OpSet, Step, Running, shareVars
<1>2. ASSUME NEW r \in ops, Apply(r) PROVE TypeOK'
  <2>1. ops' \subseteq OpSet
    BY <1>0, <1>2 DEF Apply, Answered, OpSet
  <2>2. file' \in Named /\ aside' \in Named
    BY <1>0, <1>2, PerformType DEF Apply
  <2>3. QED
    BY <1>2, <2>1, <2>2 DEF Apply, TypeOK, OpSet, Running, runnerVars
<1>3. ASSUME NEW r \in ops, Reject(r) PROVE TypeOK'
  <2>1. ops' \subseteq OpSet
    BY <1>0, <1>3 DEF Reject, Answered, OpSet
  <2>2. QED
    BY <1>3, <2>1 DEF Reject, TypeOK, OpSet, Running, runnerVars, shareVars
<1>4. ASSUME NEW r \in ops, Reply(r) PROVE TypeOK'
  <2>1. HandlerTyped
    BY <1>0, <1>4, HandlerType DEF Reply
  <2>2. QED
    BY <1>4, <2>1 DEF Reply, TypeOK, OpSet, Running, shareVars, HandlerTyped
<1>5. ASSUME NEW r \in ops, Timeout(r) PROVE TypeOK'
  <2>1. HandlerTyped
    BY <1>0, <1>5, HandlerType DEF Timeout
  <2>2. stray' \subseteq Stray /\ unsure' \subseteq Name
    BY <1>0, <1>5 DEF Timeout, GiveUp, TypeOK
  <2>3. QED
    BY <1>5, <2>1, <2>2 DEF Timeout, TypeOK, OpSet, Running, HandlerTyped
<1>6. ASSUME NEW r \in stray, StrayApplied(r) PROVE TypeOK'
  <2>1. file' \in Named /\ aside' \in Named
    BY <1>6, PerformType DEF StrayApplied, TypeOK
  <2>2. QED
    BY <1>6, <2>1 DEF StrayApplied, TypeOK, Running, runnerVars, sessionVars
<1>7. ASSUME NEW r \in stray, StrayDropped(r) PROVE TypeOK'
  BY <1>7 DEF StrayDropped, TypeOK, Running, runnerVars, sessionVars
<1>8. ASSUME NEW id \in posted, Deliver(id) PROVE TypeOK'
  <2>1. HandlerTyped
    BY <1>0, <1>8, HandlerType DEF Deliver
  <2>2. QED
    BY <1>8, <2>1 DEF Deliver, TypeOK, OpSet, Running, shareVars, HandlerTyped
<1>9. CASE Disconnect
  BY <1>9 DEF Disconnect, TypeOK, Running, runnerVars, shareVars
<1>10. CASE Teardown
  <2>1. stray' \subseteq Stray /\ unsure' \subseteq Name /\ posted' \subseteq Nat
    BY <1>0, <1>10 DEF Teardown, GiveUp, TypeOK, OpSet
  <2>2. QED
    BY <1>10, <2>1 DEF Teardown, TypeOK, Running, runnerVars
<1>11. CASE Connect
  BY <1>11 DEF Connect, TypeOK, Running, runnerVars, shareVars
<1>12. CASE Destroy
  BY <1>12 DEF Destroy, TypeOK, Running, sessionVars, shareVars
<1>13. CASE UNCHANGED vars
  BY <1>13 DEF vars, TypeOK, Running, runnerVars, sessionVars, shareVars
<1>14. QED
  BY <1>1, <1>2, <1>3, <1>4, <1>5, <1>6, <1>7, <1>8, <1>9, <1>10, <1>11, <1>12,
     <1>13 DEF Next

\* Every variable of the runner, the session and the share keeps its type.
THEOREM TypeCorrect == Spec => []TypeOK
  BY TypeInit, TypeStep, PTL DEF Spec

-----------------------------------------------------------------------------
\* Ids, and the answer the runner waits for.
IdInv == TypeOK /\ IdsUnique /\ AwaitedOpIsComing

\* A completion of one of the requests F leaves, or of a queued failure.
LEMMA HandlerIds ==
    ASSUME IdInv, NEW id, NEW F \in SUBSET ops, NEW Q \in SUBSET posted,
           \A r \in ops \ F : r.id = id,
           \A p \in posted \ Q : p = id,
           OnOpSucceeded(id, F, Q) \/ OnOpFailed(id, F, Q),
           \A q \in stray' : q \in stray \/ q \in ops \ F
    PROVE  IdsUnique' /\ AwaitedOpIsComing'
<1>0. /\ opId \in Nat /\ nextOpId \in Nat \ {0}
      /\ \A r \in ops \cup stray : r.id \in Nat
      /\ posted \subseteq Nat
  BY DEF IdInv, TypeOK
<1>a. /\ \A r \in F : r.id < nextOpId /\ r.id \in Nat /\ r.id \notin Q
      /\ \A q \in stray' : q.id < nextOpId /\ q.id \in Nat
      /\ \A r \in F, q \in stray' : r.id # q.id
      /\ \A r, q \in F : r.id = q.id => r = q
      /\ \A p \in Q : p < nextOpId /\ p \in Nat
  <2>1. F \subseteq ops /\ Q \subseteq posted /\ IdsUnique
    BY DEF IdInv
  <2>2. \A p \in Q : p < nextOpId /\ p \in Nat
    BY <1>0, <2>1 DEF IdsUnique
  <2>3. \A r \in F : r.id < nextOpId /\ r.id \in Nat /\ r.id \notin Q
    BY <1>0, <2>1 DEF IdsUnique
  <2>4. \A q \in stray' : q.id < nextOpId /\ q.id \in Nat
    BY <1>0, <2>1 DEF IdsUnique
  <2>5. \A r \in F, q \in stray' : r.id # q.id
    BY <2>1 DEF IdsUnique
  <2>6. QED
    BY <2>1, <2>2, <2>3, <2>4, <2>5 DEF IdsUnique
<1>1. CASE NotMine(id) /\ Ignore(F, Q)
  BY <1>0, <1>1 DEF NotMine, Ignore, runnerVars, IdInv, IdsUnique, AwaitedOpIsComing,
     Running
<1>2. CASE Ended(F, Q)
  BY <1>0, <1>2 DEF Ended, IdInv, IdsUnique, AwaitedOpIsComing, Running
<1>3. ASSUME NEW st, Asked(st, F, Q)
      PROVE  IdsUnique' /\ AwaitedOpIsComing'
  <2> DEFINE new == [id |-> nextOpId, step |-> st, job |-> jobs[current'],
                     srv |-> "queued"]
  <2>1. new.id = nextOpId /\ new.step = st /\ new.job = jobs[current']
    OBVIOUS
  <2>2. CASE /\ opId' = nextOpId
             /\ nextOpId' = nextOpId + 1
             /\ ops' = F \cup {new}
             /\ posted' = Q
    <3> HIDE DEF new
    <3>1. IdsUnique'
      BY <1>0, <1>a, <2>1, <2>2 DEF IdsUnique
    <3>2. AwaitedOpIsComing'
      <4>1. new \in ops' /\ new.id = opId' /\ new.step = step'
            /\ new.job = (jobs[current])'
        BY <1>3, <2>1, <2>2 DEF Asked
      <4>2. \A q \in ops' : q.id = opId' => q = new
        BY <1>0, <2>2 DEF IdInv, IdsUnique
      <4>3. opId' \notin posted'
        BY <1>0, <2>2 DEF IdInv, IdsUnique
      <4>4. QED
        BY <4>1, <4>2, <4>3 DEF AwaitedOpIsComing
    <3>3. QED
      BY <3>1, <3>2
  <2>3. CASE /\ opId' = nextOpId \/ opId' = nextOpId + 1
             /\ nextOpId' = opId' + 1
             /\ ops' = F
             /\ posted' = Q \cup {opId'}
    <3>1. IdsUnique'
      BY <1>0, <1>a, <2>3 DEF IdsUnique
    <3>2. AwaitedOpIsComing'
      BY <1>0, <2>3 DEF IdInv, IdsUnique, AwaitedOpIsComing
    <3>3. QED
      BY <3>1, <3>2
  <2>4. QED
    BY <1>0, <1>3, <2>2, <2>3 DEF Asked, Submit
<1>4. QED
  BY <1>1, <1>2, <1>3, SucceededOutcome, FailedOutcome DEF IdInv

LEMMA IdInit == Init => IdInv
  BY TypeInit DEF Init, IdInv, IdsUnique, AwaitedOpIsComing, Running

LEMMA IdStep == IdInv /\ [Next]_vars => IdInv'
<1> SUFFICES ASSUME IdInv, [Next]_vars PROVE IdsUnique' /\ AwaitedOpIsComing'
  BY TypeStep DEF IdInv
<1>0. /\ TypeOK /\ IdsUnique /\ AwaitedOpIsComing
      /\ opId \in Nat /\ nextOpId \in Nat \ {0}
      /\ \A r \in ops \cup stray : r.id \in Nat
      /\ posted \subseteq Nat
  BY DEF IdInv, TypeOK
<1>1. ASSUME NEW js \in JobLists, Start(js)
      PROVE  IdsUnique' /\ AwaitedOpIsComing'
  <2> DEFINE new == [id |-> nextOpId, step |-> "Rename", job |-> js[1],
                     srv |-> "queued"]
  <2>1. /\ stray' = stray /\ jobs' = js /\ current' = 1 /\ step' = "Rename"
        /\ new.id = nextOpId /\ new.step = "Rename" /\ new.job = js[1]
    BY <1>1 DEF Start, shareVars
  <2>2. CASE /\ opId' = nextOpId
             /\ nextOpId' = nextOpId + 1
             /\ ops' = ops \cup {new}
             /\ posted' = posted
    <3> HIDE DEF new
    <3>1. IdsUnique'
      BY <1>0, <2>1, <2>2 DEF IdsUnique
    <3>2. \A q \in ops' : q.id = opId' => q = new
      BY <1>0, <2>1, <2>2 DEF IdsUnique
    <3>3. opId' \notin posted'
      BY <1>0, <2>2 DEF IdsUnique
    <3>4. AwaitedOpIsComing'
      BY <2>1, <2>2, <3>2, <3>3 DEF AwaitedOpIsComing
    <3>5. QED
      BY <3>1, <3>4
  <2>3. CASE /\ opId' = nextOpId \/ opId' = nextOpId + 1
             /\ nextOpId' = opId' + 1
             /\ ops' = ops
             /\ posted' = posted \cup {opId'}
    BY <1>0, <2>1, <2>3 DEF IdsUnique, AwaitedOpIsComing
  <2>4. QED
    BY <1>0, <1>1, <2>2, <2>3 DEF Start, Submit
<1>2. ASSUME NEW r \in ops, NEW a \in {"done", "rejected"}, ops' = Answered(r, a),
             UNCHANGED <<runnerVars, nextOpId, posted, stray>>
      PROVE  IdsUnique' /\ AwaitedOpIsComing'
  <2> DEFINE s == [r EXCEPT !.srv = a]
  <2>1. s.id = r.id /\ s.step = r.step /\ s.job = r.job
    BY <1>0 DEF TypeOK
  <2>2. ops' = (ops \ {r}) \cup {s}
    BY <1>2 DEF Answered
  <2> HIDE DEF s
  <2>3. IdsUnique'
    BY <1>0, <1>2, <2>1, <2>2 DEF IdsUnique, runnerVars
  <2>4. ASSUME Running', opId' \notin posted'
        PROVE  AwaitedOpIsComing'
    <3>1. PICK t \in ops : t.id = opId /\ t.step = step /\ t.job = jobs[current]
      BY <1>0, <1>2, <2>4 DEF AwaitedOpIsComing, Running, runnerVars
    <3>2. CASE t = r
      BY <1>0, <1>2, <2>1, <2>2, <2>3, <3>1, <3>2
         DEF AwaitedOpIsComing, IdsUnique, runnerVars
    <3>3. CASE t # r
      BY <1>0, <1>2, <2>1, <2>2, <2>3, <3>1, <3>3
         DEF AwaitedOpIsComing, IdsUnique, runnerVars
    <3>4. QED
      BY <3>2, <3>3
  <2>5. ASSUME opId' \in posted'
        PROVE  AwaitedOpIsComing'
    BY <1>0, <2>3, <2>5 DEF AwaitedOpIsComing, IdsUnique
  <2>6. QED
    BY <2>3, <2>4, <2>5 DEF AwaitedOpIsComing
<1>3. ASSUME NEW r \in ops, Reply(r)
      PROVE  IdsUnique' /\ AwaitedOpIsComing'
  <2>1. \A q \in ops \ (ops \ {r}) : q.id = r.id
    OBVIOUS
  <2>2. stray' = stray
    BY <1>3 DEF Reply, shareVars
  <2>3. QED
    BY <1>3, <2>1, <2>2, HandlerIds DEF Reply
<1>4. ASSUME NEW r \in ops, Timeout(r)
      PROVE  IdsUnique' /\ AwaitedOpIsComing'
  <2>1. \A q \in ops \ (ops \ {r}) : q.id = r.id
    OBVIOUS
  <2>2. \A q \in stray' : q \in stray \/ q \in ops \ (ops \ {r})
    BY <1>4 DEF Timeout, GiveUp
  <2>3. QED
    BY <1>4, <2>1, <2>2, HandlerIds DEF Timeout
<1>5. ASSUME NEW id \in posted, Deliver(id)
      PROVE  IdsUnique' /\ AwaitedOpIsComing'
  <2>1. stray' = stray
    BY <1>5 DEF Deliver, shareVars
  <2>2. \A p \in posted \ (posted \ {id}) : p = id
    OBVIOUS
  <2>3. QED
    BY <1>5, <2>1, <2>2, HandlerIds DEF Deliver
<1>6. ASSUME UNCHANGED <<runnerVars, nextOpId, ops, posted>>, stray' \subseteq stray
      PROVE  IdsUnique' /\ AwaitedOpIsComing'
  BY <1>0, <1>6 DEF IdsUnique, AwaitedOpIsComing, Running, runnerVars
<1>7. CASE Teardown
  <2>1. /\ ops' = {} /\ posted' = posted \cup {r.id : r \in ops}
        /\ stray' \subseteq stray \cup ops
        /\ UNCHANGED <<jobs, current, step, opId, nextOpId>>
    BY <1>7 DEF Teardown, GiveUp, runnerVars
  <2>2. IdsUnique'
    BY <1>0, <2>1 DEF IdsUnique
  <2>3. Running => opId \in posted'
    BY <1>0, <2>1 DEF AwaitedOpIsComing
  <2>4. QED
    BY <2>1, <2>2, <2>3 DEF AwaitedOpIsComing, Running
<1>8. CASE Destroy
  BY <1>0, <1>8 DEF Destroy, IdsUnique, AwaitedOpIsComing, Running, sessionVars,
     shareVars
<1>9. QED
  <2>1. ASSUME NEW r \in ops, Apply(r) PROVE IdsUnique' /\ AwaitedOpIsComing'
    BY <1>2, <2>1 DEF Apply
  <2>2. ASSUME NEW r \in ops, Reject(r) PROVE IdsUnique' /\ AwaitedOpIsComing'
    BY <1>2, <2>2 DEF Reject, shareVars
  <2>3. ASSUME NEW r \in stray, StrayApplied(r) \/ StrayDropped(r)
        PROVE  IdsUnique' /\ AwaitedOpIsComing'
    BY <1>6, <2>3 DEF StrayApplied, StrayDropped, sessionVars
  <2>4. CASE Disconnect \/ Connect \/ UNCHANGED vars
    BY <1>6, <2>4 DEF Disconnect, Connect, vars, sessionVars, shareVars
  <2>5. QED
    BY <1>1, <1>3, <1>4, <1>5, <1>7, <1>8, <2>1, <2>2, <2>3, <2>4 DEF Next

\* The runner never waits for an answer that cannot come.
THEOREM AnswerAlwaysComing == Spec => []AwaitedOpIsComing
<1>1. IdInv => AwaitedOpIsComing
  BY DEF IdInv
<1>2. QED
  BY <1>1, IdInit, IdStep, PTL DEF Spec

-----------------------------------------------------------------------------
\* The copy moved aside.
LEMMA OpenFields ==
    ASSUME TypeOK, NEW r \in Open
    PROVE  r.step \in Step /\ r.job \in Job /\ r.job.victim \in Name
           /\ r.job.primary \in Name /\ r.srv = "queued"
  BY DEF TypeOK, Open, Job

\* The server applies a request r that leaves Open: the heart of the argument.
LEMMA PerformKeeps ==
    ASSUME IInv, NEW r \in Open, Perform(r),
           Open' \subseteq Open \ {r},
           UNCHANGED <<jobs, step, opId, current>>,
           \A q \in ops' : q \in ops \/ (r \in ops /\ q.id = r.id)
    PROVE  CopyKept'
<1> DEFINE v == r.job.victim
           p == r.job.primary
<1>0. /\ TypeOK /\ CopyKept /\ AwaitedOpIsComing /\ IdsUnique
      /\ v \in Name /\ p \in Name
      /\ \A q \in Open : q.job.victim \in Name
      /\ Running => jobs[current].victim \in Name
      /\ file \in [Name -> Inode \cup {None}] /\ aside \in [Name -> Inode \cup {None}]
  <2>1. Running => jobs[current] \in Job
    BY JobListsAssumption DEF IInv, TypeOK, Running
  <2>2. QED
    BY <2>1, OpenFields DEF IInv, TypeOK, Named, Job
<1> DEFINE w == jobs[current].victim
<1>1. CASE r.step = "Rename"
  <2>1. /\ file[v] # None /\ aside[v] = None
        /\ file' = [file EXCEPT ![v] = None]
        /\ aside' = [aside EXCEPT ![v] = file[v]]
    BY <1>1 DEF Perform
  <2>2. \A q \in Open : TakesAside(q) => q.job.victim # v
    BY <1>0, <2>1 DEF CopyKept
  <2>3. Running /\ step = "Link" => w # v
    BY <1>0, <2>1 DEF CopyKept, Held
  <2>4. ASSUME NEW q \in ops', Running, q.id = opId, q.srv = "done", step = "Rename"
        PROVE  Held(w)'
    <3>1. CASE q \in ops
      <4>1. Held(w)
        BY <1>0, <2>4, <3>1 DEF CopyKept
      <4>2. QED
        BY <1>0, <2>1, <4>1 DEF Held
    <3>2. CASE r \in ops /\ q.id = r.id
      <4>1. w = v
        BY <1>0, <2>4, <3>2 DEF AwaitedOpIsComing, IdsUnique
      <4>2. QED
        BY <1>0, <2>1, <2>2, <4>1 DEF Held
    <3>3. QED
      BY <3>1, <3>2
  <2>5. ASSUME NEW q \in ops', Running, q.id = opId, q.srv = "done", step = "Link"
        PROVE  file'[w] # None
    <3>1. CASE q \in ops
      BY <1>0, <2>1, <2>3, <2>4, <2>5, <3>1 DEF CopyKept
    <3>2. CASE r \in ops /\ q.id = r.id
      BY <1>0, <1>1, <2>5, <3>2 DEF AwaitedOpIsComing, IdsUnique
    <3>3. QED
      BY <3>1, <3>2
  <2>6. Running /\ step = "Link" => Held(w)'
    BY <1>0, <2>1, <2>3 DEF CopyKept, Held
  <2>7. \A q \in Open' :
          LET u == q.job.victim IN
          /\ q.step = "Link" => file'[u] # None \/ aside'[u] # None
          /\ TakesAside(q) => aside'[u] # None
          /\ q.step = "Unlink" => file'[u] # None
    BY <1>0, <2>1, <2>2 DEF CopyKept, TakesAside
  <2>8. QED
    BY <1>0, <2>4, <2>5, <2>6, <2>7 DEF CopyKept, Running
<1>2. CASE r.step = "Link"
  <2>1. /\ file[p] # None /\ file[v] = None
        /\ file' = [file EXCEPT ![v] = file[p]] /\ aside' = aside
    BY <1>2 DEF Perform
  <2>2. \A n \in Name : file[n] # None => file'[n] # None
    BY <1>0, <2>1
  <2>3. ASSUME NEW q \in ops', Running, q.id = opId, q.srv = "done", step = "Link"
        PROVE  file'[w] # None
    <3>1. CASE q \in ops
      BY <1>0, <2>2, <2>3, <3>1 DEF CopyKept
    <3>2. CASE r \in ops /\ q.id = r.id
      <4>1. w = v
        BY <1>0, <2>3, <3>2 DEF AwaitedOpIsComing, IdsUnique
      <4>2. QED
        BY <1>0, <2>1, <4>1
    <3>3. QED
      BY <3>1, <3>2
  <2>4. ASSUME NEW q \in ops', Running, q.id = opId, q.srv = "done", step = "Rename"
        PROVE  Held(w)'
    <3>1. CASE q \in ops
      <4>1. Held(w)
        BY <1>0, <2>4, <3>1 DEF CopyKept
      <4>2. QED
        BY <1>0, <2>1, <4>1 DEF Held
    <3>2. CASE r \in ops /\ q.id = r.id
      BY <1>0, <1>2, <2>4, <3>2 DEF AwaitedOpIsComing, IdsUnique
    <3>3. QED
      BY <3>1, <3>2
  <2>5. Running /\ step = "Link" => Held(w)'
    BY <1>0, <2>1 DEF CopyKept, Held
  <2>6. QED
    BY <1>0, <2>1, <2>2, <2>3, <2>4, <2>5 DEF CopyKept, Running
<1>3. CASE TakesAside(r)
  <2>1. /\ \A n \in Name : file[n] # None => file'[n] # None
        /\ \A n \in Name \ {v} : aside'[n] = aside[n]
        /\ file'[v] # None
    BY <1>0, <1>3 DEF Perform, TakesAside, CopyKept
  <2>2. \A q \in Open' : TakesAside(q) => q.job.victim # v
    BY <1>0, <1>3 DEF CopyKept
  <2>3. Held(w) => Held(w)' \/ w \notin Name
    BY <1>0, <1>3, <2>1 DEF Held
  <2>4. ASSUME NEW q \in ops', Running, q.id = opId, q.srv = "done"
        PROVE  (step = "Rename" => Held(w)') /\ (step = "Link" => file'[w] # None)
    <3>1. CASE q \in ops
      BY <1>0, <2>1, <2>3, <2>4, <3>1 DEF CopyKept
    <3>2. CASE r \in ops /\ q.id = r.id
      BY <1>0, <1>3, <2>4, <3>2 DEF AwaitedOpIsComing, IdsUnique, TakesAside
    <3>3. QED
      BY <3>1, <3>2
  <2>5. Running /\ step = "Link" => Held(w)'
    BY <1>0, <2>3 DEF CopyKept
  <2>6. \A q \in Open' :
          LET u == q.job.victim IN
          /\ q.step = "Link" => file'[u] # None \/ aside'[u] # None
          /\ TakesAside(q) => aside'[u] # None
          /\ q.step = "Unlink" => file'[u] # None
    BY <1>0, <2>1, <2>2 DEF CopyKept
  <2>7. QED
    BY <1>0, <2>4, <2>5, <2>6 DEF CopyKept, Running
<1>4. QED
  BY <1>1, <1>2, <1>3 DEF Perform, TakesAside

\* A completion that leaves the requests F, none of which is new to Open.
LEMMA HandlerKeeps ==
    ASSUME IInv, NEW id, NEW F \in SUBSET ops, NEW Q \in SUBSET posted,
           {r \in F : r.srv = "queued"} \cup stray' \subseteq Open,
           UNCHANGED <<file, aside>>,
           \/ OnOpFailed(id, F, Q)
           \/ /\ OnOpSucceeded(id, F, Q)
              /\ \E r \in ops : r.id = id /\ r.srv = "done"
    PROVE  CopyKept'
<1>0. /\ TypeOK /\ IdsUnique /\ AwaitedOpIsComing /\ CopyKept
      /\ nextOpId \in Nat
      /\ \A r \in ops : r.id < nextOpId /\ r.id \in Nat
      /\ opId < nextOpId /\ opId \in Nat
  BY DEF IInv, TypeOK, IdsUnique
<1> DEFINE w == jobs[current].victim
<1>1. CASE NotMine(id) /\ Ignore(F, Q)
  <2>1. Open' \subseteq Open /\ ops' \subseteq ops
    BY <1>1 DEF Ignore, Open
  <2>2. UNCHANGED <<jobs, current, step, opId>>
    BY <1>1 DEF Ignore, runnerVars
  <2>3. QED
    BY <1>0, <2>1, <2>2 DEF CopyKept, Held, Running
<1>2. CASE Ended(F, Q)
  <2>1. Open' \subseteq Open
    BY <1>2 DEF Ended, Open
  <2>2. QED
    BY <1>0, <1>2, <2>1 DEF Ended, CopyKept, Running
<1>3. ASSUME NEW st, Asked(st, F, Q),
             st \in {"Link", "Unlink", "UndoRename"} => current' = current /\ Held(w),
             st = "Unlink" => file[w] # None,
             st \in Step
      PROVE  CopyKept'
  <2> DEFINE j == jobs[current']
             new == [id |-> nextOpId, step |-> st, job |-> j, srv |-> "queued"]
  <2>1. /\ new.step = st /\ new.job = j /\ new.id = nextOpId /\ new.srv = "queued"
        /\ TakesAside(new) <=> st \in {"Unlink", "UndoRename"}
    BY DEF TakesAside
  <2>2. /\ ops' \subseteq F \cup {new}
        /\ opId' >= nextOpId
        /\ step' = st /\ jobs' = jobs
    BY <1>0, <1>3 DEF Asked, Submit
  <2> HIDE DEF new
  <2>3. Open' \subseteq Open \cup {new}
    BY <2>2 DEF Open
  <2>4. \A q \in ops' : q.id = opId' => q.srv = "queued"
    BY <1>0, <2>1, <2>2
  <2>5. ASSUME NEW q \in Open'
        PROVE  /\ q.step = "Link" => file[q.job.victim] # None \/ aside[q.job.victim] # None
               /\ TakesAside(q) => aside[q.job.victim] # None
               /\ q.step = "Unlink" => file[q.job.victim] # None
    <3>1. CASE q \in Open
      BY <1>0, <3>1 DEF CopyKept
    <3>2. CASE q = new
      BY <1>3, <2>1, <3>2 DEF Held
    <3>3. QED
      BY <2>3, <3>1, <3>2
  <2>6. ASSUME NEW q \in Open', NEW t \in Open', TakesAside(q), TakesAside(t),
               q.job.victim = t.job.victim
        PROVE  q = t
    <3>1. CASE q \in Open /\ t \in Open
      BY <1>0, <2>6, <3>1 DEF CopyKept
    <3>2. CASE q = new /\ t \in Open
      BY <1>3, <2>1, <2>6, <3>2 DEF Held
    <3>3. CASE t = new /\ q \in Open
      BY <1>3, <2>1, <2>6, <3>3 DEF Held
    <3>4. QED
      BY <2>3, <3>1, <3>2, <3>3
  <2>7. Running' /\ step' = "Link" => Held(w)'
    <3>1. SUFFICES ASSUME st = "Link" PROVE Held(w)'
      BY <2>2
    <3>2. w' = w /\ Held(w) /\ ~TakesAside(new)
      BY <1>3, <2>1, <2>2, <3>1
    <3>3. QED
      BY <2>3, <3>2 DEF Held
  <2>8. \A q \in ops' : ~(q.id = opId' /\ q.srv = "done")
    BY <2>4
  <2>9. QED
    BY <2>5, <2>6, <2>7, <2>8 DEF CopyKept
<1>4. CASE OnOpSucceeded(id, F, Q) /\ \E r \in ops : r.id = id /\ r.srv = "done"
  <2>1. ASSUME id = opId, ~NotMine(id)
        PROVE  /\ step = "Rename" => Held(w)
               /\ step = "Link" => Held(w) /\ file[w] # None
    BY <1>0, <1>4, <2>1 DEF CopyKept, NotMine
  <2>2. QED
    BY <1>0, <1>1, <1>2, <1>3, <1>4, <2>1, SucceededOutcome
       DEF Step, Asked, NotMine
<1>5. CASE OnOpFailed(id, F, Q)
  <2>1. Running /\ step = "Link" => Held(w)
    BY <1>0 DEF CopyKept
  <2>2. QED
    BY <1>0, <1>1, <1>2, <1>3, <1>5, <2>1, FailedOutcome DEF Step, Asked
<1>6. QED
  BY <1>4, <1>5

LEMMA InvInit == Init => IInv
<1> SUFFICES ASSUME Init PROVE IInv
  OBVIOUS
<1>1. Open = {} /\ ops = {} /\ ~Running
  BY DEF Init, Open, Running
<1>2. CopyKept
  BY <1>1 DEF CopyKept
<1>3. QED
  BY <1>2, IdInit DEF IInv, IdInv

LEMMA InvStep == IInv /\ [Next]_vars => IInv'
<1> SUFFICES ASSUME IInv, [Next]_vars PROVE CopyKept'
  BY IdStep DEF IInv, IdInv
<1>0. TypeOK /\ IdsUnique /\ AwaitedOpIsComing /\ CopyKept
  BY DEF IInv
<1>1. ASSUME NEW js \in JobLists, Start(js) PROVE CopyKept'
  <2> DEFINE new == [id |-> nextOpId, step |-> "Rename", job |-> js[1],
                     srv |-> "queued"]
  <2>1. /\ stray' = stray /\ file' = file /\ aside' = aside /\ step' = "Rename"
        /\ new.id = nextOpId /\ new.srv = "queued" /\ new.step = "Rename"
        /\ ops' \subseteq ops \cup {new} /\ opId' \in {nextOpId, nextOpId + 1}
    BY <1>1 DEF Start, Submit, shareVars
  <2> HIDE DEF new
  <2>2. Open' \subseteq Open \cup {new}
    BY <2>1 DEF Open
  <2>3. \A q \in ops' : q.id = opId' => q.srv = "queued"
    BY <1>0, <2>1 DEF TypeOK, IdsUnique
  <2>4. QED
    BY <1>0, <2>1, <2>2, <2>3 DEF CopyKept, TakesAside
<1>2. ASSUME NEW r \in ops, Apply(r) PROVE CopyKept'
  <2>1. r \in Open
    BY <1>2 DEF Apply, Open
  <2>2. PICK s : s = [r EXCEPT !.srv = "done"]
    OBVIOUS
  <2>3. /\ ops' = (ops \ {r}) \cup {s} /\ stray' = stray
        /\ s.srv = "done" /\ s.id = r.id
        /\ UNCHANGED <<jobs, step, opId, current>>
    BY <1>0, <1>2, <2>2 DEF Apply, Answered, TypeOK, runnerVars
  <2>4. r \notin stray
    BY <1>0 DEF IdsUnique
  <2>5. Open' \subseteq Open \ {r}
    BY <2>3, <2>4 DEF Open
  <2>6. QED
    BY <1>2, <2>1, <2>3, <2>5, PerformKeeps DEF Apply
<1>3. ASSUME NEW r \in ops, Reject(r) PROVE CopyKept'
  <2>1. PICK s : s = [r EXCEPT !.srv = "rejected"]
    OBVIOUS
  <2>2. /\ ops' = (ops \ {r}) \cup {s} /\ s.srv = "rejected"
        /\ UNCHANGED <<jobs, step, opId, current, file, aside, stray>>
    BY <1>0, <1>3, <2>1 DEF Reject, Answered, TypeOK, runnerVars, shareVars
  <2>3. Open' \subseteq Open
    BY <2>2 DEF Open
  <2>4. QED
    BY <1>0, <2>2, <2>3 DEF CopyKept, Held, Running
<1>4. ASSUME NEW r \in ops, Reply(r) PROVE CopyKept'
  <2>1. {q \in ops \ {r} : q.srv = "queued"} \cup stray' \subseteq Open
        /\ UNCHANGED <<file, aside>>
    BY <1>4 DEF Reply, shareVars, Open
  <2>2. QED
    BY <1>4, <2>1, HandlerKeeps DEF Reply
<1>5. ASSUME NEW r \in ops, Timeout(r) PROVE CopyKept'
  <2>1. {q \in ops \ {r} : q.srv = "queued"} \cup stray' \subseteq Open
    BY <1>5 DEF Timeout, GiveUp, Open
  <2>2. QED
    BY <1>5, <2>1, HandlerKeeps DEF Timeout
<1>6. ASSUME NEW r \in stray, StrayApplied(r) PROVE CopyKept'
  <2>1. r \in Open /\ Open' \subseteq Open \ {r}
    BY <1>0, <1>6 DEF StrayApplied, sessionVars, Open, IdsUnique
  <2>2. QED
    BY <1>6, <2>1, PerformKeeps DEF StrayApplied, runnerVars, sessionVars
<1>7. ASSUME NEW id \in posted, Deliver(id) PROVE CopyKept'
  <2>1. {q \in ops : q.srv = "queued"} \cup stray' \subseteq Open
        /\ UNCHANGED <<file, aside>>
    BY <1>7 DEF Deliver, shareVars, Open
  <2>2. QED
    BY <1>7, <2>1, HandlerKeeps DEF Deliver
<1>8. ASSUME UNCHANGED <<step, opId, file, aside>>,
             \/ UNCHANGED <<jobs, current>>
             \/ ~Running',
             ops' \subseteq ops, Open' \subseteq Open
      PROVE  CopyKept'
  BY <1>0, <1>8 DEF CopyKept, Held, Running
<1>9. ASSUME NEW r \in stray, StrayDropped(r) PROVE CopyKept'
  BY <1>8, <1>9 DEF StrayDropped, runnerVars, sessionVars, Open
<1>10. CASE Disconnect \/ Connect \/ UNCHANGED vars
  BY <1>8, <1>10 DEF Disconnect, Connect, vars, runnerVars, sessionVars, shareVars, Open
<1>11. CASE Teardown
  BY <1>8, <1>11 DEF Teardown, GiveUp, runnerVars, Open
<1>12. CASE Destroy
  BY <1>8, <1>12 DEF Destroy, Running, sessionVars, shareVars, Open
<1>13. QED
  BY <1>1, <1>2, <1>3, <1>4, <1>5, <1>6, <1>7, <1>9, <1>10, <1>11, <1>12 DEF Next

\* Why the data survives, as an invariant of every run.
THEOREM CopyAlwaysKept == Spec => []CopyKept
<1>1. IInv => CopyKept
  BY DEF IInv
<1>2. QED
  BY <1>1, InvInit, InvStep, PTL DEF Spec

-----------------------------------------------------------------------------
\* The share changes only as SafeReplace allows.
LEMMA PerformIsSafe ==
    ASSUME IInv, NEW r \in Open, Perform(r)
    PROVE  Safe!Next
<1>1. /\ r.job.victim \in Name /\ r.job.primary \in Name /\ r.step \in Step
      /\ r.step = "Link" => file[r.job.victim] # None \/ aside[r.job.victim] # None
      /\ r.step = "Unlink" => file[r.job.victim] # None
  BY OpenFields DEF IInv, CopyKept
<1>2. \/ Safe!MoveAside(r.job.victim)
      \/ Safe!PlaceLink(r.job.primary, r.job.victim)
      \/ Safe!RemoveAside(r.job.victim)
      \/ Safe!PutBack(r.job.victim)
  BY <1>1 DEF Perform, Safe!MoveAside, Safe!PlaceLink, Safe!RemoveAside, Safe!PutBack
<1>3. QED
  BY <1>1, <1>2 DEF Safe!Next

LEMMA StepIsSafe == IInv /\ [Next]_vars => [Safe!Next]_Safe!vars
<1> SUFFICES ASSUME IInv, [Next]_vars PROVE Safe!Next \/ UNCHANGED <<file, aside>>
  BY DEF Safe!vars
<1>1. ASSUME NEW r \in ops, Apply(r) PROVE Safe!Next
  BY <1>1, PerformIsSafe DEF Apply, Open
<1>2. ASSUME NEW r \in stray, StrayApplied(r) PROVE Safe!Next
  BY <1>2, PerformIsSafe DEF StrayApplied, Open
<1>3. QED
  BY <1>1, <1>2 DEF Next, Start, Reject, Reply, Timeout, StrayDropped, Deliver,
     Disconnect, Teardown, Connect, Destroy, vars, shareVars

\* The runner over the asynchronous session implements the safe replacement.
THEOREM RunnerReplacesSafely == Spec => ReplacesSafely
<1>1. Init => Safe!Init
  BY DEF Init, Safe!Init
<1>2. QED
  BY <1>1, InvInit, InvStep, StepIsSafe, PTL DEF Spec, ReplacesSafely, Safe!Spec

\* No step that SafeReplace allows takes the last name of an inode unless it
\* is the copy aside of a file whose path names a file again.
LEMMA SafeLosesNothing ==
    ASSUME TypeOK, Safe!Next, NEW i \in Inode, HasName(i), ~HasName(i)'
    PROVE  \E n \in Name : aside[n] = i /\ file[n] # None
<1>0. /\ file \in [Name -> Inode \cup {None}] /\ aside \in [Name -> Inode \cup {None}]
      /\ i # None
  BY NoneAssumption DEF TypeOK, Named
<1>1. PICK n \in Name : file[n] = i \/ aside[n] = i
  BY DEF HasName
<1>2. \A m \in Name : file'[m] # i /\ aside'[m] # i
  BY DEF HasName
<1>3. PICK v \in Name : \/ Safe!MoveAside(v)
                       \/ \E p \in Name : Safe!PlaceLink(p, v)
                       \/ Safe!RemoveAside(v)
                       \/ Safe!PutBack(v)
  BY DEF Safe!Next
<1>4. CASE Safe!MoveAside(v)
  BY <1>0, <1>1, <1>2, <1>4 DEF Safe!MoveAside
<1>5. CASE \E p \in Name : Safe!PlaceLink(p, v)
  BY <1>0, <1>1, <1>2, <1>5 DEF Safe!PlaceLink
<1>6. CASE Safe!RemoveAside(v)
  BY <1>0, <1>1, <1>2, <1>6 DEF Safe!RemoveAside
<1>7. CASE Safe!PutBack(v)
  BY <1>0, <1>1, <1>2, <1>7 DEF Safe!PutBack
<1>8. QED
  BY <1>3, <1>4, <1>5, <1>6, <1>7

\* The data of a victim is given up only once its path names a file again.
THEOREM NoDataIsLost == Spec => NoDataLost
<1> DEFINE Loss == \A i \in Inode :
                     HasName(i) /\ ~HasName(i)' =>
                        \E n \in Name : aside[n] = i /\ file[n] # None
<1>1. IInv /\ [Next]_vars => [Loss]_vars
  <2> SUFFICES ASSUME IInv, [Next]_vars PROVE Loss
    OBVIOUS
  <2>1. CASE Safe!Next
    BY <2>1, SafeLosesNothing DEF IInv
  <2>2. CASE UNCHANGED <<file, aside>>
    BY <2>2 DEF HasName
  <2>3. QED
    BY <2>1, <2>2, StepIsSafe DEF Safe!vars
<1>2. QED
  BY <1>1, InvInit, InvStep, PTL DEF Spec, NoDataLost

-----------------------------------------------------------------------------
(* What is reported of a job is what the share shows of it, whatever the    *)
(* other jobs of the batch do and whatever earlier runs left over.          *)

\* The runner has one request in flight at most, the one it waits for.
OneInFlight == \A r \in ops : Running /\ r.id = opId

\* What an earlier run left over touches unsure paths only.
LeftoverUnsure == \A r \in stray : r.job.victim \in unsure

\* The report goes through the batch in order.
InStep ==
    /\ DOMAIN report \subseteq DOMAIN before.batch
    /\ Running => jobs = before.batch /\ Len(report) + 1 = current

\* A path the run has not come to yet is as it was at its start.
AsBefore(v) == file[v] = before.file[v] /\ aside[v] = before.aside[v]

Untouched ==
    Running => \A v \in Name \ unsure :
        (\A k \in 1 .. current : v # jobs[k].victim) => AsBefore(v)

\* What the share shows of job j at step st, before and after the server did
\* what the step asks for.
MovedAside(v) == file[v] = None /\ aside[v] = before.file[v]

Reached(st, done, j) ==
    LET v == j.victim IN
    CASE st = "Rename"     -> IF done THEN MovedAside(v) ELSE AsBefore(v)
      [] st = "Link"       -> IF done
                              THEN Shows("tmp left", j) /\ file[v] # None
                              ELSE MovedAside(v)
      [] st = "Unlink"     -> IF done THEN Shows("replaced", j)
                              ELSE Shows("tmp left", j) /\ file[v] # None
      [] st = "UndoRename" -> IF done THEN Shows("restored", j) ELSE MovedAside(v)

Done == \E r \in ops : r.srv = "done"

AtStep == Running /\ Sure(jobs[current]) => Reached(step, Done, jobs[current])

Reported == \A k \in DOMAIN report :
                Sure(before.batch[k]) => Shows(report[k], before.batch[k])

RInv == /\ OneInFlight /\ LeftoverUnsure /\ InStep /\ Untouched /\ AtStep /\ Reported

-----------------------------------------------------------------------------
LEMMA BatchFacts ==
    ASSUME TypeOK, Running
    PROVE  /\ jobs \in Seq(Job) /\ DOMAIN jobs = 1 .. Len(jobs) /\ Len(jobs) \in Nat
           /\ current \in 1 .. Len(jobs)
           /\ \A k \in DOMAIN jobs : jobs[k].victim \in Name /\ jobs[k].primary \in Name
           /\ \A i, k \in DOMAIN jobs : jobs[i].victim = jobs[k].victim => i = k
           /\ \A i, k \in DOMAIN jobs : jobs[i].victim # jobs[k].primary
<1>1. jobs \in JobLists /\ jobs \in Seq(Job) /\ ConflictFree(jobs)
  BY JobListsAssumption DEF TypeOK, Running
<1>2. \A k \in DOMAIN jobs : jobs[k] \in Job
  BY <1>1
<1>3. DOMAIN jobs = 1 .. Len(jobs) /\ Len(jobs) \in Nat /\ current \in DOMAIN jobs
  BY <1>1 DEF TypeOK
<1>4. QED
  BY <1>1, <1>2, <1>3 DEF ConflictFree, Job

LEMMA ReportedFacts ==
    ASSUME TypeOK
    PROVE  /\ DOMAIN before.batch \subseteq Nat
           /\ \A k \in DOMAIN before.batch :
                before.batch[k].victim \in Name /\ before.batch[k].primary \in Name
           /\ report \in Seq(Status) /\ DOMAIN report = 1 .. Len(report)
           /\ Len(report) \in Nat
<1>1. before.batch \in Seq(Job)
  <2>1. before.batch \in JobLists \cup {<<>>}
    BY DEF TypeOK
  <2>2. <<>> \in Seq(Job)
    OBVIOUS
  <2>3. QED
    BY <2>1, <2>2, JobListsAssumption
<1>2. report \in Seq(Status)
  BY DEF TypeOK
<1>3. \A k \in DOMAIN before.batch : before.batch[k] \in Job
  BY <1>1
<1>4. QED
  BY <1>1, <1>2, <1>3 DEF Job

\* What is in flight is the request of the current job and step, and is alone.
LEMMA TheAwaited ==
    ASSUME TypeOK, IdsUnique, AwaitedOpIsComing, OneInFlight, NEW r \in ops
    PROVE  /\ Running /\ r.id = opId /\ r.step = step /\ r.job = jobs[current]
           /\ ops = {r}
<1>1. Running /\ r.id = opId /\ opId \notin posted
  BY DEF OneInFlight, IdsUnique
<1>2. QED
  BY <1>1 DEF AwaitedOpIsComing, OneInFlight, IdsUnique

\* A job is shown as it was while its two paths are left alone.
SameShare(j) ==
    /\ file'[j.victim] = file[j.victim] /\ file'[j.primary] = file[j.primary]
    /\ aside'[j.victim] = aside[j.victim]

LEMMA ShownKept ==
    ASSUME before' = before, NEW j, SameShare(j), NEW s, Shows(s, j)
    PROVE  Shows(s, j)'
  BY DEF Shows, SameShare

LEMMA ReachedKept ==
    ASSUME before' = before, NEW j, SameShare(j), NEW st \in Step, NEW d, Reached(st, d, j)
    PROVE  Reached(st, d, j)'
  BY DEF Reached, AsBefore, MovedAside, Shows, SameShare, Step

\* A step that leaves alone every path with only definite answers.
LEMMA FrameKeeps ==
    ASSUME TypeOK, RInv, UNCHANGED <<runnerVars, before, Done>>, unsure \subseteq unsure',
           OneInFlight', LeftoverUnsure',
           \A n \in Name \ unsure' : file'[n] = file[n] /\ aside'[n] = aside[n]
    PROVE  RInv'
<1>1. UNCHANGED <<jobs, current, step, opId, report, before, Done>>
  BY DEF runnerVars
<1>2. InStep'
  BY <1>1 DEF RInv, InStep, Running
<1>3. Untouched'
  BY <1>1 DEF RInv, Untouched, AsBefore, Running
<1>4. ASSUME NEW j, j.victim \in Name, j.primary \in Name, Sure(j)'
      PROVE  Sure(j) /\ SameShare(j)
  BY <1>4 DEF Sure, SameShare
<1>5. AtStep'
  <2>1. SUFFICES ASSUME Running', (Sure(jobs[current]))'
                 PROVE  (Reached(step, Done, jobs[current]))'
    BY DEF AtStep
  <2>2. Running
    BY <1>1, <2>1 DEF Running
  <2>3. PICK j, st, d : j = jobs[current] /\ st = step /\ d = Done
    OBVIOUS
  <2>4. Sure(j)' /\ j.victim \in Name /\ j.primary \in Name /\ st \in Step
    BY <1>1, <2>1, <2>2, <2>3, BatchFacts DEF Sure, TypeOK
  <2>5. Reached(st, d, j)
    BY <1>4, <2>2, <2>3, <2>4 DEF RInv, AtStep
  <2>6. Reached(st, d, j)'
    BY <1>1, <1>4, <2>4, <2>5, ReachedKept
  <2>7. j = (jobs[current])' /\ st = step' /\ d = Done'
    BY <1>1, <2>3
  <2>8. QED
    BY <2>6, <2>7 DEF Reached, AsBefore, MovedAside, Shows
<1>6. Reported'
  <2>1. SUFFICES ASSUME NEW k \in DOMAIN report, (Sure(before.batch[k]))'
                 PROVE  (Shows(report[k], before.batch[k]))'
    BY <1>1 DEF Reported
  <2>2. PICK j, s : j = before.batch[k] /\ s = report[k]
    OBVIOUS
  <2>3. Sure(j)' /\ j.victim \in Name /\ j.primary \in Name
    BY <1>1, <2>1, <2>2, ReportedFacts DEF RInv, InStep, Sure
  <2>4. Shows(s, j)
    BY <1>4, <2>2, <2>3 DEF RInv, Reported
  <2>5. Shows(s, j)'
    BY <1>1, <1>4, <2>3, <2>4, ShownKept
  <2>6. QED
    BY <1>1, <2>2, <2>5 DEF Shows
<1>7. QED
  BY <1>2, <1>3, <1>5, <1>6 DEF RInv

-----------------------------------------------------------------------------
\* The server does what the step asks for.
LEMMA PerformReaches ==
    ASSUME TypeOK, before' = before, NEW j \in Job, NEW st \in Step, j.primary # j.victim,
           NEW r, r.step = st, r.job = j, Perform(r), Reached(st, FALSE, j)
    PROVE  Reached(st, TRUE, j)'
<1>1. /\ file \in [Name -> Inode \cup {None}] /\ aside \in [Name -> Inode \cup {None}]
      /\ j.victim \in Name /\ j.primary \in Name
  BY DEF TypeOK, Named, Job
<1>2. CASE st = "Rename"
  BY <1>1, <1>2 DEF Perform, Reached, AsBefore, MovedAside
<1>3. CASE st = "Link"
  BY <1>1, <1>3 DEF Perform, Reached, MovedAside, Shows
<1>4. CASE st = "Unlink"
  BY <1>1, <1>4 DEF Perform, Reached, Shows
<1>5. CASE st = "UndoRename"
  BY <1>1, <1>5 DEF Perform, Reached, MovedAside, Shows
<1>6. QED
  BY <1>2, <1>3, <1>4, <1>5 DEF Step

LEMMA ApplyKeeps ==
    ASSUME IInv, RInv, NEW r \in ops, Apply(r)
    PROVE  RInv'
<1>1. /\ TypeOK /\ IdsUnique /\ AwaitedOpIsComing /\ OneInFlight
      /\ UNCHANGED <<jobs, current, step, opId, report, before, unsure, stray>>
  BY DEF IInv, RInv, Apply, runnerVars
<1>2. Running /\ r.id = opId /\ r.step = step /\ r.job = jobs[current] /\ ops = {r}
  BY <1>1, TheAwaited
<1>3. PICK q : q = [r EXCEPT !.srv = "done"]
  OBVIOUS
<1>4. ops' = {q} /\ q.srv = "done" /\ q.id = r.id /\ r.srv = "queued"
  BY <1>1, <1>2, <1>3 DEF Apply, Answered, TypeOK
<1>5. ~Done /\ Done'
  BY <1>2, <1>4 DEF Done
<1>6. PICK j, st : j = jobs[current] /\ st = step
  OBVIOUS
<1>7. /\ j \in Job /\ st \in Step /\ j.victim \in Name /\ j.primary # j.victim
      /\ \A k \in 1 .. Len(jobs) :
            /\ k # current => jobs[k].victim # j.victim
            /\ jobs[k].primary # j.victim
  BY <1>1, <1>2, <1>6, BatchFacts DEF TypeOK
<1>8. \A n \in Name \ {j.victim} : file'[n] = file[n] /\ aside'[n] = aside[n]
  BY <1>1, <1>2, <1>6, <1>7 DEF Apply, Perform, TypeOK, Named
<1>9. OneInFlight' /\ LeftoverUnsure' /\ InStep'
  BY <1>1, <1>2, <1>4 DEF RInv, OneInFlight, LeftoverUnsure, InStep, Running
<1>10. Untouched'
  <2>1. current \in 1 .. current
    BY <1>1, <1>2, BatchFacts
  <2>2. QED
    BY <1>1, <1>2, <1>6, <1>8, <2>1 DEF RInv, Untouched, AsBefore, Running
<1>11. AtStep'
  <2>1. SUFFICES ASSUME Sure(j) PROVE Reached(st, TRUE, j)'
    <3>1. j = (jobs[current])' /\ st = step'
      BY <1>1, <1>6
    <3>2. Sure(j)' = Sure(j)
      BY <1>1 DEF Sure
    <3>3. SUFFICES ASSUME (Sure(jobs[current]))'
                   PROVE  (Reached(step, Done, jobs[current]))'
      BY DEF AtStep
    <3>4. Reached(st, TRUE, j)'
      BY <2>1, <3>1, <3>2, <3>3 DEF Sure
    <3>5. QED
      BY <1>5, <3>1, <3>4 DEF Reached, AsBefore, MovedAside, Shows
  <2>2. Reached(st, FALSE, j)
    BY <1>2, <1>5, <1>6, <2>1 DEF RInv, AtStep, Reached
  <2>3. r.step = st /\ r.job = j /\ Perform(r)
    BY <1>2, <1>6 DEF Apply
  <2>4. QED
    BY <1>1, <1>7, <2>2, <2>3, PerformReaches
<1>12. Reported'
  <2>1. SUFFICES ASSUME NEW k \in DOMAIN report, (Sure(before.batch[k]))'
                 PROVE  (Shows(report[k], before.batch[k]))'
    BY <1>1 DEF Reported
  <2>2. PICK i, s : i = before.batch[k] /\ s = report[k]
    OBVIOUS
  <2>3. k # current /\ k \in 1 .. Len(jobs) /\ i = jobs[k]
    BY <1>1, <1>2, <2>2, ReportedFacts, BatchFacts DEF RInv, InStep
  <2>4. i.victim \in Name \ {j.victim} /\ i.primary \in Name \ {j.victim}
    BY <1>1, <1>2, <1>7, <2>3, BatchFacts
  <2>5. Shows(s, i)
    BY <1>1, <2>1, <2>2 DEF RInv, Reported, Sure
  <2>6. SameShare(i)
    BY <1>8, <2>4 DEF SameShare
  <2>7. Shows(s, i)'
    BY <1>1, <2>5, <2>6, ShownKept
  <2>8. QED
    BY <1>1, <2>2, <2>7 DEF Shows
<1>13. QED
  BY <1>9, <1>10, <1>11, <1>12 DEF RInv

-----------------------------------------------------------------------------
\* What a handler makes of what it is told is what the share shows.
LEMMA LeadsOn ==
    ASSUME NEW st \in Step, NEW j
    PROVE  /\ Reached(st, TRUE, j) =>
                /\ AfterSuccess(st) \in Step => Reached(AfterSuccess(st), FALSE, j)
                /\ AfterSuccess(st) \in Status => Shows(AfterSuccess(st), j)
           /\ Reached(st, FALSE, j) =>
                /\ AfterFailure(st) \in Step => Reached(AfterFailure(st), FALSE, j)
                /\ AfterFailure(st) \in Status => Shows(AfterFailure(st), j)
<1>1. CASE st = "Rename"
  BY <1>1 DEF AfterSuccess, AfterFailure, Reached, Shows, AsBefore, Step, Status
<1>2. CASE st = "Link"
  BY <1>2 DEF AfterSuccess, AfterFailure, Reached, Shows, MovedAside, Step, Status
<1>3. CASE st = "Unlink"
  BY <1>3 DEF AfterSuccess, AfterFailure, Reached, Shows, MovedAside, Step, Status
<1>4. CASE st = "UndoRename"
  BY <1>4 DEF AfterSuccess, AfterFailure, Reached, Shows, MovedAside, Step, Status
<1>5. QED
  BY <1>1, <1>2, <1>3, <1>4 DEF Step

\* A job that only ever met definite answers, those of this step included.
StillSure(j) == Sure(j) /\ j.victim \notin unsure' /\ j.primary \notin unsure'

\* A completion of the awaited request, after which nothing else is in flight.
LEMMA ReactKeeps ==
    ASSUME IInv, RInv, Running, NEW j, j = jobs[current], NEW Q,
           NEW after, React(after, {}, Q),
           StillSure(j) /\ after \in Step => Reached(after, FALSE, j),
           StillSure(j) /\ after \in Status => Shows(after, j),
           UNCHANGED <<file, aside, before>>, unsure \subseteq unsure', LeftoverUnsure'
    PROVE  RInv'
<1>1. /\ TypeOK /\ nextOpId \in Nat /\ opId \in Nat /\ current \in Nat
      /\ report \in Seq(Status) /\ Len(report) \in Nat /\ DOMAIN report = 1 .. Len(report)
      /\ jobs = before.batch /\ Len(report) + 1 = current
      /\ current \in 1 .. Len(jobs) /\ DOMAIN jobs = 1 .. Len(jobs) /\ Len(jobs) \in Nat
      /\ j.victim \in Name /\ j.primary \in Name
      /\ before' = before /\ file' = file /\ aside' = aside
  BY BatchFacts DEF IInv, RInv, InStep, TypeOK
<1>2. \A i : SameShare(i)
  BY <1>1 DEF SameShare
<1>3. ASSUME NEW st, NEW i, Submit(st, i, {}, Q)
      PROVE  \A r \in ops' : r.id = opId' /\ r.srv = "queued"
  BY <1>1, <1>3 DEF Submit
<1>4. CASE after \in Step /\ NextStep(after, {}, Q)
  <2>1. /\ UNCHANGED <<jobs, current, report>> /\ step' = after
        /\ \A r \in ops' : r.id = opId' /\ r.srv = "queued"
    BY <1>3, <1>4 DEF NextStep
  <2>2. OneInFlight' /\ InStep' /\ Untouched'
    BY <1>1, <2>1 DEF RInv, OneInFlight, InStep, Untouched, AsBefore, Running
  <2>3. AtStep'
    <3>1. ~Done' /\ j = (jobs[current])' /\ after = step'
      BY <1>1, <2>1 DEF Done
    <3>2. SUFFICES ASSUME (Sure(jobs[current]))'
                   PROVE  (Reached(step, Done, jobs[current]))'
      BY DEF AtStep
    <3>3. StillSure(j)
      BY <3>1, <3>2 DEF StillSure, Sure
    <3>4. Reached(after, FALSE, j)'
      BY <1>1, <1>2, <1>4, <3>3, ReachedKept
    <3>5. QED
      BY <3>1, <3>4 DEF Reached, AsBefore, MovedAside, Shows
  <2>4. Reported'
    <3>1. SUFFICES ASSUME NEW k \in DOMAIN report, (Sure(before.batch[k]))'
                   PROVE  (Shows(report[k], before.batch[k]))'
      BY <2>1 DEF Reported
    <3>2. Shows(report[k], before.batch[k])
      BY <1>1, <3>1 DEF RInv, Reported, Sure
    <3>3. PICK i, s : i = before.batch[k] /\ s = report[k]
      OBVIOUS
    <3>4. Shows(s, i)'
      BY <1>1, <3>2, <3>3 DEF Shows
    <3>5. i = (before.batch[k])' /\ s = report'[k]
      BY <1>1, <2>1, <3>3
    <3>6. QED
      BY <3>4, <3>5 DEF Shows
  <2>5. QED
    BY <2>2, <2>3, <2>4 DEF RInv
<1>5. CASE after \in Status /\ FinishJob(after, {}, Q)
  <2>1. /\ report' = Append(report, after) /\ DOMAIN report' = 1 .. current
        /\ Len(report') = current /\ report'[current] = after
        /\ \A k \in DOMAIN report : report'[k] = report[k]
    BY <1>1, <1>5 DEF FinishJob
  <2>2. Reported'
    <3>1. SUFFICES ASSUME NEW k \in 1 .. current, (Sure(before.batch[k]))'
                   PROVE  (Shows(report[k], before.batch[k]))'
      BY <2>1 DEF Reported
    <3>2. PICK i, s : i = before.batch[k] /\ s = report'[k]
      OBVIOUS
    <3>3. StillSure(i)
      BY <1>1, <3>1, <3>2 DEF StillSure, Sure
    <3>4. CASE k = current
      BY <1>1, <1>5, <2>1, <3>2, <3>3, <3>4 DEF Shows
    <3>5. CASE k \in DOMAIN report
      <4>1. Shows(s, i)
        BY <2>1, <3>2, <3>3, <3>5 DEF RInv, Reported, StillSure
      <4>2. Shows(s, i)'
        BY <1>1, <1>2, <4>1, ShownKept
      <4>3. i = (before.batch[k])' /\ s = report'[k]
        BY <1>1, <3>2
      <4>4. QED
        BY <4>2, <4>3 DEF Shows
    <3>6. QED
      BY <1>1, <3>4, <3>5
  <2>3. CASE current >= Len(jobs)
    <3>1. jobs' = <<>> /\ ops' = {}
      BY <1>1, <1>5, <2>3 DEF FinishJob
    <3>2. OneInFlight' /\ InStep' /\ Untouched' /\ AtStep'
      BY <1>1, <2>1, <2>3, <3>1 DEF OneInFlight, InStep, Untouched, AtStep, Running
    <3>3. QED
      BY <2>2, <3>2 DEF RInv
  <2>4. CASE current < Len(jobs)
    <3>1. /\ jobs' = jobs /\ current' = current + 1 /\ step' = "Rename"
          /\ \A r \in ops' : r.id = opId' /\ r.srv = "queued"
      BY <1>1, <1>3, <1>5, <2>4 DEF FinishJob
    <3>2. OneInFlight' /\ InStep'
      BY <1>1, <2>1, <2>4, <3>1 DEF OneInFlight, InStep, Running
    <3>3. Untouched'
      <4>1. \A k \in 1 .. current : k \in 1 .. current'
        BY <1>1, <3>1
      <4>2. QED
        BY <1>1, <3>1, <4>1 DEF RInv, Untouched, AsBefore, Running
    <3>4. AtStep'
      <4>1. PICK i : i = jobs[current + 1]
        OBVIOUS
      <4>2. i = (jobs[current])' /\ step' = "Rename" /\ ~Done'
        BY <3>1, <4>1 DEF Done
      <4>3. SUFFICES ASSUME (Sure(jobs[current]))'
                     PROVE  (Reached(step, Done, jobs[current]))'
        BY DEF AtStep
      <4>4. i.victim \notin unsure
        BY <1>1, <4>2, <4>3 DEF Sure
      <4>5. i.victim \in Name /\ \A k \in 1 .. current : i.victim # jobs[k].victim
        BY <1>1, <2>4, <4>1, BatchFacts
      <4>6. AsBefore(i.victim)
        BY <4>4, <4>5 DEF RInv, Untouched
      <4>7. QED
        BY <1>1, <4>2, <4>6 DEF Reached, AsBefore
    <3>5. QED
      BY <2>2, <3>2, <3>3, <3>4 DEF RInv
  <2>5. QED
    BY <1>1, <2>3, <2>4
<1>6. QED
  BY <1>4, <1>5 DEF React

LEMMA HandlerReports ==
    ASSUME IInv, RInv, NEW id, NEW Q,
           \/ /\ OnOpSucceeded(id, {r \in ops : r.id # id}, Q)
              /\ \E r \in ops : r.id = id /\ r.srv = "done"
           \/ /\ OnOpFailed(id, {r \in ops : r.id # id}, Q)
              /\ Running /\ id = opId /\ StillSure(jobs[current]) => ~Done,
           UNCHANGED <<file, aside, before>>, unsure \subseteq unsure', LeftoverUnsure'
    PROVE  RInv'
<1> DEFINE F == {r \in ops : r.id # id}
<1>1. CASE NotMine(id) /\ Ignore(F, Q)
  <2>1. F = ops
    BY <1>1 DEF NotMine, RInv, OneInFlight
  <2>2. UNCHANGED <<runnerVars, Done>> /\ OneInFlight'
    BY <1>1, <2>1 DEF Ignore, Done, RInv, OneInFlight, runnerVars, Running
  <2>3. QED
    BY <2>2, FrameKeeps DEF IInv
<1>2. CASE ~NotMine(id)
  <2>1. Running /\ id = opId /\ F = {} /\ TypeOK /\ step \in Step
    BY <1>2 DEF NotMine, RInv, OneInFlight, IInv, TypeOK
  <2>2. PICK j : j = jobs[current]
    OBVIOUS
  <2>3. StillSure(j) => Reached(step, Done, j)
    BY <2>1, <2>2 DEF StillSure, RInv, AtStep
  <2>4. CASE OnOpSucceeded(id, F, Q) /\ \E r \in ops : r.id = id /\ r.srv = "done"
    <3>1. Done
      BY <2>4 DEF Done
    <3>2. React(AfterSuccess(step), {}, Q)
      BY <1>2, <2>1, <2>4 DEF OnOpSucceeded
    <3>3. StillSure(j) => Reached(step, TRUE, j)
      BY <2>3, <3>1 DEF Reached
    <3>4. QED
      BY <2>1, <2>2, <3>2, <3>3, LeadsOn, ReactKeeps
  <2>5. CASE OnOpFailed(id, F, Q) /\ (StillSure(j) => ~Done)
    <3>1. React(AfterFailure(step), {}, Q)
      BY <1>2, <2>1, <2>5 DEF OnOpFailed
    <3>2. StillSure(j) => Reached(step, FALSE, j)
      BY <2>3, <2>5 DEF Reached
    <3>3. QED
      BY <2>1, <2>2, <3>1, <3>2, LeadsOn, ReactKeeps
  <2>6. QED
    BY <2>1, <2>2, <2>4, <2>5
<1>3. QED
  BY <1>1, <1>2 DEF OnOpSucceeded, OnOpFailed

-----------------------------------------------------------------------------
LEMMA ReportInit == Init => RInv
<1> SUFFICES ASSUME Init PROVE RInv
  OBVIOUS
<1>1. jobs = <<>> /\ report = <<>> /\ ops = {} /\ stray = {} /\ before.batch = <<>>
  BY DEF Init
<1>2. QED
  BY <1>1 DEF RInv, OneInFlight, LeftoverUnsure, InStep, Untouched, AtStep, Reported, Running

LEMMA ReportStep == IInv /\ RInv /\ [Next]_vars => RInv'
<1> SUFFICES ASSUME IInv, RInv, [Next]_vars PROVE RInv'
  OBVIOUS
<1>0. /\ TypeOK /\ IdsUnique /\ AwaitedOpIsComing /\ OneInFlight /\ LeftoverUnsure
      /\ ~Running => ops = {}
  BY DEF IInv, RInv, OneInFlight
<1>1. ASSUME NEW js \in JobLists, Start(js) PROVE RInv'
  <2>1. /\ js \in Seq(Job) /\ js # <<>> /\ ops = {} /\ nextOpId \in Nat
        /\ jobs' = js /\ current' = 1 /\ step' = "Rename" /\ report' = <<>>
        /\ UNCHANGED <<file, aside, stray, unsure>>
        /\ before' = [batch |-> js, file |-> file, aside |-> aside]
    BY <1>0, <1>1, JobListsAssumption DEF Start, shareVars, TypeOK
  <2>2. \A r \in ops' : r.id = opId' /\ r.srv = "queued"
    BY <1>1, <2>1 DEF Start, Submit
  <2>3. OneInFlight' /\ LeftoverUnsure' /\ InStep' /\ Reported'
    BY <1>0, <2>1, <2>2 DEF OneInFlight, LeftoverUnsure, InStep, Reported, Running
  <2>4. \A v : AsBefore(v)'
    BY <2>1 DEF AsBefore
  <2>5. ~Done'
    BY <2>2 DEF Done
  <2>6. Untouched'
    BY <2>4 DEF Untouched
  <2>7. AtStep'
    BY <2>1, <2>5 DEF AtStep, Reached, AsBefore
  <2>8. QED
    BY <2>3, <2>6, <2>7 DEF RInv
<1>2. ASSUME NEW r \in ops, Apply(r) PROVE RInv'
  BY <1>2, ApplyKeeps
<1>3. ASSUME NEW r \in ops, Reject(r) PROVE RInv'
  <2>1. PICK q : q = [r EXCEPT !.srv = "rejected"]
    OBVIOUS
  <2>2. /\ ops = {r} /\ r.srv = "queued" /\ ops' = {q} /\ q.srv = "rejected" /\ q.id = r.id
        /\ UNCHANGED <<runnerVars, shareVars, before, unsure>>
    BY <1>0, <1>3, <2>1, TheAwaited DEF Reject, Answered, TypeOK
  <2>3. Done' = Done
    BY <2>2 DEF Done
  <2>4. OneInFlight' /\ LeftoverUnsure'
    BY <1>0, <2>2 DEF OneInFlight, LeftoverUnsure, Running, runnerVars, shareVars
  <2>5. QED
    BY <1>0, <2>2, <2>3, <2>4, FrameKeeps DEF shareVars
<1>4. ASSUME NEW r \in ops, Reply(r) PROVE RInv'
  <2>1. /\ ops = {r} /\ ops \ {r} = {q \in ops : q.id # r.id}
        /\ UNCHANGED <<file, aside, before, unsure, stray>>
    BY <1>0, <1>4, TheAwaited DEF Reply, shareVars
  <2>2. LeftoverUnsure'
    BY <1>0, <2>1 DEF LeftoverUnsure
  <2>3. r.srv # "done" => ~Done
    BY <2>1 DEF Done
  <2>4. QED
    BY <1>4, <2>1, <2>2, <2>3, HandlerReports DEF Reply
<1>5. ASSUME NEW r \in ops, Timeout(r) PROVE RInv'
  <2>1. /\ Running /\ ops = {r} /\ ops \ {r} = {q \in ops : q.id # r.id}
        /\ r.job = jobs[current] /\ UNCHANGED <<file, aside, before>>
        /\ unsure' = unsure \cup {r.job.victim}
        /\ \A q \in stray' : q \in stray \/ q = r
    BY <1>0, <1>5, TheAwaited DEF Timeout, GiveUp
  <2>2. LeftoverUnsure' /\ ~StillSure(jobs[current])
    BY <1>0, <2>1 DEF LeftoverUnsure, StillSure
  <2>3. QED
    BY <1>5, <2>1, <2>2, HandlerReports DEF Timeout
<1>6. ASSUME NEW r \in stray, StrayApplied(r) PROVE RInv'
  <2>1. \A n \in Name \ unsure : file'[n] = file[n] /\ aside'[n] = aside[n]
    BY <1>0, <1>6 DEF StrayApplied, Perform, LeftoverUnsure, TypeOK, Named
  <2>2. /\ UNCHANGED <<runnerVars, ops, before, unsure>> /\ stray' \subseteq stray
    BY <1>6 DEF StrayApplied, sessionVars
  <2>3. OneInFlight' /\ LeftoverUnsure' /\ Done' = Done
    BY <1>0, <2>2 DEF OneInFlight, LeftoverUnsure, Done, Running, runnerVars
  <2>4. QED
    BY <1>0, <2>1, <2>2, <2>3, FrameKeeps
<1>7. ASSUME NEW id \in posted, Deliver(id) PROVE RInv'
  <2>1. /\ ops = {q \in ops : q.id # id}
        /\ UNCHANGED <<file, aside, before, unsure, stray>>
    BY <1>0, <1>7 DEF Deliver, shareVars, IdsUnique
  <2>2. LeftoverUnsure'
    BY <1>0, <2>1 DEF LeftoverUnsure
  <2>3. Running /\ id = opId => ~Done
    BY <1>0, <1>7 DEF Done, OneInFlight, IdsUnique
  <2>4. QED
    BY <1>7, <2>1, <2>2, <2>3, HandlerReports DEF Deliver
<1>8. ASSUME UNCHANGED <<runnerVars, file, aside, before, unsure>>,
             ops' = ops, stray' \subseteq stray
      PROVE  RInv'
  <2>1. OneInFlight' /\ LeftoverUnsure' /\ Done' = Done
    BY <1>0, <1>8 DEF OneInFlight, LeftoverUnsure, Done, Running, runnerVars
  <2>2. QED
    BY <1>0, <1>8, <2>1, FrameKeeps
<1>9. ASSUME NEW r \in stray, StrayDropped(r) PROVE RInv'
  BY <1>8, <1>9 DEF StrayDropped, sessionVars
<1>10. CASE Disconnect \/ Connect \/ UNCHANGED vars
  BY <1>8, <1>10 DEF Disconnect, Connect, vars, sessionVars, shareVars
<1>11. CASE Teardown
  <2>1. PICK r \in ops : TRUE
    BY <1>11 DEF Teardown
  <2>2. Running /\ ops = {r} /\ r.job = jobs[current]
    BY <1>0, TheAwaited
  <2>3. /\ ops' = {} /\ unsure' = unsure \cup {r.job.victim}
        /\ \A q \in stray' : q \in stray \/ q = r
        /\ UNCHANGED <<runnerVars, before, file, aside>>
    BY <1>11, <2>2 DEF Teardown, GiveUp
  <2>4. OneInFlight' /\ LeftoverUnsure'
    BY <1>0, <2>3 DEF OneInFlight, LeftoverUnsure
  <2>5. InStep' /\ Untouched' /\ Reported'
    <3>1. InStep'
      BY <2>3 DEF RInv, InStep, Running, runnerVars
    <3>2. Untouched'
      BY <2>3 DEF RInv, Untouched, AsBefore, Running, runnerVars
    <3>3. Reported'
      BY <2>3 DEF RInv, Reported, Sure, Shows, runnerVars
    <3>4. QED
      BY <3>1, <3>2, <3>3
  <2>6. AtStep'
    BY <2>2, <2>3 DEF AtStep, Sure, runnerVars
  <2>7. QED
    BY <2>4, <2>5, <2>6 DEF RInv
<1>12. CASE Destroy
  <2>1. /\ jobs' = <<>> /\ ops' = {}
        /\ UNCHANGED <<report, file, aside, stray, unsure, before>>
    BY <1>12 DEF Destroy, sessionVars, shareVars
  <2>2. OneInFlight' /\ LeftoverUnsure' /\ InStep' /\ Untouched' /\ AtStep'
    BY <1>0, <2>1 DEF RInv, OneInFlight, LeftoverUnsure, InStep, Untouched, AtStep, Running
  <2>3. Reported'
    BY <2>1 DEF RInv, Reported, Sure, Shows
  <2>4. QED
    BY <2>2, <2>3 DEF RInv
<1>13. QED
  BY <1>1, <1>2, <1>3, <1>4, <1>5, <1>6, <1>7, <1>9, <1>10, <1>11, <1>12 DEF Next

\* What a run reports of a job is what the share shows of its two paths,
\* whatever the other jobs do and whatever earlier runs left to be applied.
THEOREM ReportAlwaysTruthful == Spec => []ReportTruthful
<1>1. IInv /\ RInv => ReportTruthful
  <2>1. SUFFICES ASSUME IInv, RInv, NEW k \in DOMAIN jobs, k > current,
                        jobs[k].victim \notin unsure
                 PROVE  AsBefore(jobs[k].victim)
    BY DEF RInv, Reported, ReportTruthful, Sure, AsBefore
  <2>2. Running /\ TypeOK
    BY <2>1 DEF Running, IInv
  <2>3. /\ jobs[k].victim \in Name
        /\ \A m \in 1 .. current : jobs[k].victim # jobs[m].victim
    BY <2>1, <2>2, BatchFacts
  <2>4. QED
    BY <2>1, <2>2, <2>3 DEF RInv, Untouched
<1>2. QED
  BY <1>1, InvInit, InvStep, ReportInit, ReportStep, PTL DEF Spec
=============================================================================
