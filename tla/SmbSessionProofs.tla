-------------------------- MODULE SmbSessionProofs --------------------------
(***************************************************************************)
(* Proofs about SmbSession for any requests and any number of connections: *)
(* that no context is destroyed under libsmb2, that nothing of a           *)
(* connection outlives it, that every request in flight has a context that *)
(* answers it, that ends are explained and the log is truthful, and that   *)
(* the operations implement OpChannel.                                     *)
(***************************************************************************)
EXTENDS SmbSession, TLAPS

\* Where the session stands while smb2_service() runs and between passes.
Passes ==
    /\ inService # 0 => inService = ctx
    /\ EventLoop => ~teardownPending /\ ~pendingError /\ ~handler
    /\ pendingError => teardownPending
    /\ teardownPending => pendingError \/ state = "Disconnected"
    /\ state = "Disconnected" => EventLoop \/ teardownPending
    /\ handler => ~connecting

\* A host lookup is that of the attempt under way, which has no context yet.
Lookups ==
    /\ running \subseteq {lookup} /\ running \cap resolved = {}
    /\ lookup # 0 => state = "Connecting" /\ ctx = 0 /\ lookup = attempt
    /\ state = "Connecting" /\ ctx = 0 => resolved \subseteq {attempt} /\ attempt \notin destroyed
    /\ prompting => state = "Disconnected" /\ EventLoop

\* The context is that of the last attempt, and a session without a context
\* is not connected.
Contexts ==
    /\ ctx # 0 => ctx = attempt /\ host = ctx /\ ctx \notin destroyed
    /\ state = "Connected" \/ connecting => ctx # 0
    /\ connecting => state = "Connecting"
    /\ state = "Disconnected" /\ EventLoop => ctx = 0
    /\ state = "Disconnected" => fate \notin {"open", "connected"}

\* Requests hang on the context and came when it was connected.
Hanging ==
    \A r \in Requests : reply[r] = "pending" => ctx # 0 /\ on[r] = ctx /\ ~connecting

\* What is queued is in the log, with an outcome if a callback brought one.
Entry(o) ==
    /\ reply[o] \in {"queued", "ok", "failed"} => log[o] # "none"
    /\ reply[o] = "new" => on[o] = 0
    /\ reply[o] \in {"new", "pending"} => o \notin answered /\ log[o] = "none"
    /\ log[o] = "ok" => o \in applied
    /\ on[o] # 0 /\ log[o] # "none" => (log[o] = "unknown" <=> o \notin answered)

Logged == \A o \in Ops : Entry(o)

IInv == TypeOK /\ Passes /\ Lookups /\ Contexts /\ Hanging /\ Logged

-----------------------------------------------------------------------------
(* Teardown and connecting, which several actions share.                   *)

LEMMA FlushFacts ==
    ASSUME IInv, Flush
    PROVE  /\ reply' \in [Requests -> Standing]
           /\ log' \in [Ops -> {"none", "ok", "failed", "unknown"}]
           /\ \A r \in Requests : reply'[r] # "pending"
           /\ UNCHANGED <<on, applied, answered>> => Logged'
<1>1. Ops \subseteq Requests
  BY DEF Requests
<1>2. reply \in [Requests -> Standing] /\ log \in [Ops -> {"none", "ok", "failed", "unknown"}]
  BY DEF IInv, TypeOK
<1>3. \A r \in Requests : reply'[r] = IF reply[r] # "pending" THEN reply[r]
                                      ELSE IF r \in Ops THEN "queued" ELSE "dropped"
  BY DEF Flush
<1>4. \A o \in Ops : log'[o] = IF reply[o] = "pending" THEN "unknown" ELSE log[o]
  BY DEF Flush
<1>5. reply' \in [Requests -> Standing]
  BY <1>2 DEF Flush, Standing
<1>6. log' \in [Ops -> {"none", "ok", "failed", "unknown"}]
  BY <1>2 DEF Flush
<1>7. \A r \in Requests : reply'[r] # "pending"
  BY <1>3
<1>8. ASSUME UNCHANGED <<on, applied, answered>> PROVE Logged'
  BY <1>1, <1>2, <1>3, <1>4, <1>8 DEF IInv, Logged, Entry, Standing
<1> QED
  BY <1>5, <1>6, <1>7, <1>8

\* Whoever tears the session down leaves it as it was before the attempt.
LEMMA TeardownKeeps ==
    ASSUME IInv, Teardown, state' = "Disconnected",
           fate' \in {"none", "user", "error"}, inService' = 0, ~handler', handler' \in BOOLEAN,
           UNCHANGED <<attempt, resolved, on, applied, refused, answered>>, prompting' = FALSE
    PROVE  IInv'
<1>1. Flush
  BY DEF Teardown
<1>2. TypeOK'
  <2>1. {lookup', ctx', host', inService'} \subseteq 0 .. attempt'
    BY MaxAttemptAssumption DEF IInv, TypeOK, Teardown
  <2>2. running' \cup resolved' \cup destroyed' \subseteq 1 .. attempt'
    BY MaxAttemptAssumption DEF IInv, TypeOK, Teardown
  <2>3. reply' \in [Requests -> Standing] /\ log' \in [Ops -> {"none", "ok", "failed", "unknown"}]
    BY <1>1, FlushFacts
  <2>4. on' \in [Requests -> 0 .. attempt']
    BY DEF IInv, TypeOK
  <2> QED
    BY <2>1, <2>2, <2>3, <2>4 DEF IInv, TypeOK, Teardown
<1>3. Passes'
  BY DEF Teardown, Passes, EventLoop
<1>4. Lookups'
  BY DEF IInv, Lookups, Teardown
<1>5. Contexts'
  BY DEF IInv, Contexts, Teardown, EventLoop
<1>6. Hanging' /\ Logged'
  BY <1>1, FlushFacts DEF Hanging
<1> QED
  BY <1>2, <1>3, <1>4, <1>5, <1>6 DEF IInv

\* startSmbConnect for an attempt that has no context and no lookup any more.
LEMMA ConnectKeeps ==
    ASSUME IInv, EventLoop, ctx = 0, NEW a \in 1 .. MaxAttempt,
           attempt' = a, attempt <= a, a \notin destroyed, running = {}, resolved' \subseteq resolved,
           StartSmbConnect(a, a, 0),
           UNCHANGED <<inService, handler, on, applied, refused, answered>>, prompting' = FALSE
    PROVE  IInv'
<1> USE MaxAttemptAssumption
<1>1. \A r \in Requests : reply[r] # "pending"
  BY DEF IInv, Hanging
<1>2. attempt \in Nat /\ 0 .. attempt \subseteq 0 .. a /\ 1 .. attempt \subseteq 1 .. a
  BY DEF IInv, TypeOK
<1>3. CASE UNCHANGED <<connecting, Kept>> /\ state' = "Disconnected" /\ fate' = "error" /\ ctx' = 0 /\ host' = 0 /\ lookup' = 0
  <2>1. TypeOK'
    <3>1. {lookup', ctx', host', inService'} \subseteq 0 .. a
      BY <1>2, <1>3 DEF IInv, TypeOK
    <3>2. running' \cup resolved' \cup destroyed' \subseteq 1 .. a
      BY <1>2, <1>3 DEF IInv, TypeOK, Kept
    <3>3. on' \in [Requests -> 0 .. a] /\ a \in 0 .. MaxAttempt
      BY <1>2 DEF IInv, TypeOK
    <3> HIDE MaxAttemptAssumption
    <3> QED
      BY <1>3, <3>1, <3>2, <3>3 DEF IInv, TypeOK, Kept
  <2>2. Passes' /\ Lookups' /\ Contexts' /\ Hanging' /\ Logged'
    BY <1>1, <1>3 DEF IInv, Passes, Lookups, Contexts, Hanging, Logged, Entry, Kept, EventLoop
  <2> QED
    BY <2>1, <2>2 DEF IInv
<1>4. CASE /\ state' = "Disconnected" /\ fate' = "error"
           /\ running' = running \ {0} /\ lookup' = 0
           /\ destroyed' = destroyed \cup {a}
           /\ ctx' = 0 /\ host' = 0 /\ connecting' = FALSE
           /\ teardownPending' = FALSE /\ pendingError' = FALSE
           /\ Flush
  <2>1. TypeOK'
    <3>1. {lookup', ctx', host', inService'} \subseteq 0 .. a
      BY <1>2, <1>4 DEF IInv, TypeOK
    <3>2. running' \cup resolved' \cup destroyed' \subseteq 1 .. a
      BY <1>2, <1>4 DEF IInv, TypeOK
    <3>3. on' \in [Requests -> 0 .. a]
      BY <1>2 DEF IInv, TypeOK
    <3>4. reply' \in [Requests -> Standing] /\ log' \in [Ops -> {"none", "ok", "failed", "unknown"}]
      BY <1>4, FlushFacts
    <3>5. attempt' = a /\ a \in 0 .. MaxAttempt
      OBVIOUS
    <3>6. handler' \in BOOLEAN /\ applied' \cup refused' \cup answered' \subseteq Ops
      BY DEF IInv, TypeOK
    <3> HIDE MaxAttemptAssumption
    <3> QED
      BY <1>4, <3>1, <3>2, <3>3, <3>4, <3>5, <3>6 DEF TypeOK
  <2>2. Passes' /\ Lookups' /\ Contexts'
    BY <1>4 DEF IInv, Passes, Lookups, Contexts, EventLoop
  <2>3. Hanging' /\ Logged'
    BY <1>4, FlushFacts DEF Hanging
  <2> QED
    BY <2>1, <2>2, <2>3 DEF IInv
<1>5. CASE /\ state' = "Connecting" /\ fate' = "open"
           /\ ctx' = a /\ host' = a /\ lookup' = 0
           /\ connecting' = TRUE
           /\ UNCHANGED Kept
  <2>1. TypeOK'
    <3>1. {lookup', ctx', host', inService'} \subseteq 0 .. a
      BY <1>2, <1>5 DEF IInv, TypeOK
    <3>2. running' \cup resolved' \cup destroyed' \subseteq 1 .. a
      BY <1>2, <1>5 DEF IInv, TypeOK, Kept
    <3>3. on' \in [Requests -> 0 .. a] /\ a \in 0 .. MaxAttempt
      BY <1>2 DEF IInv, TypeOK
    <3> HIDE MaxAttemptAssumption
    <3> QED
      BY <1>5, <3>1, <3>2, <3>3 DEF IInv, TypeOK, Kept
  <2>2. Passes' /\ Lookups' /\ Contexts' /\ Hanging' /\ Logged'
    BY <1>1, <1>5 DEF IInv, Passes, Lookups, Contexts, Hanging, Logged, Entry, Kept, EventLoop
  <2> QED
    BY <2>1, <2>2 DEF IInv
<1> QED
  BY <1>3, <1>4, <1>5 DEF StartSmbConnect

-----------------------------------------------------------------------------
(* Every action keeps the invariant.                                       *)

LEMMA PromptKeeps == ASSUME IInv, OpenPrompt \/ CancelPrompt PROVE IInv'
<1>1. TypeOK'
  BY DEF IInv, TypeOK, OpenPrompt, CancelPrompt, pass, reqs
<1>2. Passes' /\ Lookups' /\ Contexts' /\ Hanging' /\ Logged'
  BY DEF IInv, Passes, Lookups, Contexts, Hanging, Logged, Entry, EventLoop, OpenPrompt, CancelPrompt,
         pass, reqs
<1> QED
  BY <1>1, <1>2 DEF IInv

\* The prompt is answered between passes, with no lookup posted.
LEMMA AnswerPromptKeeps == ASSUME IInv, AnswerPrompt PROVE IInv'
<1> USE MaxAttemptAssumption
<1>0. /\ EventLoop /\ resolved = {} /\ prompting' = FALSE /\ state = "Disconnected" /\ ConnectToShare
  BY DEF IInv, Lookups, AnswerPrompt
<1>1. attempt \in Nat /\ attempt + 1 \in 1 .. MaxAttempt /\ attempt <= attempt + 1 /\ attempt + 1 \notin destroyed
  BY <1>0 DEF IInv, TypeOK, ConnectToShare
<1>2. ctx = 0 /\ lookup = 0 /\ running = {}
  BY <1>0 DEF IInv, TypeOK, Contexts, Lookups
<1>3. CASE StartSmbConnect(attempt + 1, attempt + 1, lookup)
  <2>1. /\ EventLoop /\ attempt' = attempt + 1 /\ resolved' \subseteq resolved
        /\ UNCHANGED <<inService, handler, on, applied, refused, answered>>
    BY <1>0 DEF ConnectToShare
  <2>2. StartSmbConnect(attempt + 1, attempt + 1, 0)
    BY <1>2, <1>3
  <2> QED
    BY <1>0, <1>1, <1>2, <2>1, <2>2, ConnectKeeps
<1>4. CASE /\ state' = "Connecting" /\ fate' = "open"
           /\ lookup' = attempt + 1
           /\ running' = running \cup {attempt + 1}
           /\ UNCHANGED <<ctx, host, connecting, destroyed>>
           /\ UNCHANGED <<teardownPending, pendingError, reply, log>>
  <2>1. TypeOK'
    <3>1. attempt' = attempt + 1 /\ {lookup', ctx', host', inService'} \subseteq 0 .. attempt'
      BY <1>0, <1>1, <1>4 DEF IInv, TypeOK, ConnectToShare
    <3>2. running' \cup resolved' \cup destroyed' \subseteq 1 .. attempt'
      BY <1>0, <1>1, <1>4, <3>1 DEF IInv, TypeOK, ConnectToShare
    <3>3. on' \in [Requests -> 0 .. attempt'] /\ attempt' \in 0 .. MaxAttempt
      BY <1>0, <1>1, <1>4, <3>1 DEF IInv, TypeOK, ConnectToShare
    <3> HIDE MaxAttemptAssumption
    <3> QED
      BY <1>0, <1>4, <3>1, <3>2, <3>3 DEF IInv, TypeOK, ConnectToShare
  <2>2. Passes' /\ Lookups' /\ Contexts' /\ Hanging' /\ Logged'
    BY <1>0, <1>1, <1>2, <1>4
       DEF IInv, TypeOK, Passes, Lookups, Contexts, Hanging, Logged, Entry, EventLoop, ConnectToShare
  <2> QED
    BY <2>1, <2>2 DEF IInv
<1> QED
  BY <1>0, <1>3, <1>4 DEF ConnectToShare

LEMMA LookupFinishesKeeps ==
    ASSUME IInv, NEW a \in running, LookupFinishes(a) PROVE IInv'
<1>1. TypeOK'
  BY DEF IInv, TypeOK, LookupFinishes, pass, reqs
<1>2. Passes' /\ Contexts' /\ Hanging' /\ Logged'
  BY DEF IInv, Passes, Contexts, Hanging, Logged, Entry, EventLoop, LookupFinishes, pass, reqs
<1>3. Lookups'
  BY DEF IInv, TypeOK, Lookups, LookupFinishes, pass, reqs
<1> QED
  BY <1>1, <1>2, <1>3 DEF IInv

LEMMA OnHostResolvedKeeps ==
    ASSUME IInv, NEW a \in resolved, OnHostResolved(a) PROVE IInv'
<1> USE MaxAttemptAssumption
<1>1. /\ EventLoop /\ resolved' = resolved \ {a}
      /\ UNCHANGED <<attempt, prompting, inService, handler, on, applied, refused, answered>>
  BY DEF OnHostResolved
<1>2. CASE /\ state # "Connecting" \/ ctx # 0
           /\ lookup' = 0
           /\ UNCHANGED <<state, fate, ctx, host, connecting, Kept>>
  <2>1. TypeOK'
    BY <1>1, <1>2 DEF IInv, TypeOK, Kept
  <2>2. Passes' /\ Lookups' /\ Contexts' /\ Hanging' /\ Logged'
    BY <1>1, <1>2 DEF IInv, Passes, Lookups, Contexts, Hanging, Logged, Entry, EventLoop, Kept
  <2> QED
    BY <2>1, <2>2 DEF IInv
<1>3. ASSUME state = "Connecting", ctx = 0
      PROVE  prompting = FALSE /\ a = attempt /\ running = {} /\ a \in 1 .. MaxAttempt /\ a \notin destroyed
  BY <1>3 DEF IInv, TypeOK, Lookups
<1>4. CASE /\ state = "Connecting" /\ ctx = 0
           /\ state' = "Disconnected" /\ fate' = "error"
           /\ lookup' = 0
           /\ UNCHANGED <<ctx, host, connecting, Kept>>
  <2>1. TypeOK'
    BY <1>1, <1>4 DEF IInv, TypeOK, Kept
  <2>2. Passes' /\ Lookups' /\ Contexts' /\ Hanging' /\ Logged'
    BY <1>1, <1>3, <1>4 DEF IInv, Passes, Lookups, Contexts, Hanging, Logged, Entry, EventLoop, Kept
  <2> QED
    BY <2>1, <2>2 DEF IInv
<1>5. CASE state = "Connecting" /\ ctx = 0 /\ StartSmbConnect(attempt, a, 0)
  <2>1. attempt' = a /\ attempt <= a /\ resolved' \subseteq resolved /\ StartSmbConnect(a, a, 0)
    BY <1>1, <1>3, <1>5
  <2> QED
    BY <1>1, <1>3, <1>5, <2>1, ConnectKeeps
<1> QED
  BY <1>2, <1>4, <1>5 DEF OnHostResolved

\* The two ways out, with the teardown put off while smb2_service() runs.
LEMMA LeaveKeeps ==
    ASSUME IInv, NEW from \in {"Connecting", "Connected"}, Leave(from) PROVE IInv'
<1>1. CASE EventLoop /\ Teardown
  <2>1. ~handler /\ inService = 0 /\ handler \in BOOLEAN /\ prompting = FALSE
    BY <1>1 DEF IInv, TypeOK, Passes, Lookups, EventLoop, Leave
  <2> QED
    BY <1>1, <2>1, TeardownKeeps DEF Leave
<1>2. CASE ~EventLoop
  <2>1. /\ ~EventLoop /\ handler /\ state' = "Disconnected" /\ fate' = "user" /\ teardownPending' = TRUE
        /\ UNCHANGED <<lookup, running, ctx, host, connecting, pendingError, destroyed,
                       reply, log, attempt, prompting, resolved, inService, handler, on, applied, refused,
                       answered>>
    BY <1>2 DEF Leave, MayCall
  <2>2. TypeOK'
    BY <2>1 DEF IInv, TypeOK
  <2>3. ctx # 0 /\ lookup = 0 /\ ~connecting /\ ~prompting
    BY <2>1 DEF IInv, Passes, Lookups, EventLoop
  <2>4. Passes' /\ Lookups' /\ Contexts' /\ Hanging' /\ Logged'
    BY <2>1, <2>3 DEF IInv, Passes, Lookups, Contexts, Hanging, Logged, Entry, EventLoop
  <2> QED
    BY <2>2, <2>4 DEF IInv
<1> QED
  BY <1>1, <1>2 DEF Leave

\* A request that is sent goes to the context of a session that is connected.
LEMMA SentKeeps ==
    ASSUME IInv, NEW r \in Requests, state = "Connected", Sent(r), r \in Ops => reply[r] = "new",
           UNCHANGED <<conn, pass, applied, refused, answered, log>>
    PROVE  IInv'
<1>1. TypeOK'
  BY DEF IInv, TypeOK, Sent, Standing, conn, pass
<1>2. Passes' /\ Lookups' /\ Contexts'
  BY DEF IInv, Passes, Lookups, Contexts, EventLoop, conn, pass
<1>3. Hanging'
  BY DEF IInv, TypeOK, Contexts, Hanging, Sent, conn, pass
<1>4. Logged'
  <2> SUFFICES ASSUME NEW o \in Ops PROVE Entry(o)'
    BY DEF Logged
  <2>1. o \in Requests /\ Entry(o) /\ reply \in [Requests -> Standing] /\ on \in [Requests -> 0 .. attempt]
    BY DEF IInv, TypeOK, Logged, Requests
  <2>2. CASE o # r
    BY <2>1, <2>2 DEF Entry, Sent
  <2>3. CASE o = r
    <3>1. reply'[o] = "pending" /\ reply[o] = "new"
      BY <2>1, <2>3 DEF Sent
    <3> QED
      BY <2>1, <3>1 DEF Entry
  <2> QED
    BY <2>2, <2>3
<1> QED
  BY <1>1, <1>2, <1>3, <1>4 DEF IInv

\* A request changes its standing without being sent.
LEMMA StandingKeeps ==
    ASSUME IInv, NEW r \in Requests, NEW s \in Standing \ {"pending"},
           reply' = [reply EXCEPT ![r] = s],
           log' \in [Ops -> {"none", "ok", "failed", "unknown"}],
           \A o \in Ops : o # r => log'[o] = log[o],
           r \in Ops => Entry(r)', answered' \subseteq Ops, answered' \ {r} = answered \ {r},
           refused' \subseteq Ops, handler' \in BOOLEAN,
           handler' # handler => ~EventLoop /\ ~connecting,
           UNCHANGED <<conn, inService, teardownPending, pendingError, destroyed, on, applied>>
    PROVE  IInv'
<1>1. TypeOK'
  BY DEF IInv, TypeOK, conn
<1>2. Lookups' /\ Contexts'
  BY DEF IInv, Lookups, Contexts, EventLoop, conn
<1>3. Passes'
  BY DEF IInv, TypeOK, Passes, EventLoop, conn
<1>4. Hanging'
  BY DEF IInv, TypeOK, Hanging, conn
<1>5. Logged'
  BY DEF IInv, TypeOK, Logged, Entry, Requests
<1> QED
  BY <1>1, <1>2, <1>3, <1>4, <1>5 DEF IInv

LEMMA SubmitReadKeeps ==
    ASSUME IInv, NEW r \in Reads, SubmitRead(r) PROVE IInv'
<1>1. r \in Requests /\ r \notin Ops
  BY RequestsDisjoint DEF Reads, Requests
<1>2. CASE state = "Connected" /\ Sent(r)
  BY <1>1, <1>2, SentKeeps DEF SubmitRead
<1>3. CASE reply' = [reply EXCEPT ![r] = "failed"] /\ UNCHANGED on
  <2>1. /\ UNCHANGED <<conn, inService, handler, teardownPending, pendingError, destroyed, on, applied, refused, answered, log>>
        /\ "failed" \in Standing \ {"pending"}
    BY <1>3 DEF SubmitRead, pass, Standing
  <2>2. log \in [Ops -> {"none", "ok", "failed", "unknown"}] /\ refused \cup answered \subseteq Ops /\ handler \in BOOLEAN
    BY DEF IInv, TypeOK
  <2> QED
    BY <1>1, <1>3, <2>1, <2>2, StandingKeeps
<1> QED
  BY <1>2, <1>3 DEF SubmitRead

LEMMA StatFileKeeps ==
    ASSUME IInv, NEW r \in Stats, StatFile(r) PROVE IInv'
<1>1. r \in Reads /\ r \in Requests /\ r \notin Ops
  BY RequestsDisjoint DEF Reads, Requests
<1>2. CASE SubmitRead(r)
  BY <1>1, <1>2, SubmitReadKeeps
<1>3. CASE /\ reply' = [reply EXCEPT ![r] = "delayed"]
           /\ UNCHANGED <<conn, pass, on, applied, refused, answered, log>>
  <2>1. /\ UNCHANGED <<conn, inService, handler, teardownPending, pendingError, destroyed, on, applied, refused, answered, log>>
        /\ "delayed" \in Standing \ {"pending"}
    BY <1>3 DEF pass, Standing
  <2>2. log \in [Ops -> {"none", "ok", "failed", "unknown"}] /\ refused \cup answered \subseteq Ops /\ handler \in BOOLEAN
    BY DEF IInv, TypeOK
  <2> QED
    BY <1>1, <1>3, <2>1, <2>2, StandingKeeps
<1> QED
  BY <1>2, <1>3 DEF StatFile

LEMMA MutateKeeps ==
    ASSUME IInv, NEW o \in Ops, Mutate(o) PROVE IInv'
<1>1. o \in Requests
  BY DEF Requests
<1>2. CASE state = "Connected" /\ Sent(o) /\ UNCHANGED log
  BY <1>1, <1>2, SentKeeps DEF Mutate
<1>3. CASE /\ reply' = [reply EXCEPT ![o] = "queued"]
           /\ log' = [log EXCEPT ![o] = "failed"]
           /\ UNCHANGED on
  <2>1. /\ UNCHANGED <<conn, inService, handler, teardownPending, pendingError, destroyed, on, applied, refused, answered>>
        /\ "queued" \in Standing \ {"pending"}
    BY <1>3 DEF Mutate, pass, Standing
  <2>2. log \in [Ops -> {"none", "ok", "failed", "unknown"}] /\ refused \cup answered \subseteq Ops /\ handler \in BOOLEAN
    BY DEF IInv, TypeOK
  <2>3. log' \in [Ops -> {"none", "ok", "failed", "unknown"}] /\ log'[o] = "failed" /\ \A p \in Ops : p # o => log'[p] = log[p]
    BY <1>3, <2>2
  <2>4. Entry(o)'
    BY <1>1, <1>3, <2>1, <2>3 DEF IInv, TypeOK, Logged, Entry, Mutate
  <2> QED
    BY <1>1, <1>3, <2>1, <2>2, <2>3, <2>4, StandingKeeps
<1> QED
  BY <1>2, <1>3 DEF Mutate

LEMMA DeliverFailureKeeps ==
    ASSUME IInv, NEW o \in Ops, DeliverFailure(o) PROVE IInv'
<1>1. o \in Requests /\ "failed" \in Standing \ {"pending"}
  BY DEF Requests, Standing
<1>2. /\ UNCHANGED <<conn, inService, handler, teardownPending, pendingError, destroyed, on, applied, refused, answered, log>>
      /\ reply' = [reply EXCEPT ![o] = "failed"] /\ reply[o] = "queued"
  BY DEF DeliverFailure, pass
<1>3. log \in [Ops -> {"none", "ok", "failed", "unknown"}] /\ refused \cup answered \subseteq Ops /\ handler \in BOOLEAN
  BY DEF IInv, TypeOK
<1>4. Entry(o)'
  BY <1>1, <1>2, <1>3 DEF IInv, TypeOK, Logged, Entry
<1> QED
  BY <1>1, <1>2, <1>3, <1>4, StandingKeeps

LEMMA ServerAppliesKeeps ==
    ASSUME IInv, NEW o \in Ops, ServerApplies(o) PROVE IInv'
<1>1. TypeOK'
  BY DEF IInv, TypeOK, ServerApplies, conn, pass
<1>2. Passes' /\ Lookups' /\ Contexts' /\ Hanging' /\ Logged'
  BY DEF IInv, Passes, Lookups, Contexts, Hanging, Logged, Entry, EventLoop, ServerApplies, conn, pass
<1> QED
  BY <1>1, <1>2 DEF IInv

LEMMA ServiceBeginKeeps == ASSUME IInv, ServiceBegin PROVE IInv'
<1>1. TypeOK'
  BY DEF IInv, TypeOK, ServiceBegin, conn, reqs
<1>2. Passes' /\ Lookups' /\ Contexts' /\ Hanging' /\ Logged'
  BY DEF IInv, Passes, Lookups, Contexts, Hanging, Logged, Entry, EventLoop, ServiceBegin, conn, reqs
<1> QED
  BY <1>1, <1>2 DEF IInv

LEMMA OnConnectDoneKeeps == ASSUME IInv, OnConnectDone PROVE IInv'
<1>1. TypeOK'
  BY DEF IInv, TypeOK, OnConnectDone, reqs
<1>2. Passes' /\ Lookups' /\ Contexts' /\ Hanging' /\ Logged'
  BY DEF IInv, Passes, Lookups, Contexts, Hanging, Logged, Entry, EventLoop, OnConnectDone, reqs
<1> QED
  BY <1>1, <1>2 DEF IInv

LEMMA OnReadDoneKeeps ==
    ASSUME IInv, NEW r \in Reads, OnReadDone(r) PROVE IInv'
<1>1. r \in Requests /\ r \notin Ops /\ ~connecting
  BY RequestsDisjoint DEF Reads, Requests, IInv, Hanging, OnReadDone
<1>2. PICK a \in {"ok", "failed"} : reply' = [reply EXCEPT ![r] = a]
  BY DEF OnReadDone
<1>3. /\ UNCHANGED <<conn, inService, teardownPending, pendingError, destroyed, on, applied, refused, answered, log>>
      /\ handler' = TRUE /\ ~EventLoop /\ a \in Standing \ {"pending"}
  BY DEF OnReadDone, EventLoop, Standing
<1>4. log \in [Ops -> {"none", "ok", "failed", "unknown"}] /\ refused \cup answered \subseteq Ops
  BY DEF IInv, TypeOK
<1> QED
  BY <1>1, <1>2, <1>3, <1>4, StandingKeeps

LEMMA OnOpDoneKeeps ==
    ASSUME IInv, NEW o \in Ops, OnOpDone(o) PROVE IInv'
<1>1. o \in Requests /\ {"ok", "failed"} \subseteq Standing \ {"pending"}
  BY DEF Requests, Standing
<1>2. ~connecting
  BY <1>1 DEF IInv, Hanging, OnOpDone
<1>3. /\ UNCHANGED <<conn, inService, teardownPending, pendingError, destroyed, on, applied>>
      /\ handler' = TRUE /\ ~EventLoop /\ refused' \subseteq Ops
  BY DEF OnOpDone, EventLoop, IInv, TypeOK
<1>4. log \in [Ops -> {"none", "ok", "failed", "unknown"}]
  BY DEF IInv, TypeOK
<1>5. PICK a \in {"ok", "failed"} :
        /\ reply' = [reply EXCEPT ![o] = a] /\ log' = [log EXCEPT ![o] = a]
        /\ a = "ok" => o \in applied
        /\ answered' = answered \cup {o}
  BY DEF OnOpDone
<1>6. log' \in [Ops -> {"none", "ok", "failed", "unknown"}] /\ log'[o] = a /\ \A p \in Ops : p # o => log'[p] = log[p]
  BY <1>4, <1>5
<1>7. Entry(o)' /\ answered' \subseteq Ops /\ answered' \ {o} = answered \ {o}
  <2>1. reply'[o] = a
    BY <1>1, <1>5 DEF IInv, TypeOK
  <2>2. answered \subseteq Ops
    BY DEF IInv, TypeOK
  <2> QED
    BY <1>3, <1>5, <1>6, <2>1, <2>2 DEF Entry
<1> QED
  BY <1>1, <1>2, <1>3, <1>5, <1>6, <1>7, StandingKeeps

LEMMA ServiceEndKeeps ==
    ASSUME IInv, NEW broken \in BOOLEAN, ServiceEnd(broken) PROVE IInv'
<1>1. /\ inService # 0 /\ inService' = 0 /\ handler' = FALSE
      /\ UNCHANGED <<attempt, prompting, resolved, on, applied, refused, answered>>
      /\ prompting = FALSE
  BY DEF ServiceEnd, IInv, TypeOK, Lookups, EventLoop
<1>2. CASE /\ broken \/ teardownPending
           /\ state' = "Disconnected"
           /\ fate' = IF broken \/ pendingError THEN "error" ELSE fate
           /\ Teardown
  <2>1. fate' \in {"none", "user", "error"}
    BY <1>2 DEF IInv, TypeOK, Passes, Contexts
  <2> QED
    BY <1>1, <1>2, <2>1, TeardownKeeps
<1>3. CASE /\ ~broken /\ ~teardownPending
           /\ UNCHANGED <<state, fate, lookup, running, ctx, host, connecting>>
           /\ UNCHANGED <<teardownPending, pendingError, destroyed, reply, log>>
  <2>1. TypeOK'
    <3>1. {lookup', ctx', host', inService'} \subseteq 0 .. attempt'
      BY <1>1, <1>3 DEF IInv, TypeOK
    <3>2. on' \in [Requests -> 0 .. attempt'] /\ attempt' \in 0 .. MaxAttempt
      BY <1>1 DEF IInv, TypeOK
    <3> QED
      BY <1>1, <1>3, <3>1, <3>2 DEF IInv, TypeOK
  <2>2. state # "Disconnected"
    BY <1>1, <1>3 DEF IInv, Passes, EventLoop
  <2>3. Passes' /\ Lookups' /\ Contexts' /\ Hanging' /\ Logged'
    BY <1>1, <1>3, <2>2 DEF IInv, Passes, Lookups, Contexts, Hanging, Logged, Entry, EventLoop
  <2> QED
    BY <2>1, <2>3 DEF IInv
<1> QED
  BY <1>2, <1>3 DEF ServiceEnd

LEMMA InitInv == Init => IInv
<1> SUFFICES ASSUME Init PROVE IInv
  OBVIOUS
<1>1. TypeOK
  <2>1. attempt \in 0 .. MaxAttempt /\ {lookup, ctx, host, inService} \subseteq 0 .. attempt
    BY MaxAttemptAssumption DEF Init
  <2>2. reply \in [Requests -> Standing] /\ on \in [Requests -> 0 .. attempt]
    BY DEF Init, Standing
  <2>3. log \in [Ops -> {"none", "ok", "failed", "unknown"}]
    BY DEF Init
  <2> QED
    BY <2>1, <2>2, <2>3 DEF Init, TypeOK
<1>2. Passes /\ Lookups /\ Contexts /\ Hanging /\ Logged
  BY DEF Init, Passes, Lookups, Contexts, Hanging, Logged, Entry, EventLoop, Requests
<1> QED
  BY <1>1, <1>2 DEF IInv

LEMMA StepInv == IInv /\ [Next]_vars => IInv'
<1>1. SUFFICES ASSUME IInv, [Next]_vars PROVE IInv'
  OBVIOUS
<1>2. CASE OpenPrompt \/ CancelPrompt \/ AnswerPrompt
  BY <1>1, <1>2, PromptKeeps, AnswerPromptKeeps
<1>3. CASE AbortConnect \/ DisconnectFromShare
  BY <1>1, <1>3, LeaveKeeps DEF AbortConnect, DisconnectFromShare
<1>4. ASSUME NEW a \in running, LookupFinishes(a) PROVE IInv'
  BY <1>1, <1>4, LookupFinishesKeeps
<1>5. ASSUME NEW a \in resolved, OnHostResolved(a) PROVE IInv'
  BY <1>1, <1>5, OnHostResolvedKeeps
<1>6. ASSUME NEW r \in Lists, ListDirectory(r) PROVE IInv'
  BY <1>1, <1>6, SubmitReadKeeps DEF ListDirectory, Reads
<1>7. ASSUME NEW r \in Stats, StatFile(r) \/ DelayedStat(r) PROVE IInv'
  BY <1>1, <1>7, StatFileKeeps, SubmitReadKeeps DEF DelayedStat, Reads
<1>8. ASSUME NEW o \in Ops, Mutate(o) \/ DeliverFailure(o) \/ ServerApplies(o) PROVE IInv'
  BY <1>1, <1>8, MutateKeeps, DeliverFailureKeeps, ServerAppliesKeeps
<1>9. CASE ServiceBegin \/ OnConnectDone
  BY <1>1, <1>9, ServiceBeginKeeps, OnConnectDoneKeeps
<1>10. ASSUME NEW r \in Reads, OnReadDone(r) PROVE IInv'
  BY <1>1, <1>10, OnReadDoneKeeps
<1>11. ASSUME NEW o \in Ops, OnOpDone(o) PROVE IInv'
  BY <1>1, <1>11, OnOpDoneKeeps
<1>12. ASSUME NEW broken \in BOOLEAN, ServiceEnd(broken) PROVE IInv'
  BY <1>1, <1>12, ServiceEndKeeps
<1>13. CASE UNCHANGED vars
  <2>1. TypeOK'
    BY <1>1, <1>13 DEF IInv, TypeOK, vars, conn, pass, reqs
  <2>2. Passes' /\ Lookups' /\ Contexts' /\ Hanging' /\ Logged'
    BY <1>1, <1>13 DEF IInv, Passes, Lookups, Contexts, Hanging, Logged, Entry, EventLoop,
                       vars, conn, pass, reqs
  <2> QED
    BY <2>1, <2>2 DEF IInv
<1> QED
  BY <1>1, <1>2, <1>3, <1>4, <1>5, <1>6, <1>7, <1>8, <1>9, <1>10, <1>11, <1>12, <1>13 DEF Next

LEMMA InvAlways == Spec => []IInv
<1> QED
  BY InitInv, StepInv, PTL DEF Spec

-----------------------------------------------------------------------------

\* Every variable of the session keeps its type, whatever a handler calls from
\* inside smb2_service().
THEOREM TypeCorrect == Spec => []TypeOK
<1>1. IInv => TypeOK
  BY DEF IInv
<1> QED
  BY <1>1, InvAlways, PTL

\* teardown() never runs while smb2_service() is on the stack of the context.
THEOREM NeverDestroyedInService == Spec => []NotDestroyedInService
<1>1. ASSUME IInv PROVE NotDestroyedInService
  BY <1>1 DEF IInv, TypeOK, Passes, Contexts, NotDestroyedInService
<1> QED
  BY <1>1, InvAlways, PTL

\* No context, lookup, request or pending teardown of a connection is left for
\* the next one, which goes to the host its own attempt looked up.
THEOREM EachConnectionAlone == Spec => []NothingOutlivesConnection
<1>1. ASSUME IInv PROVE NothingOutlivesConnection
  <2>1. ctx # 0 => host = ctx /\ ctx = attempt
    BY <1>1 DEF IInv, Contexts
  <2>2. ASSUME state = "Disconnected", EventLoop
        PROVE  /\ ctx = 0 /\ lookup = 0 /\ ~teardownPending /\ ~pendingError
               /\ \A r \in Requests : reply[r] # "pending"
    BY <1>1, <2>2 DEF IInv, Passes, Lookups, Contexts, Hanging
  <2> QED
    BY <2>1, <2>2 DEF NothingOutlivesConnection
<1> QED
  BY <1>1, InvAlways, PTL

\* The callback of every request in flight can still come.
THEOREM EveryRequestHangs == Spec => []NoOrphanedRequest
<1>1. IInv => NoOrphanedRequest
  BY DEF IInv, Hanging, NoOrphanedRequest
<1> QED
  BY <1>1, InvAlways, PTL

\* No attempt or connection ends in silence, but by the user's own hand.
THEOREM EveryEndExplained == Spec => []EndIsExplained
<1>1. IInv => EndIsExplained
  BY DEF IInv, Contexts, EndIsExplained
<1> QED
  BY <1>1, InvAlways, PTL

\* The audit log claims success only of what the server performed, an outcome of
\* an operation that was sent exactly when an answer or a PDU timeout arrived on
\* its connection, "unknown" when it was lost in a teardown, and has an entry of
\* every operation whose completion was signalled.
THEOREM LogAlwaysTruthful == Spec => []LogTruthful
<1>1. IInv => LogTruthful
  BY DEF IInv, Logged, Entry, LogTruthful
<1> QED
  BY <1>1, InvAlways, PTL

-----------------------------------------------------------------------------
(* The operations implement OpChannel.                                     *)

Status == [o \in Ops |-> IF reply[o] \in {"pending", "queued"} THEN "open" ELSE reply[o]]

\* A flush and all that leaves the standing of the operations alone stutter.
LEMMA QuietStutters ==
    ASSUME \A o \in Ops : \/ reply'[o] = reply[o]
                          \/ {reply[o], reply'[o]} \subseteq {"pending", "queued"}
    PROVE  UNCHANGED Status
<1>1. \A o \in Ops : (IF reply'[o] \in {"pending", "queued"} THEN "open" ELSE reply'[o])
                     = IF reply[o] \in {"pending", "queued"} THEN "open" ELSE reply[o]
  OBVIOUS
<1> QED
  BY <1>1 DEF Status

LEMMA FlushStutters == ASSUME Flush PROVE UNCHANGED Status
<1>1. \A o \in Ops : reply'[o] = IF reply[o] # "pending" THEN reply[o] ELSE "queued"
  BY DEF Flush, Requests
<1> QED
  BY <1>1, QuietStutters

\* One operation moves.
LEMMA OneMoves ==
    ASSUME IInv, NEW o \in Ops, NEW s, reply' = [reply EXCEPT ![o] = s]
    PROVE  Status' = [Status EXCEPT ![o] = IF s \in {"pending", "queued"} THEN "open" ELSE s]
<1>1. o \in Requests /\ reply \in [Requests -> Standing]
  BY DEF Requests, IInv, TypeOK
<1>2. \A p \in Ops : p \in Requests /\ reply'[p] = IF p = o THEN s ELSE reply[p]
  BY <1>1 DEF Requests
<1> QED
  BY <1>2 DEF Status

LEMMA ReadStutters ==
    ASSUME IInv, NEW r \in Reads, NEW s, reply' = [reply EXCEPT ![r] = s]
    PROVE  UNCHANGED Status
<1>1. r \notin Ops /\ reply \in [Requests -> Standing]
  BY RequestsDisjoint DEF Reads, IInv, TypeOK
<1>2. \A o \in Ops : reply'[o] = reply[o]
  BY <1>1 DEF Requests
<1> QED
  BY <1>2, QuietStutters

LEMMA SubmitReadStutters ==
    ASSUME IInv, NEW r \in Reads, SubmitRead(r) PROVE UNCHANGED Status
<1> QED
  BY ReadStutters DEF SubmitRead, Sent

LEMMA SameStutters == ASSUME UNCHANGED reply PROVE UNCHANGED Status
<1> QED
  BY QuietStutters

LEMMA ChannelStep == IInv /\ [Next]_vars => [Channel!Next]_Status
<1>1. SUFFICES ASSUME IInv, [Next]_vars PROVE Channel!Next \/ UNCHANGED Status
  OBVIOUS
<1>2. CASE AnswerPrompt \/ \E a \in resolved : OnHostResolved(a)
  <2>1. UNCHANGED reply \/ Flush
    BY <1>2 DEF AnswerPrompt, ConnectToShare, OnHostResolved, StartSmbConnect, Kept
  <2> QED
    BY <2>1, SameStutters, FlushStutters
<1>3. CASE AbortConnect \/ DisconnectFromShare \/ \E broken \in BOOLEAN : ServiceEnd(broken)
  <2>1. UNCHANGED reply \/ Flush
    BY <1>3 DEF AbortConnect, DisconnectFromShare, Leave, ServiceEnd, Teardown
  <2> QED
    BY <2>1, SameStutters, FlushStutters
<1>4. CASE \/ (\E a \in running : LookupFinishes(a)) \/ OpenPrompt \/ CancelPrompt
           \/ ServiceBegin \/ OnConnectDone \/ UNCHANGED vars
  <2>1. UNCHANGED reply
    BY <1>4 DEF LookupFinishes, OpenPrompt, CancelPrompt, ServiceBegin, OnConnectDone, vars, reqs
  <2> QED
    BY <2>1, SameStutters
<1>5. ASSUME NEW r \in Lists, ListDirectory(r) PROVE UNCHANGED Status
  BY <1>1, <1>5, SubmitReadStutters DEF ListDirectory, Reads
<1>6. ASSUME NEW r \in Stats, StatFile(r) \/ DelayedStat(r) PROVE UNCHANGED Status
  BY <1>1, <1>6, SubmitReadStutters, ReadStutters DEF StatFile, DelayedStat, Reads
<1>7. ASSUME NEW r \in Reads, OnReadDone(r) PROVE UNCHANGED Status
  BY <1>1, <1>7, ReadStutters DEF OnReadDone
<1>8. ASSUME NEW o \in Ops, ServerApplies(o) PROVE UNCHANGED Status
  BY <1>8, SameStutters DEF ServerApplies
<1>9. ASSUME NEW o \in Ops, Mutate(o) PROVE Channel!Next
  <2>1. PICK s \in {"pending", "queued"} : reply' = [reply EXCEPT ![o] = s]
    BY <1>9 DEF Mutate, Sent
  <2>2. Status' = [Status EXCEPT ![o] = "open"]
    BY <1>1, <2>1, OneMoves
  <2>3. Status[o] = "new"
    BY <1>9 DEF Mutate, Status
  <2> QED
    BY <2>2, <2>3 DEF Channel!Next, Channel!Ask, Status
<1>10. ASSUME NEW o \in Ops, OnOpDone(o) \/ DeliverFailure(o) PROVE Channel!Next
  <2>1. PICK s \in {"ok", "failed"} : reply' = [reply EXCEPT ![o] = s]
    BY <1>10 DEF OnOpDone, DeliverFailure
  <2>2. Status' = [Status EXCEPT ![o] = s]
    BY <1>1, <2>1, OneMoves
  <2>3. Status[o] = "open"
    BY <1>10 DEF OnOpDone, DeliverFailure, Status
  <2> QED
    BY <2>2, <2>3 DEF Channel!Next, Channel!Complete, Status
<1> QED
  BY <1>1, <1>2, <1>3, <1>4, <1>5, <1>6, <1>7, <1>8, <1>9, <1>10 DEF Next

\* Every operation is completed once at most, never before it was asked for
\* and never by the call that asks for it.
THEOREM OperationsCompleteOnce == Spec => CompletesOnce
<1>1. Init => Channel!Init
  BY DEF Init, Channel!Init, Requests
<1>2. IInv /\ [Next]_vars
        => [Channel!Next]_[o \in Ops |-> IF reply[o] \in {"pending", "queued"} THEN "open"
                                        ELSE reply[o]]
  BY ChannelStep DEF Status
<1> QED
  BY <1>1, <1>2, InvAlways, PTL DEF Spec, CompletesOnce, Channel!Spec
=============================================================================
