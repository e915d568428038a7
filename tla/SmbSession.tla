----------------------------- MODULE SmbSession -----------------------------
(***************************************************************************)
(* smb/SmbSession: one connection to a share, driven by libsmb2 from the   *)
(* GUI thread.  Completions are signalled from inside smb2_service(), so a *)
(* handler of one may call back into the session while the context is on   *)
(* the stack (inService # 0, handler); failures that are known at once are *)
(* queued on the event loop instead.                                       *)
(*                                                                         *)
(* Connection attempts are numbered; a context carries the number of the   *)
(* attempt it was created for.  The callers' requests are constants, each  *)
(* made at most once.  Who connects is ui/MainWindow, once its password    *)
(* prompt is answered.  External: libsmb2 (which result a callback         *)
(* carries, and that destroying a context runs its pending callbacks),     *)
(* Qt's host lookup (a finished lookup is a posted event that cannot be    *)
(* revoked), Qt's event loop (it delivers what is posted before it waits   *)
(* for the user) and the server (it may apply an operation whose answer is *)
(* lost).                                                                  *)
(***************************************************************************)
EXTENDS Naturals, FiniteSets

CONSTANTS
    Lists, Stats, Ops,  \* the requests the program makes
    MaxAttempt,         \* bound on connection attempts
    Throttle            \* SMBMGR_STAT_DELAY_MS is set

Reads == Lists \cup Stats
Requests == Reads \cup Ops

ASSUME RequestsDisjoint ==
    Lists \cap Stats = {} /\ Lists \cap Ops = {} /\ Stats \cap Ops = {}
ASSUME MaxAttemptAssumption == MaxAttempt \in Nat
ASSUME SwitchesAssumption == Throttle \in BOOLEAN

VARIABLES
    state,           \* m_state
    attempt, fate,   \* history: attempts made, how the last one fared
    lookup,          \* m_lookupId: the attempt it was started for, 0 when -1
    running,         \* lookups Qt is working on
    resolved,        \* lookup results posted to the event loop
    ctx, host,       \* m_ctx (0 when null), the attempt whose address it uses
    connecting,      \* the connect callback is pending
    prompting,       \* the window's password prompt is open
    inService,       \* the context smb2_service() runs on (0: m_inService false)
    handler,         \* a signal was emitted in this service pass
    teardownPending, pendingError,
    destroyed,       \* contexts given to smb2_destroy_context
    reply, on,       \* where each request stands, the context it was sent on
    applied, refused,\* what the server has made of the operations
    answered,        \* history: operations whose callback ran in a pass, with
                     \* the server's answer or a PDU timeout
    log              \* the audit log's last word on each operation

conn == <<state, attempt, fate, lookup, running, resolved, ctx, host, connecting,
          prompting>>
pass == <<inService, handler, teardownPending, pendingError, destroyed>>
reqs == <<reply, on, applied, refused, answered, log>>
vars == <<conn, pass, reqs>>

Init ==
    /\ state = "Disconnected" /\ attempt = 0 /\ fate = "none"
    /\ lookup = 0 /\ running = {} /\ resolved = {}
    /\ ctx = 0 /\ host = 0 /\ connecting = FALSE /\ prompting = FALSE
    /\ inService = 0 /\ handler = FALSE
    /\ teardownPending = FALSE /\ pendingError = FALSE /\ destroyed = {}
    /\ reply = [r \in Requests |-> "new"] /\ on = [r \in Requests |-> 0]
    /\ applied = {} /\ refused = {} /\ answered = {}
    /\ log = [o \in Ops |-> "none"]

-----------------------------------------------------------------------------
(* Connecting.                                                             *)

EventLoop == inService = 0
MayCall == EventLoop \/ handler

\* Faulty: only the operations leave the pending sets.
FlushKeepsReads ==
    /\ reply' = [r \in Requests |->
                   IF r \in Ops /\ reply[r] = "pending" THEN "queued" ELSE reply[r]]
    /\ log' = [o \in Ops |-> IF reply[o] = "pending" THEN "unknown" ELSE log[o]]

\* Faulty: an operation ends without a signal, as a read does.
FlushDropsOps ==
    /\ reply' = [r \in Requests |->
                   IF reply[r] = "pending" THEN "dropped" ELSE reply[r]]
    /\ log' = [o \in Ops |-> IF reply[o] = "pending" THEN "unknown" ELSE log[o]]

\* Faulty: every operation of the context is failed, answered or not.
FlushReopens ==
    /\ reply' = [r \in Requests |->
                   CASE r \in Ops /\ on[r] = ctx /\ ctx # 0 -> "queued"
                     [] reply[r] = "pending" -> "dropped"
                     [] OTHER -> reply[r]]
    /\ log' = [o \in Ops |-> IF reply[o] = "pending" THEN "unknown" ELSE log[o]]

\* Faulty: what is lost with the connection is logged as a failure.
FlushLogsFailed ==
    /\ reply' = [r \in Requests |->
                   IF reply[r] # "pending" THEN reply[r]
                   ELSE IF r \in Ops THEN "queued" ELSE "dropped"]
    /\ log' = [o \in Ops |-> IF reply[o] = "pending" THEN "failed" ELSE log[o]]

\* The callbacks smb2_destroy_context runs: a read ends without a signal, an
\* operation is logged as unknown and its failure queued.
Flush ==
    /\ reply' = [r \in Requests |->
                   IF reply[r] # "pending" THEN reply[r]
                   ELSE IF r \in Ops THEN "queued" ELSE "dropped"]
    /\ log' = [o \in Ops |-> IF reply[o] = "pending" THEN "unknown" ELSE log[o]]

\* teardown(), applied to the members lookup and ctx had on entry.
Teardown ==
    /\ running' = running \ {lookup}
    /\ lookup' = 0
    /\ connecting' = FALSE
    /\ destroyed' = destroyed \cup ({ctx} \ {0})
    /\ ctx' = 0
    /\ host' = 0
    /\ teardownPending' = FALSE
    /\ pendingError' = FALSE
    /\ Flush

Kept == <<running, destroyed, teardownPending, pendingError, reply, log>>

\* startSmbConnect with the lookup id lk: there is no context, or the request
\* cannot be submitted and the context just made goes again, or the connect is
\* under way.
StartSmbConnect(a, h, lk) ==
    \/ /\ state' = "Disconnected" /\ fate' = "error"
       /\ ctx' = 0 /\ host' = 0 /\ lookup' = lk
       /\ UNCHANGED <<connecting, Kept>>
    \/ /\ state' = "Disconnected" /\ fate' = "error"
       /\ running' = running \ {lk} /\ lookup' = 0
       /\ destroyed' = destroyed \cup {a}
       /\ ctx' = 0 /\ host' = 0 /\ connecting' = FALSE
       /\ teardownPending' = FALSE /\ pendingError' = FALSE
       /\ Flush
    \/ /\ state' = "Connecting" /\ fate' = "open"
       /\ ctx' = a /\ host' = h /\ lookup' = lk
       /\ connecting' = TRUE
       /\ UNCHANGED Kept

ConnectToShare ==
    /\ state = "Disconnected"
    /\ attempt < MaxAttempt
    /\ attempt' = attempt + 1
    /\ \/ StartSmbConnect(attempt + 1, attempt + 1, lookup)  \* numeric address
       \/ /\ state' = "Connecting" /\ fate' = "open"
          /\ lookup' = attempt + 1
          /\ running' = running \cup {attempt + 1}
          /\ UNCHANGED <<ctx, host, connecting, destroyed>>
          /\ UNCHANGED <<teardownPending, pendingError, reply, log>>
    /\ UNCHANGED <<resolved, inService, handler, on, applied, refused, answered>>

\* onConnectActionTriggered: the user's click opens the password prompt, a
\* modal dialog with an event loop of its own.
OpenPrompt ==
    /\ EventLoop /\ ~prompting
    /\ state = "Disconnected"
    /\ prompting' = TRUE
    /\ UNCHANGED <<state, attempt, fate, lookup, running, resolved, ctx, host>>
    /\ UNCHANGED <<connecting, pass, reqs>>

CancelPrompt ==
    /\ prompting
    /\ prompting' = FALSE
    /\ UNCHANGED <<state, attempt, fate, lookup, running, resolved, ctx, host>>
    /\ UNCHANGED <<connecting, pass, reqs>>

\* The rest of the click's handler.  The dialog's event loop has delivered what
\* was posted before it waits for the answer, host lookups too.
AnswerPrompt ==
    /\ prompting /\ resolved = {}
    /\ prompting' = FALSE
    /\ ConnectToShare

LookupFinishes(a) ==
    /\ running' = running \ {a}
    /\ resolved' = resolved \cup {a}
    /\ UNCHANGED <<state, attempt, fate, lookup, ctx, host, connecting, prompting>>
    /\ UNCHANGED <<pass, reqs>>

OnHostResolved(a) ==
    /\ EventLoop
    /\ resolved' = resolved \ {a}
    /\ \/ /\ state # "Connecting" \/ ctx # 0    \* aborted or otherwise stale
          /\ lookup' = 0
          /\ UNCHANGED <<state, fate, ctx, host, connecting, Kept>>
       \/ /\ state = "Connecting" /\ ctx = 0    \* the lookup failed
          /\ state' = "Disconnected" /\ fate' = "error"
          /\ lookup' = 0
          /\ UNCHANGED <<ctx, host, connecting, Kept>>
       \/ /\ state = "Connecting" /\ ctx = 0
          /\ StartSmbConnect(attempt, a, 0)
    /\ UNCHANGED <<attempt, prompting, inService, handler>>
    /\ UNCHANGED <<on, applied, refused, answered>>

\* Faulty: inside smb2_service the teardown is forgotten.
LeaveForgets(from) ==
    /\ MayCall
    /\ state = from
    /\ state' = "Disconnected"
    /\ fate' = "user"
    /\ \/ /\ EventLoop
          /\ Teardown
       \/ /\ ~EventLoop
          /\ UNCHANGED <<lookup, running, ctx, host, connecting>>
          /\ UNCHANGED <<teardownPending, pendingError, destroyed, reply, log>>
    /\ UNCHANGED <<attempt, prompting, resolved, inService, handler>>
    /\ UNCHANGED <<on, applied, refused, answered>>

\* Faulty: the context is destroyed at once, even on the stack.
LeaveAtOnce(from) ==
    /\ MayCall
    /\ state = from
    /\ state' = "Disconnected"
    /\ fate' = "user"
    /\ Teardown
    /\ UNCHANGED <<attempt, prompting, resolved, inService, handler>>
    /\ UNCHANGED <<on, applied, refused, answered>>

\* abortConnect and disconnectFromShare: the same two ways out.  Inside
\* smb2_service() only the state flips; service() tears down afterwards.
Leave(from) ==
    /\ MayCall
    /\ state = from
    /\ state' = "Disconnected"
    /\ fate' = "user"
    /\ \/ /\ EventLoop
          /\ Teardown
       \/ /\ ~EventLoop
          /\ teardownPending' = TRUE
          /\ UNCHANGED <<lookup, running, ctx, host, connecting>>
          /\ UNCHANGED <<pendingError, destroyed, reply, log>>
    /\ UNCHANGED <<attempt, prompting, resolved, inService, handler>>
    /\ UNCHANGED <<on, applied, refused, answered>>

AbortConnect == Leave("Connecting")
DisconnectFromShare == Leave("Connected")

-----------------------------------------------------------------------------
(* Requests.                                                               *)

Sent(r) ==
    /\ reply' = [reply EXCEPT ![r] = "pending"]
    /\ on' = [on EXCEPT ![r] = ctx]

\* listDirectory and statFileNow: a failure is signalled from the call.
SubmitRead(r) ==
    /\ \/ state = "Connected" /\ Sent(r)
       \/ /\ reply' = [reply EXCEPT ![r] = "failed"]  \* or cannot be submitted
          /\ UNCHANGED on
    /\ UNCHANGED <<conn, pass, applied, refused, answered, log>>

ListDirectory(r) ==
    /\ MayCall /\ reply[r] = "new"
    /\ SubmitRead(r)

StatFile(r) ==
    /\ MayCall /\ reply[r] = "new"
    /\ \/ ~(Throttle /\ state = "Connected") /\ SubmitRead(r)
       \/ /\ Throttle /\ state = "Connected"
          /\ reply' = [reply EXCEPT ![r] = "delayed"]
          /\ UNCHANGED <<conn, pass, on, applied, refused, answered, log>>

DelayedStat(r) ==
    /\ EventLoop /\ reply[r] = "delayed"
    /\ SubmitRead(r)

\* renameFile, createHardLink, removeFile: failOpLater logs the failure and
\* queues its signal.
Mutate(o) ==
    /\ MayCall /\ reply[o] = "new"
    /\ \/ state = "Connected" /\ Sent(o) /\ UNCHANGED log
       \/ /\ reply' = [reply EXCEPT ![o] = "queued"]
          /\ log' = [log EXCEPT ![o] = "failed"]
          /\ UNCHANGED on
    /\ UNCHANGED <<conn, pass, applied, refused, answered>>

\* The event loop emits a queued operationFailed.
DeliverFailure(o) ==
    /\ EventLoop /\ reply[o] = "queued"
    /\ reply' = [reply EXCEPT ![o] = "failed"]
    /\ UNCHANGED <<conn, pass, on, applied, refused, answered, log>>

\* The server performs an operation that was sent, perhaps after the client
\* has given it up.
ServerApplies(o) ==
    /\ on[o] # 0 /\ o \notin applied \cup refused
    /\ applied' = applied \cup {o}
    /\ UNCHANGED <<conn, pass, reply, on, refused, answered, log>>

-----------------------------------------------------------------------------
(* A service pass: smb2_service runs callbacks, handlers call back.        *)

ServiceBegin ==
    /\ EventLoop /\ ctx # 0
    /\ inService' = ctx
    /\ handler' = FALSE
    /\ UNCHANGED <<conn, teardownPending, pendingError, destroyed, reqs>>

OnConnectDone ==
    /\ inService # 0 /\ connecting /\ inService = ctx
    /\ connecting' = FALSE
    /\ \/ /\ pendingError' = TRUE /\ teardownPending' = TRUE
          /\ UNCHANGED <<state, fate, handler>>
       \/ /\ state' = "Connected" /\ fate' = "connected"
          /\ handler' = TRUE
          /\ UNCHANGED <<pendingError, teardownPending>>
    /\ UNCHANGED <<attempt, lookup, running, resolved, ctx, host, prompting>>
    /\ UNCHANGED <<inService, destroyed, reqs>>

OnReadDone(r) ==
    /\ inService # 0 /\ reply[r] = "pending" /\ on[r] = inService
    /\ \E a \in {"ok", "failed"} : reply' = [reply EXCEPT ![r] = a]
    /\ handler' = TRUE
    /\ UNCHANGED <<conn, inService, teardownPending, pendingError, destroyed>>
    /\ UNCHANGED <<on, applied, refused, answered, log>>

\* The server's answer, or a PDU timeout, which is logged as a failure too.
OnOpDone(o) ==
    /\ inService # 0 /\ reply[o] = "pending" /\ on[o] = inService
    /\ \/ /\ o \in applied
          /\ reply' = [reply EXCEPT ![o] = "ok"]
          /\ log' = [log EXCEPT ![o] = "ok"]
          /\ UNCHANGED refused
       \/ /\ reply' = [reply EXCEPT ![o] = "failed"]
          /\ log' = [log EXCEPT ![o] = "failed"]
          /\ refused' \in {refused, refused \cup ({o} \ applied)}
    /\ answered' = answered \cup {o}
    /\ handler' = TRUE
    /\ UNCHANGED <<conn, inService, teardownPending, pendingError, destroyed>>
    /\ UNCHANGED <<on, applied>>

\* Faulty: an error of smb2_service is not recorded.
ServiceEndSilent(broken) ==
    /\ inService # 0
    /\ inService' = 0 /\ handler' = FALSE
    /\ \/ /\ broken \/ teardownPending
          /\ state' = "Disconnected"
          /\ fate' = IF pendingError THEN "error" ELSE fate
          /\ Teardown
       \/ /\ ~broken /\ ~teardownPending
          /\ UNCHANGED <<state, fate, lookup, running, ctx, host, connecting>>
          /\ UNCHANGED <<teardownPending, pendingError, destroyed, reply, log>>
    /\ UNCHANGED <<attempt, prompting, resolved, on, applied, refused, answered>>

\* smb2_service returns; broken: with an error.
ServiceEnd(broken) ==
    /\ inService # 0
    /\ inService' = 0 /\ handler' = FALSE
    /\ \/ /\ broken \/ teardownPending
          /\ state' = "Disconnected"
          /\ fate' = IF broken \/ pendingError THEN "error" ELSE fate
          /\ Teardown
       \/ /\ ~broken /\ ~teardownPending
          /\ UNCHANGED <<state, fate, lookup, running, ctx, host, connecting>>
          /\ UNCHANGED <<teardownPending, pendingError, destroyed, reply, log>>
    /\ UNCHANGED <<attempt, prompting, resolved, on, applied, refused, answered>>

Next ==
    \/ OpenPrompt \/ CancelPrompt \/ AnswerPrompt
    \/ AbortConnect \/ DisconnectFromShare
    \/ \E a \in running : LookupFinishes(a)
    \/ \E a \in resolved : OnHostResolved(a)
    \/ \E r \in Lists : ListDirectory(r)
    \/ \E r \in Stats : StatFile(r) \/ DelayedStat(r)
    \/ \E o \in Ops : Mutate(o) \/ DeliverFailure(o) \/ ServerApplies(o)
    \/ ServiceBegin \/ OnConnectDone
    \/ \E r \in Reads : OnReadDone(r)
    \/ \E o \in Ops : OnOpDone(o)
    \/ \E broken \in BOOLEAN : ServiceEnd(broken)

\* The tick timer keeps the passes coming; a pass ends; once the PDU timeout
\* has expired every pass runs the callback.  Between passes the event loop
\* delivers what is posted.
Fairness ==
    /\ WF_vars(ServiceBegin)
    /\ WF_vars(\E broken \in BOOLEAN : ServiceEnd(broken))
    /\ \A r \in Reads : SF_vars(OnReadDone(r))
    /\ \A r \in Stats : SF_vars(DelayedStat(r))
    /\ \A o \in Ops : SF_vars(OnOpDone(o)) /\ SF_vars(DeliverFailure(o))

Spec == Init /\ [][Next]_vars
FairSpec == Spec /\ Fairness

-----------------------------------------------------------------------------
(* Properties.                                                             *)

Standing == {"new", "delayed", "pending", "queued", "ok", "failed", "dropped"}

TypeOK ==
    /\ state \in {"Disconnected", "Connecting", "Connected"}
    /\ attempt \in 0 .. MaxAttempt
    /\ fate \in {"none", "open", "connected", "user", "error"}
    /\ {lookup, ctx, host, inService} \subseteq 0 .. attempt
    /\ running \cup resolved \cup destroyed \subseteq 1 .. attempt
    /\ connecting \in BOOLEAN /\ prompting \in BOOLEAN /\ handler \in BOOLEAN
    /\ teardownPending \in BOOLEAN /\ pendingError \in BOOLEAN
    /\ reply \in [Requests -> Standing] /\ on \in [Requests -> 0 .. attempt]
    /\ applied \cup refused \cup answered \subseteq Ops
    /\ log \in [Ops -> {"none", "ok", "failed", "unknown"}]

\* SmbSession.cpp, teardown(): "Must never run while inside smb2_service()".
\* A context is not destroyed while smb2_service runs on it, whatever the
\* handlers of the signals it emits call.
NotDestroyedInService == inService \notin destroyed

\* Nothing of a connection outlives it: once the session is Disconnected and
\* control is back in the event loop no context, lookup, request or pending
\* teardown is left that could disturb the next connection, and a connection
\* is to the host its own attempt looked up, never an aborted one.
NothingOutlivesConnection ==
    /\ state = "Disconnected" /\ EventLoop =>
         /\ ctx = 0 /\ lookup = 0
         /\ ~teardownPending /\ ~pendingError
         /\ \A r \in Requests : reply[r] # "pending"
    /\ ctx # 0 => host = ctx /\ ctx = attempt

\* Every request in flight hangs on the context the session still services,
\* so its callback will come.
NoOrphanedRequest ==
    \A r \in Requests : reply[r] = "pending" => ctx # 0 /\ on[r] = ctx

\* SmbSession.h: "a failed attempt emits stateChanged(Disconnected) followed
\* by errorOccurred()".  Only the user's own abort or disconnect is silent.
EndIsExplained ==
    state = "Disconnected" /\ EventLoop => fate # "open" /\ fate # "connected"

\* SmbSession.cpp, onOpDone: when a request died in the teardown flush "the log
\* must record that the outcome is unknown, not claim failure".  The log claims
\* success only for what the server performed; of an operation that was sent it
\* claims an outcome exactly when a callback brought one, and it has an entry once
\* the completion was signalled.
LogTruthful ==
    \A o \in Ops :
        /\ log[o] = "ok" => o \in applied
        /\ on[o] # 0 /\ log[o] # "none" => (log[o] = "unknown" <=> o \notin answered)
        /\ on[o] # 0 /\ reply[o] \in {"ok", "failed"} => log[o] # "none"

\* SmbSession.h: "completion arrives", also when the connection is aborted,
\* breaks or is dropped by the user at any point in between.
OpsAnswered ==
    \A o \in Ops :
        reply[o] \in {"pending", "queued"} ~> reply[o] \in {"ok", "failed"}

\* A listing or stat asked for, throttled or not, is answered or goes with the
\* connection: the views' window of stats and the searcher's slots rest on it.
ReadsSettle ==
    \A r \in Reads :
        reply[r] \in {"delayed", "pending"} ~> reply[r] \in {"ok", "failed", "dropped"}

\* SmbSession.h on the operations: every one asked for is completed exactly
\* once, never before the call that asked for it has returned.
Channel == INSTANCE OpChannel WITH
    status <- [o \in Ops |-> IF reply[o] \in {"pending", "queued"} THEN "open"
                             ELSE reply[o]]
CompletesOnce == Channel!Spec
=============================================================================
