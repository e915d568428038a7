------------------------------ MODULE OpChannel ------------------------------
(***************************************************************************)
(* What SmbSession promises the caller of renameFile, createHardLink and   *)
(* removeFile (smb/SmbSession.h): "completion arrives as                   *)
(* operationSucceeded(id) or operationFailed(id, message) - always         *)
(* asynchronously, even for immediate failures".                           *)
(***************************************************************************)
CONSTANT Ops

VARIABLE status  \* per operation: not asked for, open, or its completion

Init == status = [o \in Ops |-> "new"]

Ask(o) ==
    /\ status[o] = "new"
    /\ status' = [status EXCEPT ![o] = "open"]

Complete(o) ==
    /\ status[o] = "open"
    /\ \E a \in {"ok", "failed"} : status' = [status EXCEPT ![o] = a]

Next == \E o \in Ops : Ask(o) \/ Complete(o)

Spec == Init /\ [][Next]_status
=============================================================================
