---------------------------- MODULE SafeReplace ----------------------------
(***************************************************************************)
(* What replacing files with hard links may do to a share, whoever does it *)
(* and however its requests are lost or delayed (LinkRunner.h: "the        *)
(* victim's data still exists (under the tmp name) until the link is in    *)
(* place; a failed link renames the tmp back").                            *)
(* file[n] is the inode at path n, aside[n] the one at n + ".smbmgr-tmp".  *)
(***************************************************************************)
CONSTANTS Name, Inode, None, Shares

VARIABLES file, aside

vars == <<file, aside>>

Init == \E s \in Shares : file = s.file /\ aside = s.aside

MoveAside(v) ==
    /\ file[v] # None /\ aside[v] = None
    /\ file' = [file EXCEPT ![v] = None]
    /\ aside' = [aside EXCEPT ![v] = file[v]]

\* A link is only placed where a copy of the victim stands aside.
PlaceLink(p, v) ==
    /\ file[p] # None /\ file[v] = None /\ aside[v] # None
    /\ file' = [file EXCEPT ![v] = file[p]]
    /\ UNCHANGED aside

\* The copy goes only once the victim's path names a file again.
RemoveAside(v) ==
    /\ file[v] # None /\ aside[v] # None
    /\ aside' = [aside EXCEPT ![v] = None]
    /\ UNCHANGED file

PutBack(v) ==
    /\ file[v] = None /\ aside[v] # None
    /\ file' = [file EXCEPT ![v] = aside[v]]
    /\ aside' = [aside EXCEPT ![v] = None]

Next ==
    \E v \in Name :
        \/ MoveAside(v)
        \/ \E p \in Name : PlaceLink(p, v)
        \/ RemoveAside(v)
        \/ PutBack(v)

Spec == Init /\ [][Next]_vars
=============================================================================
