---------------------------- MODULE MCSmbSession ----------------------------
(* Small instances of SmbSession for TLC.                                  *)
EXTENDS SmbSession

CONSTANTS l1, s1, o1
=============================================================================
