-------------------------- MODULE MCShareCacheStore --------------------------
(* Small instances of ShareCacheStore for TLC.                             *)
EXTENDS ShareCacheStore

CONSTANTS a, b

\* No directory is inside another.
Flat == [d \in Dirs |-> {}]
=============================================================================
