-------------------------- MODULE MCFileBrowserView --------------------------
(* Two directories of up to two files for FileBrowserView.                 *)
EXTENDS FileBrowserView

CONSTANTS root, sub, f, g
=============================================================================
