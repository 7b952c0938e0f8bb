----------------------------- MODULE MCFileLane -----------------------------
(* Small instances of FileLane.                                             *)
EXTENDS FileLane
=============================================================================
