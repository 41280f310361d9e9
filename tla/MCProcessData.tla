---------------------------- MODULE MCProcessData ----------------------------
(* Instances of ProcessData for TLC; the bounds are in the .cfg files.                 *)
EXTENDS ProcessData
==============================================================================
