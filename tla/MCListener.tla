----------------------------- MODULE MCListener ------------------------------
(* Instances of Listener for TLC; the bounds are in the .cfg files.          *)
EXTENDS Listener
==============================================================================
