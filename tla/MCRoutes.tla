------------------------------ MODULE MCRoutes -------------------------------
(* Instances of Routes for TLC; the bounds are in the .cfg file.             *)
EXTENDS Routes
==============================================================================
