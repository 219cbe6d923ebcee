----------------------------- MODULE MCNodeLock -----------------------------
(* NodeLock for TLC: the service and a second process on the node (another *)
(* start of the service, or -adopt-target), two requests each.             *)
EXTENDS NodeLock, TLC
=============================================================================
