------------------------------ MODULE MCBridge ------------------------------
(* Libraries for Bridge: one that exports all of a lane's functions, one   *)
(* without any, and one without each.                                      *)
EXTENDS Bridge

MCLibraries == {{}, DOMAIN LaneRows} \cup {{f} : f \in DOMAIN LaneRows}
=============================================================================
