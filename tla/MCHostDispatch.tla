--------------------------- MODULE MCHostDispatch ---------------------------
(* Small instances of HostDispatch: names the runner remembers, and one    *)
(* that is too long for it and fits beside no other.                       *)
EXTENDS HostDispatch

CONSTANTS a, b, c, long

MCSize == [t \in Targets |-> IF t = long THEN 3 ELSE 1]
=============================================================================
