------------------------------ MODULE MCPackage ------------------------------
(* Package with the sets of disturbances its runs allow.                   *)
EXTENDS Package

AcrossTheBoundary == {13, 14}

Orderly == {"lost", "refused", "throws"}
Faults == AllDisturbances \ {"no_version"}
RacingClose == {"racing_close"}
==============================================================================
