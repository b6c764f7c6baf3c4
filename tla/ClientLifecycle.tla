--------------------------- MODULE ClientLifecycle ---------------------------
(***************************************************************************)
(* What class package promises the class derived from it (the client):     *)
(* its initialize(factory &) is entered at most once and never after its   *)
(* terminate(), which is itself called at most once.                       *)
(***************************************************************************)
EXTENDS Naturals

VARIABLES
  entered,      \* how many times the client's initialize() was entered
  terminated    \* the client's terminate() was called

lifecycle == <<entered, terminated>>

Init ==
  /\ entered = 0
  /\ terminated = FALSE

EnterInitialize ==
  /\ entered = 0
  /\ ~terminated
  /\ entered' = 1
  /\ UNCHANGED terminated

Terminate ==
  /\ ~terminated
  /\ terminated' = TRUE
  /\ UNCHANGED entered

Next == EnterInitialize \/ Terminate

Spec == Init /\ [][Next]_lifecycle
==============================================================================
