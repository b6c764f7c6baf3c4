-------------------------------- MODULE Async --------------------------------
(***************************************************************************)
(* Asynchronous service acquisition: src/src/async.cpp on top of the       *)
(* host's IVsTask scheduler.                                               *)
(*                                                                         *)
(* QueryServiceAsync starts an acquisition task; when_complete attaches to *)
(* it a task body that the scheduler runs on the UI thread once the        *)
(* acquisition has run to completion.  Tasks of one service differ in      *)
(* nothing but their number, so the module counts them.                    *)
(***************************************************************************)
EXTENDS Naturals

CONSTANT Services       \* the services that can be asked for

VARIABLES
  acquiring,            \* acquiring[s]: acquisition tasks of s still running
  queued,               \* queued[s]: completed ones whose body waits for the UI thread
  lost                  \* services an answer of which never came

tasks == <<acquiring, queued, lost>>

TasksTypeOK ==
  /\ acquiring \in [Services -> Nat]
  /\ queued \in [Services -> Nat]
  /\ lost \subseteq Services

TasksInit ==
  /\ acquiring = [s \in Services |-> 0]
  /\ queued = [s \in Services |-> 0]
  /\ lost = {}

(* QueryServiceAsync returned S_OK and when_complete attached the body.  A *)
(* task that completes before ContinueWith is called queues the body at    *)
(* once, which is Acquire followed by Complete.                            *)
Acquire(s) ==
  /\ acquiring' = [acquiring EXCEPT ![s] = @ + 1]
  /\ UNCHANGED <<queued, lost>>

(* The host ran the acquisition to completion: the body is scheduled.      *)
Complete(s) ==
  /\ acquiring[s] > 0
  /\ acquiring' = [acquiring EXCEPT ![s] = @ - 1]
  /\ queued' = [queued EXCEPT ![s] = @ + 1]
  /\ UNCHANGED lost

(* The acquisition faulted.  ContinueWith uses VSTCO_Default, which is     *)
(* VSTCO_NotOnFaulted: the body never runs.                                *)
Fault(s) ==
  /\ acquiring[s] > 0
  /\ acquiring' = [acquiring EXCEPT ![s] = @ - 1]
  /\ lost' = lost \union {s}
  /\ UNCHANGED queued

(* The scheduler takes the body off its queue to call DoWork.              *)
Dispatch(s) ==
  /\ queued[s] > 0
  /\ queued' = [queued EXCEPT ![s] = @ - 1]
  /\ UNCHANGED <<acquiring, lost>>

(* DoWork ends before it calls back: the result does not convert to an     *)
(* interface pointer, and the exception of CheckHresult is caught.         *)
EndEarly(s) ==
  /\ queued[s] > 0
  /\ queued' = [queued EXCEPT ![s] = @ - 1]
  /\ lost' = lost \union {s}
  /\ UNCHANGED acquiring

(* Neither a task nor a body is outstanding for s.                         *)
Settled(s) == acquiring[s] = 0 /\ queued[s] = 0
==============================================================================
