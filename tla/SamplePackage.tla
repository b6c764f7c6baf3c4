----------------------------- MODULE SamplePackage -----------------------------
(***************************************************************************)
(* The sample package as Visual Studio runs it: the life of a package      *)
(* (Package), its client with one command and one window (StylesDiscover)  *)
(* and the command's registration (CommandMap).                            *)
(*                                                                         *)
(* They share the UI thread: while it loads or closes the package, or is   *)
(* inside the command's handler or a closing window, it does nothing else. *)
(* The loader's thread and the scheduler of tasks go on meanwhile.         *)
(***************************************************************************)
EXTENDS Package

CONSTANTS
  Panes, NoPane,        \* of StylesDiscover
  Mishaps               \* its disturbances

VARIABLES
  window, view, impl, frame, advised, stack,    \* of Panes
  active, connected, terminated,                \* of StylesDiscover
  latest,       \* the commands registered, see CommandMap
  maker         \* maker[p]: the number of the factory p's window was made with

cmdidShowStyles == 1

Sample == INSTANCE StylesDiscover WITH Disturbances <- Mishaps
Commands == INSTANCE CommandMap WITH Ids <- {cmdidShowStyles}

ASSUME SamplePackageAssumption ==
  /\ NoPane \notin Panes /\ IsFiniteSet(Panes)
  /\ Mishaps \subseteq Sample!AllMishaps

package == <<host, calls, members, subscriptions, control, acquiring, queued,
             lost, initialized, closed, colours>>
sample == <<window, view, impl, frame, advised, stack, active, connected,
            terminated>>
sampleVars == <<vars, sample, latest, maker>>

SampleInit ==
  /\ Init /\ Sample!Init /\ Commands!Init
  /\ maker = [p \in Panes |-> 0]

-----------------------------------------------------------------------------
(* A slip: a command that is there already is not registered again.        *)
RegisteredOnce ==
  IF cmdidShowStyles \in DOMAIN latest THEN UNCHANGED latest
  ELSE Commands!Register(cmdidShowStyles, FALSE)

(* initialize(factory_): add_command, with a handler that refers to that   *)
(* factory.  The n-th registration is made with the n-th factory.          *)
Registered == Commands!Register(cmdidShowStyles, FALSE)

Closing == terminated /\ ~closed
UIThreadFree == pc["ui"] = "idle" /\ stack = <<>> /\ ~Closing

(* The n-th initialize() puts the n-th factory in the place of any before, *)
(* which is thereby destroyed: `_factory = make_shared<factory>(...)'.     *)
Load ==
  /\ \/ Initialize /\ ~Closing
     \/ SetSite /\ UIThreadFree
     \/ \E t \in Threads : Step(t)
     \/ \E s \in Services : RunContinuation(s) /\ UIThreadFree
  /\ IF initialized' = initialized THEN UNCHANGED latest ELSE Registered
  /\ UNCHANGED <<sample, maker>>

Host ==
  /\ \/ \E s \in Services : AcquisitionCompletes(s) \/ AcquisitionLost(s)
     \/ ColorsChange
     \/ OnBroadcastMessage /\ UIThreadFree
  /\ UNCHANGED <<sample, latest, maker>>

(* The user; the command is found only once it is registered.              *)
User ==
  /\ UIThreadFree
  /\ \/ Sample!ShowStyles /\ cmdidShowStyles \in DOMAIN latest /\ Sample!Unused # {}
     \/ \E p \in Panes : /\ Sample!UserCloses(p) \/ Sample!NotifiesLate(p)
                         /\ UNCHANGED <<active, connected, terminated>>
  /\ UNCHANGED <<package, latest, maker>>

(* Close begins with terminate() ...                                       *)
BeginClose ==
  /\ MayClose /\ UIThreadFree
  /\ Sample!Terminate
  /\ UNCHANGED <<package, latest, maker>>

(* A slip: the package lets go of the factory before it calls terminate(). *)
ReleasesFirst == stack = <<>>

(* ... which has to return first.                                          *)
TerminateReturned == terminated /\ stack = <<>>

EndClose ==
  /\ TerminateReturned
  /\ Close
  /\ UNCHANGED <<sample, latest, maker>>

(* The handler makes its window with the factory it refers to.             *)
Resume ==
  /\ Sample!Resume
  /\ maker' = [p \in Panes |-> IF p \in Sample!Unused /\ p \notin Sample!Unused'
                              THEN latest[cmdidShowStyles].number ELSE maker[p]]
  /\ UNCHANGED <<package, latest>>

SampleNext ==
  /\ ~crashed
  /\ Load \/ Host \/ User \/ BeginClose \/ Resume \/ EndClose

SampleSpec == SampleInit /\ [][SampleNext]_sampleVars

-----------------------------------------------------------------------------
(* Properties.                                                             *)

(* The handler of the command, which holds a reference to a factory, never *)
(* runs without that very factory: not before the package is loaded, not   *)
(* after it is closed, and not when a second load has replaced it.         *)
HandlerHasItsFactory ==
  \A i \in DOMAIN stack :
    stack[i].at \in {"create", "furnish"}
      => factory /\ latest[cmdidShowStyles].number = initialized

(* The order of the steps of Close: a window is open only while the        *)
(* package has a factory, and when Close is over no window, pane, frame or *)
(* listener is left, nor do late calls make one.  That factory is the one  *)
(* that made the window, except for a host that calls both Initialize and  *)
(* SetSite: its second load destroys the first factory under the window.   *)
NothingOutlivesFactory ==
  ~crashed =>
    /\ \A p \in Sample!Open :
         /\ factory
         /\ maker[p] = initialized \/ {"Initialize", "SetSite"} \subseteq calls
    /\ closed => \A p \in Panes : Sample!Gone(p)
==============================================================================
