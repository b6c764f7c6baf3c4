------------------------------- MODULE Package -------------------------------
(***************************************************************************)
(* Loading and unloading of a Visual Studio package: class package         *)
(* (src/wpl/vs/package.h, src/src/package.cpp) driven by its host.         *)
(*                                                                         *)
(* A host of version 14 or later calls Initialize, on a background thread, *)
(* and the services the package asks for arrive in continuations on the UI *)
(* thread; an older host calls SetSite and answers within the call.  Both  *)
(* ways lead through the same lambdas, so a thread's progress through them *)
(* is a program counter here: each step ends where the code calls out of   *)
(* the package or where the other thread may interleave.                   *)
(***************************************************************************)
EXTENDS Naturals, FiniteSets

CONSTANTS
  HostVersions,         \* the major versions of Visual Studio it may be loaded by
  Disturbances          \* what may go wrong around the package, see below

(* missing      a service is answered with no object                       *)
(* lost         an acquisition faults, or its result is no interface       *)
(* refused      QueryServiceAsync fails                                    *)
(* throws       create_stylesheet or the client's initialize throws        *)
(* no_version   the host's version cannot be read                          *)
(* racing_close the host closes the package while services are on the way  *)
AllDisturbances ==
  {"missing", "lost", "refused", "throws", "no_version", "racing_close"}

ASSUME HostAssumption ==
  /\ HostVersions \subseteq Nat
  /\ Disturbances \subseteq AllDisturbances

RootServices == {"IVsUIShell", "IVsFontAndColorStorage"}
Services == RootServices \union {"IVsShell"}
Threads == {"ui", "loader"}

(* The other of the two services initialize() waits for.                   *)
Other(s) == IF s = "IVsUIShell" THEN "IVsFontAndColorStorage" ELSE "IVsUIShell"

VARIABLES
  host,         \* the major version of the host that loads the package
  calls,        \* the loading entry points the host has called
  providers,    \* which of the two service providers the package holds
  held,         \* the services held in CComPtr members (non-null ones)
  factory,      \* _factory is set
  subscriptions,\* times the package is in the shell's list of broadcast listeners
  pc,           \* pc[t]: where thread t is in the package's code
  subject,      \* subject[t]: the service whose request or answer t handles
  more,         \* more[t]: t still has to request the second root service
  failed,       \* an exception ended a load
  acquiring,
  queued,
  lost,         \* the asynchronous acquisitions, see Async
  initialized,  \* times the client's initialize() was entered
  closed,       \* Close was called
  crashed,      \* a null interface pointer was dereferenced: the process is gone
  pending,      \* a WM_SYSCOLORCHANGE waits to be broadcast
  untold        \* the system colours changed since the stylesheet was made,
                \* and _update_styles has not been raised since

Tasks == INSTANCE Async

members == <<providers, held, factory>>
control == <<pc, subject, more, failed>>
colours == <<pending, untold>>
vars == <<host, calls, members, subscriptions, control, acquiring, queued,
          lost, initialized, closed, crashed, colours>>

Labels == {"idle", "obtain", "on_ready", "check", "obtain_shell",
           "shell_ready", "advise", "create"}

(* TYPE INVARIANT: every variable of package and its host keeps its type. *)
TypeOK ==
  /\ host \in HostVersions
  /\ calls \subseteq {"Initialize", "SetSite"}
  /\ providers \subseteq {"async", "sync"}
  /\ held \subseteq Services
  /\ factory \in BOOLEAN
  /\ subscriptions \in Nat
  /\ pc \in [Threads -> Labels]
  /\ subject \in [Threads -> RootServices]
  /\ more \in [Threads -> BOOLEAN]
  /\ failed \in BOOLEAN
  /\ Tasks!TasksTypeOK
  /\ initialized \in Nat
  /\ closed \in BOOLEAN /\ crashed \in BOOLEAN
  /\ pending \in BOOLEAN /\ untold \in BOOLEAN

Init ==
  /\ host \in HostVersions
  /\ calls = {}
  /\ providers = {}
  /\ held = {}
  /\ factory = FALSE
  /\ subscriptions = 0
  /\ pc = [t \in Threads |-> "idle"]
  /\ subject = [t \in Threads |-> "IVsUIShell"]
  /\ more = [t \in Threads |-> FALSE]
  /\ failed = FALSE
  /\ Tasks!TasksInit
  /\ initialized = 0
  /\ closed = FALSE
  /\ crashed = FALSE
  /\ pending = FALSE
  /\ untold = FALSE

-----------------------------------------------------------------------------
(* Control flow of a thread.                                               *)

Goto(t, label) ==
  /\ pc' = [pc EXCEPT ![t] = label]
  /\ UNCHANGED <<subject, more, failed>>

(* obtain_root_services: request IVsUIShell, then IVsFontAndColorStorage.  *)
StartObtaining(t) ==
  /\ pc' = [pc EXCEPT ![t] = "obtain"]
  /\ subject' = [subject EXCEPT ![t] = "IVsUIShell"]
  /\ more' = [more EXCEPT ![t] = TRUE]
  /\ UNCHANGED failed

(* A slip: the second request is never made.                               *)
ReturnAtOnce(t) == Goto(t, "idle")

(* A call of obtain_service, or a continuation, is over.                   *)
Return(t) ==
  IF more[t]
  THEN /\ pc' = [pc EXCEPT ![t] = "obtain"]
       /\ subject' = [subject EXCEPT ![t] = "IVsFontAndColorStorage"]
       /\ more' = [more EXCEPT ![t] = FALSE]
       /\ UNCHANGED failed
  ELSE Goto(t, "idle")

(* An exception reaches the catch (...) of SetSite, Initialize or DoWork.  *)
Unwind(t) ==
  /\ pc' = [pc EXCEPT ![t] = "idle"]
  /\ more' = [more EXCEPT ![t] = FALSE]
  /\ failed' = TRUE
  /\ UNCHANGED subject

Crash ==
  /\ crashed' = TRUE
  /\ UNCHANGED <<host, calls, members, subscriptions, control, acquiring,
                 queued, lost, initialized, closed, colours>>

-----------------------------------------------------------------------------
(* The loading entry points.                                               *)

(* A slip: the provider the host gives is not stored.                      *)
NotStored == providers

(* _async_service_provider = asp                                           *)
Stored == providers \union {"async"}

Initialize ==
  /\ host >= 14
  /\ "Initialize" \notin calls /\ ~closed
  /\ calls' = calls \union {"Initialize"}
  /\ providers' = Stored
  /\ StartObtaining("loader")
  /\ UNCHANGED <<host, held, factory, subscriptions, acquiring, queued,
                 lost, initialized, closed, crashed, colours>>

(* A slip: version 14 itself goes on.                                      *)
LeavesToInitializeAfter14 == host > 14

(* `if (v >= 14.0) return S_OK': the host loads the package with           *)
(* Initialize.                                                             *)
LeavesToInitialize == host >= 14

(* Without a shell SetSite leaves at once.  When the version cannot be got *)
(* it goes on, and when it is no number v is indeterminate: either way.    *)
SetSite ==
  /\ pc["ui"] = "idle"
  /\ "SetSite" \notin calls /\ ~closed
  /\ calls' = calls \union {"SetSite"}
  /\ \/ /\ LeavesToInitialize \/ {"missing", "no_version"} \intersect Disturbances # {}
        /\ UNCHANGED <<providers, control>>
     \/ /\ ~LeavesToInitialize \/ "no_version" \in Disturbances
        /\ providers' = providers \union {"sync"}
        /\ StartObtaining("ui")
  /\ UNCHANGED <<host, held, factory, subscriptions, acquiring, queued,
                 lost, initialized, closed, crashed, colours>>

-----------------------------------------------------------------------------
(* The path through obtain_root_services, its lambdas and initialize().    *)

(* obtain_service: with an asynchronous provider the request is `Requested' *)
(* and the caller goes on; otherwise the answer is handled inside the call. *)
ObtainService(t, s, Requested, Answered) ==
  /\ \/ /\ "async" \in providers
        /\ Tasks!Acquire(s)
        /\ Requested
     \/ /\ "async" \in providers
        /\ "refused" \in Disturbances
        /\ Unwind(t)
        /\ UNCHANGED <<acquiring, queued, lost>>
     \/ /\ providers = {"sync"}
        /\ Answered
        /\ UNCHANGED <<acquiring, queued, lost>>
  /\ UNCHANGED <<host, calls, members, subscriptions, initialized, closed,
                 crashed, colours>>

(* Without a provider _service_provider-> goes through a null pointer.     *)
NoProvider == providers = {} /\ Crash

ObtainRoot(t) ==
  /\ pc[t] = "obtain"
  /\ \/ ObtainService(t, subject[t], Return(t), Goto(t, "on_ready"))
     \/ NoProvider

(* self->_shell_ui = p; self->_fonts_and_colors = p;                       *)
OnRootReady(t) ==
  /\ pc[t] = "on_ready"
  /\ \/ held' = held \union {subject[t]}
     \/ "missing" \in Disturbances /\ held' = held \ {subject[t]}
  /\ Goto(t, "check")
  /\ UNCHANGED <<host, calls, providers, factory, subscriptions, acquiring,
                 queued, lost, initialized, closed, crashed, colours>>

(* A slip: only the second lambda looks for the service of the first.      *)
LooksInOneLambda(t) ==
  subject[t] = "IVsFontAndColorStorage" /\ "IVsUIShell" \in held

(* !!self->_fonts_and_colors, and its twin in the other lambda             *)
OtherCame(t) == Other(subject[t]) \in held

(* A slip: initialize() does not ask for IVsShell.                         *)
WithoutShell == "create"

InitializeBegins == "obtain_shell"

(* if (!!self->_fonts_and_colors) self->initialize();                      *)
Check(t) ==
  /\ pc[t] = "check"
  /\ IF OtherCame(t) THEN Goto(t, InitializeBegins) ELSE Return(t)
  /\ UNCHANGED <<host, calls, members, subscriptions, acquiring,
                 queued, lost, initialized, closed, crashed, colours>>

ObtainShell(t) ==
  /\ pc[t] = "obtain_shell"
  /\ \/ ObtainService(t, "IVsShell", Goto(t, "create"), Goto(t, "shell_ready"))
     \/ NoProvider

(* self->_shell = p; p->AdviseBroadcastMessages(...), inside initialize()  *)
(* or in a continuation of its own; p is not tested.                       *)
Subscribe ==
  /\ held' = held \union {"IVsShell"}
  /\ subscriptions' = subscriptions + 1
  /\ UNCHANGED <<host, calls, providers, factory, acquiring, queued,
                 lost, initialized, closed, crashed, colours>>

OnShellReady(t) ==
  \/ pc[t] = "shell_ready" /\ Goto(t, "create") /\ Subscribe
  \/ pc[t] = "advise" /\ Goto(t, "idle") /\ Subscribe
  \/ pc[t] \in {"shell_ready", "advise"} /\ "missing" \in Disturbances /\ Crash

(* create_stylesheet, make_shared<factory> and the client's initialize().  *)
(* *_shell_ui and *_fonts_and_colors throw when the pointer is null.       *)
Create(t) ==
  /\ pc[t] = "create"
  /\ \/ /\ RootServices \subseteq held
        /\ factory' = TRUE
        /\ untold' = FALSE
        /\ initialized' = initialized + 1
        /\ Return(t) \/ ("throws" \in Disturbances /\ Unwind(t))
     \/ /\ ~ (RootServices \subseteq held) \/ "throws" \in Disturbances
        /\ Unwind(t)
        /\ UNCHANGED <<factory, untold, initialized>>
  /\ UNCHANGED <<host, calls, providers, held, subscriptions, acquiring,
                 queued, lost, closed, crashed, pending>>

-----------------------------------------------------------------------------
(* The host's task scheduler.                                              *)

Elsewhere == <<host, calls, members, subscriptions, initialized, closed, crashed,
               colours>>

AcquisitionCompletes(s) ==
  Tasks!Complete(s) /\ UNCHANGED <<control, Elsewhere>>

AcquisitionLost(s) ==
  /\ "lost" \in Disturbances
  /\ Tasks!Fault(s)
  /\ UNCHANGED <<control, Elsewhere>>

(* DoWork on the UI thread (VSTC_UITHREAD_NORMAL_PRIORITY).                *)
EnterContinuation(s) ==
  IF s = "IVsShell"
  THEN Goto("ui", "advise")
  ELSE /\ pc' = [pc EXCEPT !["ui"] = "on_ready"]
       /\ subject' = [subject EXCEPT !["ui"] = s]
       /\ UNCHANGED <<more, failed>>

RunContinuation(s) ==
  /\ pc["ui"] = "idle"
  /\ \/ Tasks!Dispatch(s) /\ EnterContinuation(s)
     \/ "lost" \in Disturbances /\ Tasks!EndEarly(s) /\ UNCHANGED control
  /\ UNCHANGED Elsewhere

-----------------------------------------------------------------------------
(* Broadcasts and unloading, on the UI thread.                             *)

(* The user changes the system colours: what the stylesheet read is old.   *)
ColorsChange ==
  /\ ~pending
  /\ pending' = TRUE
  /\ untold' = factory
  /\ UNCHANGED <<host, calls, members, subscriptions, control, acquiring,
                 queued, lost, initialized, closed, crashed>>

(* A slip: the message is compared with another one.                       *)
NotSignalled == untold

(* _update_styles(), if the shell has the package among its listeners.     *)
(* What the client does with the signal is its own affair.                 *)
Signalled == untold /\ subscriptions = 0

(* The shell passes WM_SYSCOLORCHANGE to its listeners.                    *)
OnBroadcastMessage ==
  /\ pc["ui"] = "idle"
  /\ pending
  /\ pending' = FALSE
  /\ untold' = Signalled
  /\ UNCHANGED <<host, calls, members, subscriptions, control, acquiring,
                 queued, lost, initialized, closed, crashed>>

(* Slips: the shell is not unadvised, or without asking whether it is held. *)
NeverUnadvised == subscriptions
AlwaysUnadvised == subscriptions - 1

(* if (_shell) _shell->UnadviseBroadcastMessages(_broadcast_cookie);       *)
Unadvised ==
  IF "IVsShell" \in held THEN subscriptions - 1 ELSE subscriptions

Outstanding == \E s \in Services : ~Tasks!Settled(s)

(* The host closes a package it has loaded, once.                          *)
MayClose ==
  /\ \A t \in Threads : pc[t] = "idle"
  /\ calls # {} /\ ~closed
  /\ Outstanding => "racing_close" \in Disturbances

Close ==
  /\ MayClose
  /\ closed' = TRUE                       \* terminate()
  /\ factory' = FALSE
  /\ untold' = FALSE
  /\ subscriptions' = Unadvised
  /\ held' = {}
  /\ providers' = {}
  /\ UNCHANGED <<host, calls, control, acquiring, queued, lost, initialized,
                 crashed, pending>>

-----------------------------------------------------------------------------
Step(t) ==
  \/ ObtainRoot(t)
  \/ OnRootReady(t)
  \/ Check(t)
  \/ ObtainShell(t)
  \/ OnShellReady(t)
  \/ Create(t)

Next ==
  /\ ~crashed
  /\ \/ Initialize
     \/ SetSite
     \/ \E t \in Threads : Step(t)
     \/ \E s \in Services :
          \/ AcquisitionCompletes(s)
          \/ AcquisitionLost(s)
          \/ RunContinuation(s)
     \/ ColorsChange
     \/ OnBroadcastMessage
     \/ Close

Spec == Init /\ [][Next]_vars

(* A thread inside the package goes on; the host completes the tasks it    *)
(* accepted, runs their bodies, delivers broadcasts.  It need not load,    *)
(* close or change colours.                                                *)
Fairness ==
  /\ \A t \in Threads : WF_vars(~crashed /\ Step(t))
  /\ \A s \in Services :
       /\ WF_vars(~crashed /\ AcquisitionCompletes(s))
       /\ WF_vars(~crashed /\ RunContinuation(s))
  /\ WF_vars(~crashed /\ OnBroadcastMessage)

FairSpec == Spec /\ Fairness

-----------------------------------------------------------------------------
(* Properties.                                                             *)

(* The factory, which the client's command handlers reach through a        *)
(* reference, is never built, or left standing, after Close has reset it:  *)
(* a service that arrives late must not revive a closed package.  If both  *)
(* root services are late the second does begin to initialize() it, and    *)
(* the process ends at the null provider in obtain_service before that     *)
(* builds anything.                                                        *)
FactoryWhileOpen ==
  factory => ~closed /\ providers # {}

(* While the factory stands the package still holds both services its      *)
(* stylesheet and frames were made from.                                   *)
FactoryBacked ==
  factory => RootServices \subseteq held

(* The package is in the shell's list exactly as often as Close will take  *)
(* it out: once while _shell is held, never otherwise.                     *)
SubscriptionTracked ==
  subscriptions = IF "IVsShell" \in held THEN 1 ELSE 0

Quiescent ==
  /\ \A t \in Threads : pc[t] = "idle"
  /\ ~Outstanding

(* The two on_ready lambdas each look whether the other came first: when   *)
(* both services have arrived, in whatever order, no exception ended the   *)
(* load and nothing is running, initialize() was run, and exactly once.    *)
NoLostInitialization ==
  Quiescent /\ ~crashed /\ ~failed /\ RootServices \subseteq held
    => factory /\ initialized = 1

(* No null provider or shell is dereferenced.                              *)
NoNullDereference == ~crashed

(* The stylesheet reads the colours before an asynchronous load listens to *)
(* their changes.  A broadcast of a change goes by without _update_styles  *)
(* being raised only in between: while IVsShell is still on its way, or    *)
(* when it never came; whatever failed after the stylesheet was made.      *)
MissedOnlyInBetween ==
  [][pending /\ ~pending' /\ untold /\ untold'
       => ~Tasks!Settled("IVsShell") \/ "IVsShell" \in lost]_vars

(* "... Everything released!" (Close): from the end of Close on the        *)
(* package holds no interface and the shell no pointer to the package.     *)
EverythingReleased ==
  closed => /\ ~factory
            /\ held = {}
            /\ providers = {}
            /\ subscriptions = 0

(* "... Everything released!" (Close), about the shell's list alone: once  *)
(* closed, the package is not among the listeners of its broadcasts.       *)
UnsubscribedOnceClosed == closed => subscriptions = 0

(* The package does become usable: every load the host began ends with the *)
(* client initialised, unless the host closes the package first, a service *)
(* it needs never comes, or an exception ends the load.                    *)
EventuallyReady ==
  (providers # {}) ~>
    (factory \/ closed \/ failed \/ lost \intersect RootServices # {})

(* An initialised package comes to listen to colour changes, even if the   *)
(* client's initialize() threw.                                            *)
EventuallySubscribed ==
  factory ~> (subscriptions = 1 \/ closed \/ "IVsShell" \in lost)

Client == INSTANCE ClientLifecycle WITH entered <- initialized,
                                        terminated <- closed

(* The client is initialised at most once and never after its terminate(). *)
ClientContract == Client!Spec
==============================================================================
