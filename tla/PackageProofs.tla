---------------------------- MODULE PackageProofs ----------------------------
(***************************************************************************)
(* Theorems about Package, for every set of host versions and of           *)
(* disturbances its assumption admits.                                     *)
(***************************************************************************)
EXTENDS Package, TLAPS

(* The second root service is the one that is not the first.               *)
LEMMA OtherRoot ==
  ASSUME NEW s \in RootServices
  PROVE  /\ Other(s) \in RootServices
         /\ Other(s) # s
         /\ RootServices = {s, Other(s)}
  BY DEF RootServices, Other

(* How a thread's control moves keeps the types of its counters.           *)
ControlTypeOK ==
  /\ pc \in [Threads -> Labels]
  /\ subject \in [Threads -> RootServices]
  /\ more \in [Threads -> BOOLEAN]
  /\ failed \in BOOLEAN

(* Every way control moves keeps the control variables well typed.         *)
LEMMA ControlMoves ==
  ASSUME ControlTypeOK, NEW t \in Threads
  PROVE  /\ Return(t) => ControlTypeOK'
         /\ Unwind(t) => ControlTypeOK'
         /\ StartObtaining(t) => ControlTypeOK'
         /\ \A label \in Labels : Goto(t, label) => ControlTypeOK'
         /\ \A s \in Services : EnterContinuation(s) => ControlTypeOK'
         /\ UNCHANGED control => ControlTypeOK'
<1>. USE DEF ControlTypeOK, Labels, RootServices
<1>1. \A label \in Labels : Goto(t, label) => ControlTypeOK'
  BY DEF Goto
<1>2. Return(t) => ControlTypeOK'
  BY <1>1 DEF Return
<1>3. Unwind(t) => ControlTypeOK'
  BY DEF Unwind
<1>4. StartObtaining(t) => ControlTypeOK'
  BY DEF StartObtaining
<1>5. \A s \in Services : EnterContinuation(s) => ControlTypeOK'
  BY DEF EnterContinuation, Goto, Services, Threads
<1>6. UNCHANGED control => ControlTypeOK'
  BY DEF control
<1>. QED
  BY <1>1, <1>2, <1>3, <1>4, <1>5, <1>6

(* Every task operation keeps the counts of tasks well typed.              *)
LEMMA TaskMoves ==
  ASSUME Tasks!TasksTypeOK, NEW s \in Services
  PROVE  /\ Tasks!Acquire(s) => Tasks!TasksTypeOK'
         /\ Tasks!Complete(s) => Tasks!TasksTypeOK'
         /\ Tasks!Fault(s) => Tasks!TasksTypeOK'
         /\ Tasks!Dispatch(s) => Tasks!TasksTypeOK'
         /\ Tasks!EndEarly(s) => Tasks!TasksTypeOK'
         /\ UNCHANGED <<acquiring, queued, lost>> => Tasks!TasksTypeOK'
  BY DEF Tasks!TasksTypeOK, Tasks!Acquire, Tasks!Complete, Tasks!Fault,
         Tasks!Dispatch, Tasks!EndEarly

(* A request keeps types, whatever becomes of it.                          *)
LEMMA RequestMoves ==
  ASSUME TypeOK, NEW t \in Threads, NEW s \in Services, NEW label \in Labels,
         NEW other \in Labels,
         \/ ObtainService(t, s, Return(t), Goto(t, label))
         \/ ObtainService(t, s, Goto(t, other), Goto(t, label))
  PROVE  TypeOK'
<1>1. ControlTypeOK /\ Tasks!TasksTypeOK
  BY DEF TypeOK, ControlTypeOK
<1>2. ControlTypeOK'
  BY <1>1, ControlMoves DEF ObtainService
<1>3. Tasks!TasksTypeOK'
  BY <1>1, TaskMoves DEF ObtainService
<1>. QED
  BY <1>2, <1>3 DEF TypeOK, ControlTypeOK, ObtainService, members, colours

(* Close has a subscription to give up whenever it finds _shell set.       *)
ShellSubscribed == "IVsShell" \in held => subscriptions > 0

LEMMA TypeInit == Init => TypeOK /\ ShellSubscribed
<1>1. Init => Tasks!TasksTypeOK
  BY DEF Init, Tasks!TasksInit, Tasks!TasksTypeOK
<1>2. Init => factory \in BOOLEAN /\ closed \in BOOLEAN /\ crashed \in BOOLEAN
               /\ pending \in BOOLEAN /\ untold \in BOOLEAN
  BY DEF Init
<1>3. Init => ControlTypeOK
  BY DEF Init, ControlTypeOK, Labels, RootServices
<1>4. Init => subscriptions \in Nat /\ initialized \in Nat
  BY DEF Init
<1>. QED
  BY <1>1, <1>2, <1>3, <1>4 DEF Init, TypeOK, ControlTypeOK, ShellSubscribed

LEMMA ShellSubscribedStep ==
  TypeOK /\ ShellSubscribed /\ [Next]_vars => ShellSubscribed'
<1>. SUFFICES ASSUME TypeOK, ShellSubscribed, [Next]_vars
              PROVE  ShellSubscribed'
  OBVIOUS
<1>. USE DEF ShellSubscribed, members
<1>1. UNCHANGED <<held, subscriptions>> => ShellSubscribed'
  OBVIOUS
<1>2. ASSUME NEW t \in Threads, Step(t) PROVE ShellSubscribed'
  <2>1. CASE OnRootReady(t)
    <3>1. subject[t] # "IVsShell"
      BY DEF TypeOK, RootServices
    <3>. QED
      BY <2>1, <3>1 DEF OnRootReady
  <2>2. CASE OnShellReady(t)
    BY <2>2, <1>1 DEF OnShellReady, Subscribe, Crash, TypeOK
  <2>3. CASE ObtainRoot(t) \/ Check(t) \/ ObtainShell(t) \/ Create(t)
    BY <2>3, <1>1 DEF ObtainRoot, Check, ObtainShell, Create, ObtainService,
                      NoProvider, Crash
  <2>. QED
    BY <1>2, <2>1, <2>2, <2>3 DEF Step
<1>3. CASE Close
  BY <1>3 DEF Close
<1>4. CASE UNCHANGED vars
  BY <1>4, <1>1 DEF vars
<1>5. CASE Initialize \/ SetSite \/ ColorsChange \/ OnBroadcastMessage
  BY <1>5, <1>1 DEF Initialize, SetSite, ColorsChange, OnBroadcastMessage
<1>6. ASSUME NEW s \in Services,
             AcquisitionCompletes(s) \/ AcquisitionLost(s) \/ RunContinuation(s)
      PROVE ShellSubscribed'
  BY <1>6, <1>1 DEF AcquisitionCompletes, AcquisitionLost, RunContinuation,
                    Elsewhere
<1>. QED
  BY <1>2, <1>3, <1>4, <1>5, <1>6 DEF Next

LEMMA TypeStep == TypeOK /\ ShellSubscribed /\ [Next]_vars => TypeOK'
<1>. SUFFICES ASSUME TypeOK, ShellSubscribed, [Next]_vars PROVE TypeOK'
  OBVIOUS
<1>. USE DEF TypeOK
<1>a. ControlTypeOK /\ Tasks!TasksTypeOK
  BY DEF ControlTypeOK
<1>b. /\ "ui" \in Threads /\ "loader" \in Threads
      /\ \A t \in Threads : subject[t] \in Services
      /\ "IVsShell" \in Services
      /\ {"idle", "on_ready", "check", "obtain_shell", "shell_ready",
          "create"} \subseteq Labels
  BY DEF Threads, Services, RootServices, Labels
<1>1. ASSUME Initialize PROVE TypeOK'
  <2>1. ControlTypeOK'
    BY <1>1, <1>a, <1>b, ControlMoves DEF Initialize, Stored
  <2>. QED
    BY <1>1, <2>1 DEF Initialize, Stored, ControlTypeOK, colours, Tasks!TasksTypeOK
<1>2. ASSUME SetSite PROVE TypeOK'
  <2>1. ControlTypeOK'
    BY <1>2, <1>a, <1>b, ControlMoves DEF SetSite
  <2>. QED
    BY <1>2, <2>1 DEF SetSite, ControlTypeOK, colours, Tasks!TasksTypeOK
<1>c. Crash => TypeOK'
  BY <1>a DEF Crash, members, control, colours, Tasks!TasksTypeOK
<1>3. ASSUME NEW t \in Threads, ObtainRoot(t) PROVE TypeOK'
  BY <1>3, <1>b, <1>c, RequestMoves DEF ObtainRoot, NoProvider
<1>4. ASSUME NEW t \in Threads, OnRootReady(t) PROVE TypeOK'
  <2>1. ControlTypeOK'
    BY <1>4, <1>a, <1>b, ControlMoves DEF OnRootReady
  <2>. QED
    BY <1>4, <1>b, <2>1
    DEF OnRootReady, ControlTypeOK, colours, Tasks!TasksTypeOK
<1>5. ASSUME NEW t \in Threads, Check(t) PROVE TypeOK'
  <2>1. ControlTypeOK'
    BY <1>5, <1>a, <1>b, ControlMoves DEF Check, OtherCame, InitializeBegins
  <2>. QED
    BY <1>5, <2>1 DEF Check, OtherCame, InitializeBegins, ControlTypeOK, members, colours, Tasks!TasksTypeOK
<1>6. ASSUME NEW t \in Threads, ObtainShell(t) PROVE TypeOK'
  BY <1>6, <1>b, <1>c, RequestMoves DEF ObtainShell, NoProvider
<1>7. ASSUME NEW t \in Threads, OnShellReady(t) PROVE TypeOK'
  <2>1. CASE Subscribe
    <3>1. ControlTypeOK'
      BY <1>7, <2>1, <1>a, <1>b, ControlMoves DEF OnShellReady, Crash
    <3>. QED
      BY <2>1, <3>1, <1>b DEF Subscribe, ControlTypeOK, colours, Tasks!TasksTypeOK
  <2>. QED
    BY <1>7, <2>1, <1>c DEF OnShellReady
<1>8. ASSUME NEW t \in Threads, Create(t) PROVE TypeOK'
  <2>1. ControlTypeOK'
    BY <1>8, <1>a, ControlMoves DEF Create
  <2>2. CASE UNCHANGED <<factory, untold, initialized>>
    BY <1>8, <2>1, <2>2 DEF Create, ControlTypeOK, Tasks!TasksTypeOK
  <2>3. CASE factory' = TRUE /\ untold' = FALSE /\ initialized' = initialized + 1
    <3>1. initialized' \in Nat
      BY <2>3
    <3>2. factory' \in BOOLEAN /\ untold' \in BOOLEAN
      BY <2>3
    <3>. QED
      BY <1>8, <2>1, <3>1, <3>2 DEF Create, ControlTypeOK, Tasks!TasksTypeOK
  <2>. QED
    BY <1>8, <2>2, <2>3 DEF Create
<1>9. ASSUME NEW s \in Services,
             AcquisitionCompletes(s) \/ AcquisitionLost(s) \/ RunContinuation(s)
      PROVE TypeOK'
  <2>1. ControlTypeOK'
    BY <1>9, <1>a, <1>b, ControlMoves
    DEF AcquisitionCompletes, AcquisitionLost, RunContinuation
  <2>2. Tasks!TasksTypeOK'
    BY <1>9, <1>a, TaskMoves
    DEF AcquisitionCompletes, AcquisitionLost, RunContinuation
  <2>. QED
    BY <1>9, <2>1, <2>2 DEF AcquisitionCompletes, AcquisitionLost,
       RunContinuation, Elsewhere, ControlTypeOK, members, colours
<1>10. ASSUME ColorsChange \/ OnBroadcastMessage PROVE TypeOK'
  BY <1>10 DEF ColorsChange, OnBroadcastMessage, Signalled, members, control,
               Tasks!TasksTypeOK
<1>11. ASSUME Close PROVE TypeOK'
  <2>1. subscriptions' \in Nat
    BY <1>11 DEF Close, MayClose, Unadvised, ShellSubscribed
  <2>2. factory' \in BOOLEAN /\ closed' \in BOOLEAN /\ untold' \in BOOLEAN
    BY <1>11 DEF Close
  <2>. QED
    BY <1>11, <2>1, <2>2 DEF Close, MayClose, Unadvised, control, Tasks!TasksTypeOK
<1>12. ASSUME UNCHANGED vars PROVE TypeOK'
  BY <1>12 DEF vars, members, control, colours, Tasks!TasksTypeOK
<1>. QED
  BY <1>1, <1>2, <1>3, <1>4, <1>5, <1>6, <1>7, <1>8, <1>9, <1>10, <1>11, <1>12
  DEF Next, Step

(* Every variable of the package and its host keeps its type, whatever the *)
(* host does: type correctness of package.cpp's state.                     *)
THEOREM TypeCorrect == Spec => []TypeOK
  BY TypeInit, TypeStep, ShellSubscribedStep, PTL DEF Spec

-----------------------------------------------------------------------------
(* A closed package has no provider, and only a package with a provider    *)
(* gets as far as building a factory: the answer that arrives after Close  *)
(* stops at obtain_service.                                                *)
Building == {"shell_ready", "create"}

OpenInv ==
  /\ closed => providers = {}
  /\ factory => providers # {}
  /\ \A t \in Threads : pc[t] \in Building => providers # {}

LEMMA OpenInit == Init => OpenInv
  BY DEF Init, OpenInv, Building

LEMMA OpenStep == TypeOK /\ OpenInv /\ [Next]_vars => OpenInv'
<1>. SUFFICES ASSUME TypeOK, OpenInv, [Next]_vars PROVE OpenInv'
  OBVIOUS
<1>. USE DEF OpenInv, Building
<1>a. pc \in [Threads -> Labels] /\ more \in [Threads -> BOOLEAN]
  BY DEF TypeOK
(* A step that neither closes, nor builds, nor lets go of a provider, and  *)
(* takes no thread into Building, keeps the invariant.                     *)
<1>b. ASSUME UNCHANGED <<closed, factory>>,
             providers' = providers
               \/ (~closed /\ providers' # {}),
             \A t \in Threads : pc'[t] \in Building
                                 => pc[t] \in Building \/ providers' # {}
      PROVE  OpenInv'
  BY <1>b
<1>c. \A t \in Threads, label \in Labels \ Building :
        Goto(t, label) \/ Return(t) \/ Unwind(t) \/ StartObtaining(t)
        => \A u \in Threads : pc'[u] \in Building => pc[u] \in Building
  BY <1>a DEF Goto, Return, Unwind, StartObtaining, Labels
<1>d. {"idle", "on_ready", "check", "obtain_shell", "advise"}
        \subseteq Labels \ Building
  BY DEF Labels
<1>e. "ui" \in Threads /\ "loader" \in Threads
  BY DEF Threads
<1>1. CASE Initialize
  BY <1>1, <1>b, <1>c, <1>d, <1>e DEF Initialize, Stored
<1>2. CASE SetSite
  BY <1>2, <1>b, <1>c, <1>d, <1>e DEF SetSite, control
<1>3. ASSUME NEW t \in Threads, ObtainRoot(t) PROVE OpenInv'
  <2>1. CASE NoProvider
    BY <2>1, <1>b DEF NoProvider, Crash, members, control
  <2>2. CASE ObtainService(t, subject[t], Return(t), Goto(t, "on_ready"))
    BY <2>2, <1>b, <1>c, <1>d DEF ObtainService, members
  <2>. QED
    BY <1>3, <2>1, <2>2 DEF ObtainRoot
<1>4. ASSUME NEW t \in Threads, OnRootReady(t) \/ Check(t) PROVE OpenInv'
  BY <1>4, <1>b, <1>c, <1>d DEF OnRootReady, Check, OtherCame, InitializeBegins, members
<1>5. ASSUME NEW t \in Threads, ObtainShell(t) PROVE OpenInv'
  <2>1. CASE NoProvider
    BY <2>1, <1>b DEF NoProvider, Crash, members, control
  <2>2. CASE ObtainService(t, "IVsShell", Goto(t, "create"), Goto(t, "shell_ready"))
    <3>1. providers # {} /\ UNCHANGED <<providers, closed, factory>>
      BY <2>2 DEF ObtainService, members
    <3>. QED
      BY <3>1, <1>b
  <2>. QED
    BY <1>5, <2>1, <2>2 DEF ObtainShell
<1>6. ASSUME NEW t \in Threads, OnShellReady(t) PROVE OpenInv'
  <2>1. UNCHANGED <<providers, closed, factory>>
    BY <1>6 DEF OnShellReady, Subscribe, Crash, members
  <2>2. \A u \in Threads : pc'[u] \in Building => pc[u] \in Building \/ u = t
    BY <1>6, <1>a DEF OnShellReady, Goto, Crash, control
  <2>3. pc'[t] \in Building => pc[t] \in Building
    BY <1>6, <1>a DEF OnShellReady, Goto, Crash, control
  <2>. QED
    BY <2>1, <2>2, <2>3
<1>7. ASSUME NEW t \in Threads, Create(t) PROVE OpenInv'
  <2>1. providers # {} /\ UNCHANGED <<providers, closed>>
    BY <1>7 DEF Create
  <2>. QED
    BY <2>1
<1>8. ASSUME NEW s \in Services,
             AcquisitionCompletes(s) \/ AcquisitionLost(s) \/ RunContinuation(s)
      PROVE  OpenInv'
  <2>1. UNCHANGED <<providers, closed, factory>>
    BY <1>8 DEF AcquisitionCompletes, AcquisitionLost, RunContinuation,
                Elsewhere, members
  <2>2. UNCHANGED pc \/ EnterContinuation(s)
    BY <1>8 DEF AcquisitionCompletes, AcquisitionLost, RunContinuation, control
  <2>3. \A t \in Threads : pc'[t] \in Building => pc[t] \in Building
    BY <2>2, <1>a DEF EnterContinuation, Goto
  <2>. QED
    BY <2>1, <2>3
<1>9. CASE ColorsChange \/ OnBroadcastMessage
  BY <1>9 DEF ColorsChange, OnBroadcastMessage, members, control
<1>10. CASE Close
  BY <1>10 DEF Close, MayClose, control
<1>11. CASE UNCHANGED vars
  BY <1>11 DEF vars, members, control
<1>. QED
  BY <1>1, <1>2, <1>3, <1>4, <1>5, <1>6, <1>7, <1>8, <1>9, <1>10, <1>11
  DEF Next, Step

(* No service that arrives late revives a closed package: package::Close   *)
(* has released both providers, so package::initialize() gets no further   *)
(* than its first obtain_service, whose null provider ends the process     *)
(* (package.cpp:65), whatever else went wrong.                             *)
THEOREM FactoryNeverOutlivesClose == Spec => []FactoryWhileOpen
<1>1. OpenInv => FactoryWhileOpen
  BY DEF OpenInv, FactoryWhileOpen
<1>. QED
  BY <1>1, OpenInit, OpenStep, TypeInit, TypeStep, ShellSubscribedStep, PTL
  DEF Spec

-----------------------------------------------------------------------------
(* Hosts whose version can be read load the package once, as does a host   *)
(* that calls one entry point.  What follows counts, for each root service,*)
(* the answers that may still be handled: those acquired, those queued, and*)
(* those a thread is about to ask for or to store.                         *)
carried == [t \in Threads |-> [s \in RootServices |->
  (IF pc[t] \in {"obtain", "on_ready"} /\ subject[t] = s THEN 1 ELSE 0)
  + (IF more[t] /\ s = "IVsFontAndColorStorage" THEN 1 ELSE 0)]]

due == [s \in RootServices |->
  acquiring[s] + queued[s] + carried["ui"][s] + carried["loader"][s]]

NoneDue == \A s \in RootServices : due[s] = 0

(* The UI thread is in initialize(), before the client's own.              *)
InInitialize == pc["ui"] \in {"obtain_shell", "shell_ready", "create"}

(* The subscriptions there are and those still to be made.                 *)
shellDue ==
  acquiring["IVsShell"] + queued["IVsShell"] + subscriptions
  + (IF pc["ui"] \in {"obtain_shell", "shell_ready", "advise"} THEN 1 ELSE 0)

(* One entry point at most loads the package: the host's version tells     *)
(* which, or the host has not called both.                                 *)
LoadedOnce ==
  "no_version" \notin Disturbances \/ ~({"Initialize", "SetSite"} \subseteq calls)

LoadBegun ==
  IF "no_version" \in Disturbances THEN calls # {}
  ELSE (IF host >= 14 THEN "Initialize" ELSE "SetSite") \in calls

(* Until it is loaded, the package holds nothing and asks for nothing.     *)
Untouched ==
  /\ NoneDue
  /\ shellDue = 0
  /\ held = {}
  /\ initialized = 0
  /\ pc = [t \in Threads |-> "idle"]

LoaderOnlyAsks ==
  /\ pc["loader"] \in {"idle", "obtain"}
  /\ pc["loader"] = "obtain" => "async" \in providers

(* Each service is handled once, initialize() runs once, after both.       *)
OnceEach ==
  /\ \A s \in RootServices : due[s] <= 1 /\ (s \in held => due[s] = 0)
  /\ pc["ui"] = "check" => /\ due[subject["ui"]] = 0
                           /\ initialized = 0
                           /\ shellDue = 0
  /\ InInitialize => NoneDue /\ initialized = 0
  /\ initialized <= 1
  /\ initialized > 0 \/ shellDue > 0 => NoneDue
  /\ shellDue <= 1

LoadInv ==
  /\ LoadBegun \/ Untouched
  /\ LoaderOnlyAsks
  /\ OnceEach
  /\ SubscriptionTracked

CountsOK ==
  /\ carried \in [Threads -> [RootServices -> 0..2]]
  /\ due \in [RootServices -> Nat]
  /\ shellDue \in Nat

LEMMA Counts == TypeOK => CountsOK
<1>. SUFFICES ASSUME TypeOK PROVE CountsOK
  OBVIOUS
<1>1. carried \in [Threads -> [RootServices -> 0..2]]
  BY DEF carried
<1>2. /\ "ui" \in Threads /\ "loader" \in Threads /\ "IVsShell" \in Services
      /\ RootServices \subseteq Services
  BY DEF Threads, Services
<1>3. due \in [RootServices -> Nat]
  BY <1>1, <1>2 DEF due, TypeOK, Tasks!TasksTypeOK
<1>4. shellDue \in Nat
  BY <1>2 DEF shellDue, TypeOK, Tasks!TasksTypeOK
<1>. QED
  BY <1>1, <1>3, <1>4 DEF CountsOK

LEMMA CountsNext == TypeOK' => CountsOK'
  BY Counts, PTL

(* What a thread carries after a move of its control.                      *)
LEMMA CarriedMoves ==
  ASSUME TypeOK, NEW t \in Threads, NEW s \in RootServices
  PROVE  /\ Return(t) => carried'[t][s] <= carried[t][s]
         /\ Return(t) /\ pc[t] = "obtain" /\ s = subject[t]
              => carried'[t][s] = carried[t][s] - 1
         /\ Unwind(t) => carried'[t][s] <= carried[t][s]
         /\ \A label \in Labels \ {"obtain", "on_ready"} :
              Goto(t, label) => carried'[t][s] <= carried[t][s]
         /\ \A label \in Labels \ {"obtain", "on_ready"} :
              Goto(t, label) /\ pc[t] = "on_ready" /\ s = subject[t]
              => carried'[t][s] = carried[t][s] - 1
         /\ Goto(t, "on_ready") /\ pc[t] = "obtain"
              => carried'[t][s] = carried[t][s]
<1>. USE DEF carried, TypeOK
<1>1. Return(t) => carried'[t][s] <= carried[t][s]
  BY DEF Return, Goto
<1>2. Return(t) /\ pc[t] = "obtain" /\ s = subject[t]
        => carried'[t][s] = carried[t][s] - 1
  BY DEF Return, Goto
<1>3. Unwind(t) => carried'[t][s] <= carried[t][s]
  BY DEF Unwind
<1>4. \A label \in Labels \ {"obtain", "on_ready"} :
        Goto(t, label) => carried'[t][s] <= carried[t][s]
  BY DEF Goto
<1>5. \A label \in Labels \ {"obtain", "on_ready"} :
        Goto(t, label) /\ pc[t] = "on_ready" /\ s = subject[t]
        => carried'[t][s] = carried[t][s] - 1
  BY DEF Goto
<1>6. Goto(t, "on_ready") /\ pc[t] = "obtain"
        => carried'[t][s] = carried[t][s]
  BY DEF Goto
<1>. QED
  BY <1>1, <1>2, <1>3, <1>4, <1>5, <1>6

(* The other thread carries what it did.                                   *)
LEMMA CarriedByOthers ==
  ASSUME TypeOK, NEW t \in Threads, NEW u \in Threads, u # t,
         \/ Return(t)
         \/ Unwind(t)
         \/ StartObtaining(t)
         \/ \E label \in Labels : Goto(t, label)
  PROVE  /\ pc'[u] = pc[u] /\ subject'[u] = subject[u] /\ more'[u] = more[u]
         /\ carried'[u] = carried[u]
<1>1. pc'[u] = pc[u] /\ subject'[u] = subject[u] /\ more'[u] = more[u]
  BY DEF TypeOK, Return, Unwind, StartObtaining, Goto
<1>. QED
  BY <1>1 DEF carried

LEMMA LoadInit == Init => LoadInv
<1>. SUFFICES ASSUME Init PROVE LoadInv
  OBVIOUS
<1>1. /\ "ui" \in Threads /\ "loader" \in Threads /\ "IVsShell" \in Services
      /\ RootServices \subseteq Services
      /\ "IVsUIShell" \in RootServices
  BY DEF Threads, Services, RootServices
<1>2. \A t \in Threads, s \in RootServices : carried[t][s] = 0
  BY DEF Init, carried
<1>3. NoneDue
  BY <1>1, <1>2 DEF Init, Tasks!TasksInit, NoneDue, due
<1>4. shellDue = 0
  BY <1>1 DEF Init, Tasks!TasksInit, shellDue
<1>. QED
  BY <1>1, <1>3, <1>4 DEF Init, LoadInv, Untouched, LoaderOnlyAsks, OnceEach,
     NoneDue, InInitialize, SubscriptionTracked

(* A step that makes nothing due keeps OnceEach when a service is stored   *)
(* only once it is due no more, and initialize() is not entered anew.      *)
LEMMA NothingNewDue ==
  ASSUME TypeOK, TypeOK', OnceEach,
         \A s \in RootServices : due'[s] <= due[s],
         \A s \in RootServices \intersect held' : s \in held \/ due'[s] = 0,
         shellDue' <= shellDue,
         initialized' = initialized,
         pc'["ui"] = "check" => pc["ui"] = "check" /\ subject'["ui"] = subject["ui"],
         InInitialize' => InInitialize
  PROVE  OnceEach'
<1>1. due \in [RootServices -> Nat] /\ due' \in [RootServices -> Nat]
  BY Counts, CountsNext DEF CountsOK
<1>2. shellDue \in Nat /\ shellDue' \in Nat /\ initialized \in Nat
  BY Counts, CountsNext DEF CountsOK, TypeOK
<1>3. NoneDue => NoneDue'
  BY <1>1 DEF NoneDue
<1>4. \A s \in RootServices : due'[s] <= 1 /\ (s \in held' => due'[s] = 0)
  BY <1>1 DEF OnceEach
<1>5. pc'["ui"] = "check" => /\ due'[subject'["ui"]] = 0
                             /\ initialized' = 0
                             /\ shellDue' = 0
  <2>1. subject["ui"] \in RootServices
    BY DEF TypeOK, Threads
  <2>. QED
    BY <1>1, <1>2, <2>1 DEF OnceEach
<1>6. shellDue' > 0 => shellDue > 0
  BY <1>2
<1>7. shellDue' <= 1
  BY <1>2 DEF OnceEach
<1>. QED
  BY <1>3, <1>4, <1>5, <1>6, <1>7 DEF OnceEach

(* A move of one thread's control that carries no more makes nothing due.  *)
LEMMA LessCarried ==
  ASSUME TypeOK, TypeOK', NEW t \in Threads, NEW s \in RootServices,
         \A u \in Threads \ {t} : carried'[u] = carried[u],
         UNCHANGED <<acquiring, queued>>
  PROVE  /\ carried'[t][s] <= carried[t][s] => due'[s] <= due[s]
         /\ carried'[t][s] = carried[t][s] - 1 => due'[s] = due[s] - 1
<1>1. carried \in [Threads -> [RootServices -> 0..2]]
      /\ carried' \in [Threads -> [RootServices -> 0..2]]
  BY Counts, CountsNext DEF CountsOK
<1>2. Threads = {"ui", "loader"} /\ s \in Services
  BY DEF Threads, Services
<1>3. acquiring[s] \in Nat /\ queued[s] \in Nat
  BY <1>2 DEF TypeOK, Tasks!TasksTypeOK
<1>4. /\ due[s] = acquiring[s] + queued[s] + carried["ui"][s] + carried["loader"][s]
      /\ due'[s] = acquiring[s] + queued[s] + carried'["ui"][s] + carried'["loader"][s]
  BY DEF due
<1>5. CASE t = "ui"
  BY <1>1, <1>2, <1>3, <1>4, <1>5
<1>6. CASE t = "loader"
  BY <1>1, <1>2, <1>3, <1>4, <1>6
<1>. QED
  BY <1>2, <1>5, <1>6

LEMMA NothingFromNothing ==
  \A a, b, c, d \in Nat : a + b + c + d = 0 => a = 0 /\ b = 0 /\ c = 0 /\ d = 0
  OBVIOUS

(* Loading asks for each root service once.                                *)
LEMMA Loading ==
  ASSUME TypeOK, TypeOK', Untouched, NEW t \in Threads, StartObtaining(t),
         UNCHANGED <<held, subscriptions, acquiring, queued, initialized>>
  PROVE  OnceEach'
<1>1. \A u \in Threads \ {t} : carried'[u] = carried[u]
  BY CarriedByOthers
<1>2. /\ carried \in [Threads -> [RootServices -> 0..2]]
      /\ carried' \in [Threads -> [RootServices -> 0..2]]
      /\ Threads = {"ui", "loader"}
  BY Counts, CountsNext DEF CountsOK, Threads
<1>3. \A s \in RootServices : /\ acquiring[s] = 0 /\ queued[s] = 0
                              /\ \A u \in Threads : carried[u][s] = 0
  <2>. SUFFICES ASSUME NEW s \in RootServices
                PROVE  /\ acquiring[s] = 0 /\ queued[s] = 0
                       /\ \A u \in Threads : carried[u][s] = 0
    OBVIOUS
  <2>1. acquiring[s] \in Nat /\ queued[s] \in Nat
    BY DEF TypeOK, Tasks!TasksTypeOK, Services
  <2>2. carried["ui"][s] \in Nat /\ carried["loader"][s] \in Nat
    BY <1>2
  <2>3. acquiring[s] + queued[s] + carried["ui"][s] + carried["loader"][s] = 0
    BY DEF Untouched, NoneDue, due
  <2>4. /\ acquiring[s] = 0 /\ queued[s] = 0
        /\ carried["ui"][s] = 0 /\ carried["loader"][s] = 0
    BY <2>1, <2>2, <2>3, NothingFromNothing
  <2>. QED
    BY <1>2, <2>4
<1>4. ~more[t]
  BY <1>3 DEF carried, RootServices, TypeOK
<1>5. \A s \in RootServices : carried'[t][s] <= 1
  BY <1>4 DEF StartObtaining, carried, TypeOK
<1>6. \A s \in RootServices : due'[s] <= 1
  <2>. SUFFICES ASSUME NEW s \in RootServices PROVE due'[s] <= 1
    OBVIOUS
  <2>1. due'[s] = carried'["ui"][s] + carried'["loader"][s]
    BY <1>2, <1>3 DEF due
  <2>2. CASE t = "ui"
    BY <2>1, <2>2, <1>1, <1>2, <1>3, <1>5
  <2>3. CASE t = "loader"
    BY <2>1, <2>3, <1>1, <1>2, <1>3, <1>5
  <2>. QED
    BY <1>2, <2>2, <2>3
<1>7. pc["ui"] = "idle" /\ pc'["ui"] \in {"idle", "obtain"}
  BY <1>2 DEF Untouched, StartObtaining, TypeOK
<1>8. shellDue' = 0
  BY <1>7 DEF Untouched, shellDue
<1>. QED
  BY <1>6, <1>7, <1>8 DEF OnceEach, Untouched, InInitialize

LEMMA LoadStep ==
  ASSUME LoadedOnce', TypeOK, TypeOK', LoadInv, [Next]_vars
  PROVE  LoadInv'
<1>a. /\ Threads = {"ui", "loader"}
      /\ Services = RootServices \union {"IVsShell"}
      /\ "IVsShell" \notin RootServices
  BY DEF Threads, Services, RootServices
<1>b. /\ pc \in [Threads -> Labels]
      /\ subject \in [Threads -> RootServices]
      /\ more \in [Threads -> BOOLEAN]
      /\ acquiring \in [Services -> Nat]
      /\ queued \in [Services -> Nat]
      /\ subscriptions \in Nat
      /\ initialized \in Nat
  BY DEF TypeOK, Tasks!TasksTypeOK
<1>c. CountsOK /\ CountsOK'
  BY Counts, CountsNext
<1>d. \A t \in Threads : pc[t] # "idle" => LoadBegun
  BY DEF LoadInv, Untouched
(* What LoadInv speaks of.                                                 *)
<1>e. /\ UNCHANGED <<providers, held, subscriptions, pc, subject, more,
                     acquiring, queued, initialized>>
      /\ LoadBegun => LoadBegun'
      => LoadInv'
  <2>. SUFFICES ASSUME UNCHANGED <<providers, held, subscriptions, pc, subject,
                                   more, acquiring, queued, initialized>>,
                       LoadBegun => LoadBegun'
                PROVE  LoadInv'
    OBVIOUS
  <2>1. UNCHANGED <<carried, due, shellDue>>
    BY DEF carried, due, shellDue
  <2>2. LoadBegun' \/ Untouched'
    BY <2>1 DEF LoadInv, Untouched, NoneDue
  <2>. QED
    BY <2>1, <2>2 DEF LoadInv, LoaderOnlyAsks, OnceEach, NoneDue, InInitialize,
                      SubscriptionTracked
<1>1. CASE Initialize
  <2>1. Untouched /\ LoadBegun'
    BY <1>1 DEF Initialize, Stored, LoadInv, LoadBegun, LoadedOnce, TypeOK
  <2>2. OnceEach'
    BY <1>1, <1>a, <2>1, Loading DEF Initialize, Stored
  <2>3. LoaderOnlyAsks'
    BY <1>1, <1>a, <1>b DEF Initialize, Stored, StartObtaining, LoaderOnlyAsks
  <2>. QED
    BY <1>1, <2>1, <2>2, <2>3 DEF Initialize, Stored, LoadInv, SubscriptionTracked
<1>2. CASE SetSite
  <2>1. CASE StartObtaining("ui") /\ (~LeavesToInitialize \/ "no_version" \in Disturbances)
    <3>1. Untouched /\ LoadBegun'
      BY <1>2, <2>1 DEF SetSite, LeavesToInitialize, LoadInv, LoadBegun, LoadedOnce, TypeOK
    <3>2. OnceEach'
      BY <1>2, <1>a, <2>1, <3>1, Loading DEF SetSite
    <3>3. LoaderOnlyAsks'
      BY <1>2, <1>a, <1>b, <2>1 DEF SetSite, StartObtaining, LoaderOnlyAsks, LoadInv
    <3>. QED
      BY <1>2, <3>1, <3>2, <3>3 DEF SetSite, LoadInv, SubscriptionTracked
  <2>2. CASE UNCHANGED <<providers, control>>
    BY <1>2, <2>2, <1>e DEF SetSite, control, LoadBegun
  <2>. QED
    BY <1>2, <2>1, <2>2 DEF SetSite
<1>3. ASSUME NEW t \in Threads, Step(t), NoProvider PROVE LoadInv'
  <2>1. UNCHANGED <<host, calls, providers, held, subscriptions, pc, subject,
                    more, acquiring, queued, initialized>>
    BY <1>3 DEF NoProvider, Crash, members, control
  <2>. QED
    BY <2>1, <1>e DEF LoadBegun
<1>4. ASSUME NEW t \in Threads, ObtainRoot(t), ~NoProvider PROVE LoadInv'
  <2>1. /\ ObtainService(t, subject[t], Return(t), Goto(t, "on_ready"))
        /\ pc[t] = "obtain"
    BY <1>4 DEF ObtainRoot
  <2>2. /\ UNCHANGED <<host, calls, providers, held, subscriptions, initialized>>
        /\ Return(t) \/ Unwind(t) \/ Goto(t, "on_ready")
        /\ "on_ready" \in Labels /\ subject[t] \in RootServices
    BY <2>1, <1>b DEF ObtainService, members, Labels
  <2>3. \A u \in Threads \ {t} : /\ pc'[u] = pc[u] /\ subject'[u] = subject[u]
                                 /\ carried'[u] = carried[u]
    BY <2>2, CarriedByOthers
  <2>4. \A s \in RootServices : due'[s] <= due[s]
    <3>. SUFFICES ASSUME NEW s \in RootServices PROVE due'[s] <= due[s]
      OBVIOUS
    <3>1. CASE Unwind(t) /\ UNCHANGED <<acquiring, queued>>
      BY <3>1, <2>3, CarriedMoves, LessCarried
    <3>2. CASE Goto(t, "on_ready") /\ UNCHANGED <<acquiring, queued>>
      <4>1. carried'[t][s] = carried[t][s]
        BY <2>1, <3>2, CarriedMoves
      <4>2. carried'[t][s] <= carried[t][s]
        BY <4>1, <1>c DEF CountsOK
      <4>. QED
        BY <3>2, <2>3, <4>2, LessCarried
    <3>3. CASE Return(t) /\ Tasks!Acquire(subject[t])
      <4>1. /\ carried'[t][s] <= carried[t][s]
            /\ s = subject[t] => carried'[t][s] = carried[t][s] - 1
        BY <2>1, <3>3, CarriedMoves
      <4>2. /\ queued' = queued
            /\ acquiring'[s] = acquiring[s] + (IF s = subject[t] THEN 1 ELSE 0)
        BY <3>3, <1>a, <1>b DEF Tasks!Acquire
      <4>3. /\ due[s] = acquiring[s] + queued[s] + carried["ui"][s] + carried["loader"][s]
            /\ due'[s] = acquiring'[s] + queued'[s] + carried'["ui"][s] + carried'["loader"][s]
        BY DEF due
      <4>4. CASE t = "ui"
        BY <4>1, <4>2, <4>3, <4>4, <2>3, <1>a, <1>b, <1>c DEF CountsOK
      <4>5. CASE t = "loader"
        BY <4>1, <4>2, <4>3, <4>5, <2>3, <1>a, <1>b, <1>c DEF CountsOK
      <4>. QED
        BY <4>4, <4>5, <1>a
    <3>. QED
      BY <2>1, <3>1, <3>2, <3>3 DEF ObtainService
  <2>5. /\ pc'[t] \in {"obtain", "idle", "on_ready"}
        /\ pc'[t] = "on_ready" => providers = {"sync"}
    BY <2>1, <1>b DEF ObtainService, Return, Unwind, Goto
  <2>6. shellDue' <= shellDue
    <3>1. UNCHANGED <<acquiring["IVsShell"], queued["IVsShell"]>>
      BY <2>1, <1>a, <1>b DEF ObtainService, Tasks!Acquire
    <3>2. \/ pc'["ui"] = pc["ui"]
          \/ pc["ui"] = "obtain" /\ pc'["ui"] \in {"obtain", "idle", "on_ready"}
      <4>1. CASE t = "ui"
        BY <4>1, <2>1, <2>5
      <4>2. CASE t # "ui"
        BY <4>2, <2>3, <1>a
      <4>. QED
        BY <4>1, <4>2
    <3>. QED
      BY <2>2, <3>1, <3>2, <1>a, <1>b DEF shellDue
  <2>7. OnceEach'
    <3>1. /\ pc'["ui"] = "check" =>
               pc["ui"] = "check" /\ subject'["ui"] = subject["ui"]
          /\ InInitialize' => InInitialize
      <4>1. CASE t = "ui"
        BY <4>1, <2>5 DEF InInitialize
      <4>2. CASE t # "ui"
        BY <4>2, <2>3, <1>a DEF InInitialize
      <4>. QED
        BY <4>1, <4>2
    <3>. QED
      BY <2>2, <2>4, <2>6, <3>1, NothingNewDue DEF LoadInv
  <2>8. LoaderOnlyAsks'
    BY <2>1, <2>2, <2>3, <2>5, <1>a DEF LoaderOnlyAsks, LoadInv
  <2>. QED
    BY <2>1, <2>2, <2>7, <2>8, <1>d DEF LoadInv, LoadBegun, SubscriptionTracked
<1>5. ASSUME NEW t \in Threads, OnRootReady(t) PROVE LoadInv'
  <2>1. /\ t = "ui"
        /\ pc[t] = "on_ready" /\ Goto(t, "check") /\ "check" \in Labels
        /\ subject[t] \in RootServices /\ subject' = subject
        /\ pc' = [pc EXCEPT ![t] = "check"]
        /\ UNCHANGED <<host, calls, providers, acquiring, queued, subscriptions,
                       initialized>>
    BY <1>5, <1>a, <1>b DEF OnRootReady, Goto, LoadInv, LoaderOnlyAsks, Labels
  <2>2. \A u \in Threads \ {t} : carried'[u] = carried[u]
    BY <2>1, CarriedByOthers
  <2>3. /\ \A s \in RootServices : due'[s] <= due[s]
        /\ due'[subject[t]] = due[subject[t]] - 1
    <3>1. \A s \in RootServices : carried'[t][s] <= carried[t][s]
      BY <2>1, CarriedMoves
    <3>2. carried'[t][subject[t]] = carried[t][subject[t]] - 1
      BY <2>1, CarriedMoves
    <3>. QED
      BY <2>1, <2>2, <3>1, <3>2, LessCarried
  <2>4. due[subject[t]] = 1 /\ due'[subject[t]] = 0
    BY <2>1, <2>3, <1>c DEF CountsOK, LoadInv, OnceEach
  <2>5. ~NoneDue /\ initialized = 0 /\ shellDue = 0
    BY <2>1, <2>4, <1>b, <1>c DEF NoneDue, LoadInv, OnceEach, CountsOK
  <2>6. shellDue' = 0
    BY <2>1, <2>5, <1>b DEF shellDue
  <2>7. /\ \A s \in RootServices : due'[s] <= 1 /\ (s \in held' => due'[s] = 0)
    BY <1>5, <2>3, <2>4, <1>c DEF OnRootReady, LoadInv, OnceEach, CountsOK
  <2>8. OnceEach'
    BY <2>1, <2>4, <2>5, <2>6, <2>7, <1>b DEF OnceEach, InInitialize
  <2>9. LoaderOnlyAsks' /\ SubscriptionTracked'
    BY <1>5, <2>1, <1>a, <1>b
    DEF OnRootReady, LoadInv, LoaderOnlyAsks, SubscriptionTracked, RootServices
  <2>. QED
    BY <2>1, <2>8, <2>9, <1>d DEF LoadInv, LoadBegun
<1>6. ASSUME NEW t \in Threads, Check(t) PROVE LoadInv'
  <2>1. /\ t = "ui" /\ pc[t] = "check" /\ {"obtain_shell", "idle"} \subseteq Labels
        /\ Return(t) \/ Goto(t, "obtain_shell")
        /\ UNCHANGED <<host, calls, providers, held, acquiring, queued,
                       subscriptions, initialized>>
    BY <1>6, <1>a DEF Check, OtherCame, InitializeBegins, LoadInv, LoaderOnlyAsks, Labels, members
  <2>2. \A u \in Threads \ {t} : pc'[u] = pc[u] /\ carried'[u] = carried[u]
    BY <2>1, CarriedByOthers
  <2>3. \A s \in RootServices : due'[s] <= due[s]
    <3>1. \A s \in RootServices : carried'[t][s] <= carried[t][s]
      BY <2>1, CarriedMoves
    <3>. QED
      BY <2>1, <2>2, <3>1, LessCarried
  <2>4. LoaderOnlyAsks' /\ SubscriptionTracked' /\ LoadBegun'
    BY <2>1, <2>2, <1>a, <1>d
    DEF LoadInv, LoaderOnlyAsks, SubscriptionTracked, LoadBegun
  <2>5. CASE Goto(t, "obtain_shell") /\ Other(subject[t]) \in held
    <3>1. NoneDue
      <4>1. /\ subject[t] \in RootServices
            /\ RootServices = {subject[t], Other(subject[t])}
        BY <1>b, OtherRoot
      <4>. QED
        BY <2>1, <2>5, <4>1 DEF NoneDue, LoadInv, OnceEach
    <3>2. NoneDue'
      BY <3>1, <2>3, <1>c DEF NoneDue, CountsOK
    <3>3. shellDue = 0 /\ initialized = 0
      BY <2>1 DEF LoadInv, OnceEach
    <3>4. pc'["ui"] = "obtain_shell"
      BY <2>1, <2>5, <1>b DEF Goto
    <3>5. shellDue' = 1
      BY <2>1, <3>3, <3>4, <1>b, <1>a DEF shellDue
    <3>6. OnceEach'
      BY <2>1, <3>2, <3>3, <3>4, <3>5 DEF OnceEach, NoneDue
    <3>. QED
      BY <2>4, <3>6 DEF LoadInv
  <2>6. CASE Return(t)
    <3>1. pc'["ui"] \in {"idle", "obtain"}
      BY <2>1, <2>6, <1>b DEF Return, Goto
    <3>2. shellDue' <= shellDue
      BY <2>1, <3>1, <1>a, <1>b DEF shellDue
    <3>3. OnceEach'
      BY <2>1, <2>3, <3>1, <3>2, NothingNewDue DEF InInitialize, LoadInv
    <3>. QED
      BY <2>4, <3>3 DEF LoadInv
  <2>. QED
    BY <1>6, <2>5, <2>6 DEF Check, OtherCame, InitializeBegins
<1>7. ASSUME NEW t \in Threads, ObtainShell(t), ~NoProvider PROVE LoadInv'
  <2>1. /\ ObtainService(t, "IVsShell", Goto(t, "create"), Goto(t, "shell_ready"))
        /\ t = "ui" /\ pc[t] = "obtain_shell"
    BY <1>7, <1>a DEF ObtainShell, LoadInv, LoaderOnlyAsks
  <2>2. /\ UNCHANGED <<host, calls, providers, held, subscriptions, initialized>>
        /\ Unwind(t) \/ Goto(t, "create") \/ Goto(t, "shell_ready")
        /\ {"create", "shell_ready"} \subseteq Labels
    BY <2>1 DEF ObtainService, members, Labels
  <2>3. \A u \in Threads \ {t} : pc'[u] = pc[u] /\ carried'[u] = carried[u]
    BY <2>2, CarriedByOthers
  <2>4. \A s \in RootServices : /\ acquiring'[s] = acquiring[s]
                                /\ queued'[s] = queued[s]
    BY <2>1, <1>a, <1>b DEF ObtainService, Tasks!Acquire
  <2>5. \A s \in RootServices : due'[s] <= due[s]
    <3>. SUFFICES ASSUME NEW s \in RootServices PROVE due'[s] <= due[s]
      OBVIOUS
    <3>1. carried'["ui"][s] <= carried["ui"][s]
      BY <2>1, <2>2, CarriedMoves
    <3>2. carried'["loader"][s] = carried["loader"][s]
      BY <2>1, <2>3, <1>a
    <3>3. /\ due[s] = acquiring[s] + queued[s] + carried["ui"][s] + carried["loader"][s]
          /\ due'[s] = acquiring'[s] + queued'[s] + carried'["ui"][s] + carried'["loader"][s]
      BY DEF due
    <3>. QED
      BY <2>4, <3>1, <3>2, <3>3, <1>a, <1>b, <1>c DEF CountsOK
  <2>6. shellDue' <= shellDue
    <3>1. CASE Unwind(t) /\ UNCHANGED <<acquiring, queued>>
      BY <3>1, <2>1, <2>2, <1>a, <1>b DEF shellDue, Unwind
    <3>2. CASE Goto(t, "shell_ready") /\ UNCHANGED <<acquiring, queued>>
      BY <3>2, <2>1, <2>2, <1>a, <1>b DEF shellDue, Goto
    <3>3. CASE Goto(t, "create") /\ Tasks!Acquire("IVsShell")
      BY <3>3, <2>1, <2>2, <1>a, <1>b DEF shellDue, Goto, Tasks!Acquire
    <3>. QED
      BY <2>1, <3>1, <3>2, <3>3 DEF ObtainService
  <2>7. pc'["ui"] \in {"idle", "create", "shell_ready"} /\ InInitialize
    BY <2>1, <2>2, <1>b DEF Unwind, Goto, InInitialize
  <2>8. OnceEach'
    BY <2>2, <2>5, <2>6, <2>7, NothingNewDue DEF LoadInv
  <2>. QED
    BY <2>1, <2>2, <2>3, <2>8, <1>a, <1>d
    DEF LoadInv, LoaderOnlyAsks, SubscriptionTracked, LoadBegun
<1>8. ASSUME NEW t \in Threads, OnShellReady(t), Subscribe PROVE LoadInv'
  <2>1. /\ t = "ui" /\ pc[t] \in {"shell_ready", "advise"}
        /\ Goto(t, "create") \/ Goto(t, "idle")
        /\ pc[t] = "advise" => Goto(t, "idle")
        /\ {"create", "idle"} \subseteq Labels
    <3>1. ~Crash
      BY <1>8, <1>b DEF Crash, Subscribe, members
    <3>. QED
      BY <1>8, <3>1, <1>a DEF OnShellReady, LoadInv, LoaderOnlyAsks, Labels
  <2>2. /\ UNCHANGED <<host, calls, providers, acquiring, queued, initialized>>
        /\ subscriptions' = subscriptions + 1
        /\ held' = held \union {"IVsShell"}
    BY <1>8 DEF Subscribe
  <2>3. \A u \in Threads \ {t} : pc'[u] = pc[u] /\ carried'[u] = carried[u]
    BY <2>1, CarriedByOthers
  <2>4. \A s \in RootServices : due'[s] <= due[s]
    <3>1. \A s \in RootServices : carried'[t][s] <= carried[t][s]
      BY <2>1, CarriedMoves
    <3>. QED
      BY <2>2, <2>3, <3>1, LessCarried
  <2>5. /\ pc["ui"] = "advise" => pc'["ui"] = "idle"
        /\ pc'["ui"] \in {"idle", "create"}
    BY <2>1, <1>b DEF Goto
  <2>6. shellDue' = shellDue
    BY <2>1, <2>2, <2>5, <1>a, <1>b DEF shellDue
  <2>7. OnceEach'
    <3>1. shellDue' <= shellDue
      BY <2>6, <1>c DEF CountsOK
    <3>2. InInitialize' => InInitialize
      BY <2>1, <2>5 DEF InInitialize
    <3>. QED
      BY <2>2, <2>4, <2>5, <3>1, <3>2, <1>a, NothingNewDue DEF LoadInv
  <2>8. SubscriptionTracked'
    <3>1. shellDue >= subscriptions + 1 /\ shellDue <= 1
      BY <2>1, <1>a, <1>b DEF shellDue, LoadInv, OnceEach
    <3>2. subscriptions = 0
      BY <3>1, <1>b, <1>c DEF CountsOK
    <3>. QED
      BY <2>2, <3>2 DEF SubscriptionTracked
  <2>. QED
    BY <2>1, <2>2, <2>3, <2>7, <2>8, <1>a, <1>d DEF LoadInv, LoaderOnlyAsks, LoadBegun
<1>9. ASSUME NEW t \in Threads, Create(t) PROVE LoadInv'
  <2>1. /\ t = "ui" /\ pc[t] = "create"
        /\ Return(t) \/ Unwind(t)
        /\ UNCHANGED <<host, calls, providers, held, subscriptions, acquiring,
                       queued>>
        /\ initialized' = initialized \/ initialized' = initialized + 1
    BY <1>9, <1>a DEF Create, LoadInv, LoaderOnlyAsks
  <2>2. \A u \in Threads \ {t} : pc'[u] = pc[u] /\ carried'[u] = carried[u]
    BY <2>1, CarriedByOthers
  <2>3. \A s \in RootServices : due'[s] <= due[s]
    <3>1. \A s \in RootServices : carried'[t][s] <= carried[t][s]
      BY <2>1, CarriedMoves
    <3>. QED
      BY <2>1, <2>2, <3>1, LessCarried
  <2>4. NoneDue /\ initialized = 0
    BY <2>1 DEF InInitialize, LoadInv, OnceEach
  <2>5. NoneDue'
    BY <2>3, <2>4, <1>c DEF NoneDue, CountsOK
  <2>6. pc'["ui"] \in {"idle", "obtain"}
    BY <2>1, <1>b DEF Return, Unwind, Goto
  <2>7. shellDue' <= shellDue
    BY <2>1, <2>6, <1>a, <1>b DEF shellDue
  <2>8. OnceEach'
    <3>1. shellDue' <= 1
      BY <2>7, <1>c DEF LoadInv, OnceEach, CountsOK
    <3>2. initialized' <= 1
      BY <2>1, <2>4
    <3>. QED
      BY <2>5, <2>6, <3>1, <3>2 DEF OnceEach, InInitialize, NoneDue
  <2>. QED
    BY <2>1, <2>2, <2>8, <1>a, <1>d
    DEF LoadInv, LoaderOnlyAsks, SubscriptionTracked, LoadBegun
<1>10. ASSUME NEW r \in Services, AcquisitionCompletes(r) \/ AcquisitionLost(r)
       PROVE  LoadInv'
  <2>1. /\ UNCHANGED <<host, calls, providers, held, subscriptions, initialized,
                       pc, subject, more>>
        /\ Tasks!Complete(r) \/ Tasks!Fault(r)
    BY <1>10 DEF AcquisitionCompletes, AcquisitionLost, Elsewhere, control, members
  <2>2. carried' = carried
    BY <2>1 DEF carried
  <2>3. /\ acquiring' \in [Services -> Nat] /\ queued' \in [Services -> Nat]
        /\ \A s \in Services :
             acquiring'[s] + queued'[s] <= acquiring[s] + queued[s]
    BY <2>1, <1>b DEF Tasks!Complete, Tasks!Fault
  <2>4. \A s \in RootServices : due'[s] <= due[s]
    BY <2>2, <2>3, <1>a, <1>b, <1>c DEF due, CountsOK
  <2>5. shellDue' <= shellDue
    BY <2>1, <2>3, <1>a, <1>b DEF shellDue
  <2>6. OnceEach'
    BY <2>1, <2>4, <2>5, NothingNewDue DEF LoadInv, InInitialize
  <2>7. LoadBegun
    <3>1. acquiring[r] + queued[r] > 0
      BY <2>1, <1>b DEF Tasks!Complete, Tasks!Fault
    <3>2. CASE r = "IVsShell"
      <4>1. shellDue > 0
        BY <3>1, <3>2, <1>a, <1>b DEF shellDue
      <4>. QED
        BY <4>1, <1>c DEF LoadInv, Untouched, CountsOK
    <3>3. CASE r \in RootServices
      <4>1. due[r] > 0
        BY <3>1, <3>3, <1>a, <1>b, <1>c DEF due, CountsOK
      <4>. QED
        BY <3>3, <4>1, <1>c DEF LoadInv, Untouched, NoneDue, CountsOK
    <3>. QED
      BY <3>2, <3>3, <1>a
  <2>. QED
    BY <2>1, <2>6, <2>7 DEF LoadInv, LoaderOnlyAsks, SubscriptionTracked, LoadBegun
<1>11. ASSUME NEW r \in Services, RunContinuation(r) PROVE LoadInv'
  <2>1. /\ UNCHANGED <<host, calls, providers, held, subscriptions, initialized,
                       acquiring>>
        /\ pc["ui"] = "idle" /\ queued[r] > 0
        /\ queued' = [queued EXCEPT ![r] = @ - 1]
        /\ UNCHANGED control \/ EnterContinuation(r)
    BY <1>11 DEF RunContinuation, Elsewhere, members, Tasks!Dispatch, Tasks!EndEarly
  <2>2. /\ pc'["loader"] = pc["loader"] /\ carried'["loader"] = carried["loader"]
        /\ pc'["ui"] \in {"idle", "on_ready", "advise"}
        /\ pc'["ui"] = "advise" => r = "IVsShell"
    BY <2>1, <1>a, <1>b DEF EnterContinuation, Goto, control, carried
  <2>3. \A s \in RootServices :
          carried'["ui"][s] <= carried["ui"][s] + (IF s = r THEN 1 ELSE 0)
    BY <2>1, <1>a, <1>b DEF EnterContinuation, Goto, control, carried
  <2>4. \A s \in RootServices : due'[s] <= due[s]
    <3>. SUFFICES ASSUME NEW s \in RootServices PROVE due'[s] <= due[s]
      OBVIOUS
    <3>1. /\ queued'[s] = queued[s] - (IF s = r THEN 1 ELSE 0)
          /\ queued[s] \in Nat /\ acquiring[s] \in Nat
      BY <2>1, <1>a, <1>b
    <3>2. /\ due[s] = acquiring[s] + queued[s] + carried["ui"][s] + carried["loader"][s]
          /\ due'[s] = acquiring'[s] + queued'[s] + carried'["ui"][s] + carried'["loader"][s]
      BY DEF due
    <3>. QED
      BY <2>1, <2>2, <2>3, <3>1, <3>2, <1>a, <1>c DEF CountsOK
  <2>5. shellDue' <= shellDue
    BY <2>1, <2>2, <1>a, <1>b DEF shellDue
  <2>6. OnceEach'
    BY <2>1, <2>2, <2>4, <2>5, NothingNewDue DEF LoadInv, InInitialize
  <2>7. LoadBegun
    <3>1. CASE r = "IVsShell"
      <4>1. shellDue > 0
        BY <2>1, <3>1, <1>a, <1>b DEF shellDue
      <4>. QED
        BY <4>1, <1>c DEF LoadInv, Untouched, CountsOK
    <3>2. CASE r \in RootServices
      <4>1. due[r] > 0
        BY <2>1, <3>2, <1>a, <1>b, <1>c DEF due, CountsOK
      <4>. QED
        BY <3>2, <4>1, <1>c DEF LoadInv, Untouched, NoneDue, CountsOK
    <3>. QED
      BY <3>1, <3>2, <1>a
  <2>. QED
    BY <2>1, <2>2, <2>6, <2>7 DEF LoadInv, LoaderOnlyAsks, SubscriptionTracked, LoadBegun
<1>12. CASE ColorsChange \/ OnBroadcastMessage
  BY <1>12, <1>e DEF ColorsChange, OnBroadcastMessage, members, control, LoadBegun
<1>13. CASE Close
  <2>1. /\ UNCHANGED <<host, calls, acquiring, queued, initialized, pc, subject,
                       more>>
        /\ held' = {}
        /\ pc["ui"] = "idle" /\ pc["loader"] = "idle"
        /\ subscriptions' = IF "IVsShell" \in held THEN subscriptions - 1
                                                   ELSE subscriptions
    BY <1>13, <1>a DEF Close, MayClose, Unadvised, control
  <2>2. carried' = carried /\ due' = due
    BY <2>1 DEF carried, due
  <2>3. subscriptions' = 0
    BY <2>1 DEF LoadInv, SubscriptionTracked
  <2>4. shellDue' <= shellDue
    BY <2>1, <2>3, <1>a, <1>b DEF shellDue
  <2>5. OnceEach'
    <3>1. \A s \in RootServices : due'[s] <= due[s]
      BY <2>2, <1>c DEF CountsOK
    <3>. QED
      BY <2>1, <3>1, <2>4, NothingNewDue DEF LoadInv, InInitialize
  <2>6. LoadBegun' \/ Untouched'
    <3>1. CASE Untouched
      <4>1. shellDue' = 0
        BY <3>1, <2>4, <1>c DEF Untouched, CountsOK
      <4>. QED
        BY <3>1, <4>1, <2>1, <2>2 DEF Untouched, NoneDue
    <3>. QED
      BY <3>1, <2>1 DEF LoadInv, LoadBegun
  <2>. QED
    BY <2>1, <2>3, <2>5, <2>6 DEF LoadInv, LoaderOnlyAsks, SubscriptionTracked
<1>14. CASE UNCHANGED vars
  BY <1>14, <1>e DEF vars, members, control, LoadBegun
<1>15. ASSUME NEW t \in Threads, OnShellReady(t), Crash PROVE LoadInv'
  BY <1>15, <1>e DEF Crash, members, control, LoadBegun
<1>16. ASSUME NEW t \in Threads, Step(t) PROVE LoadInv'
  BY <1>16, <1>3, <1>4, <1>5, <1>6, <1>7, <1>8, <1>9, <1>15
  DEF Step, OnShellReady
<1>. QED
  BY <1>1, <1>2, <1>10, <1>11, <1>12, <1>13, <1>14, <1>16 DEF Next

(* TypeOK and the strengthenings together are inductive.                   *)
PackageInv == TypeOK /\ ShellSubscribed /\ OpenInv /\ LoadInv

LEMMA PackageInvariant ==
  ASSUME "no_version" \notin Disturbances
  PROVE  Spec => []PackageInv
<1>1. Init => PackageInv
  BY TypeInit, OpenInit, LoadInit DEF PackageInv
<1>2. PackageInv /\ [Next]_vars => PackageInv'
  BY TypeStep, ShellSubscribedStep, OpenStep, LoadStep DEF PackageInv, LoadedOnce
<1>. QED
  BY <1>1, <1>2, PTL DEF Spec

(* A package loaded once never owes the shell an unadvise it will not      *)
(* make: AdviseBroadcastMessages is called at most once at a time, and     *)
(* exactly while _shell is held, so the one _broadcast_cookie suffices.    *)
THEOREM OneSubscription ==
  ASSUME "no_version" \notin Disturbances
  PROVE  Spec => []SubscriptionTracked
<1>1. PackageInv => SubscriptionTracked
  BY DEF PackageInv, LoadInv
<1>. QED
  BY <1>1, PackageInvariant, PTL

(* The package implements the lifecycle its client counts on, for every    *)
(* order in which services arrive, fail or are closed upon: initialize()   *)
(* is entered at most once, and never after terminate().                   *)
THEOREM ImplementsClientLifecycle ==
  ASSUME "no_version" \notin Disturbances
  PROVE  Spec => ClientContract
<1>1. Init => Client!Init
  BY DEF Init, Client!Init
<1>2. PackageInv /\ [Next]_vars => [Client!Next]_(Client!lifecycle)
  <2>. SUFFICES ASSUME PackageInv, [Next]_vars
                PROVE  [Client!Next]_(Client!lifecycle)
    OBVIOUS
  <2>. USE DEF Client!Next, Client!lifecycle
  <2>1. UNCHANGED <<initialized, closed>> => UNCHANGED Client!lifecycle
    OBVIOUS
  <2>2. ASSUME NEW t \in Threads, Create(t) PROVE [Client!Next]_(Client!lifecycle)
    <3>1. t = "ui" /\ initialized = 0
      BY <2>2 DEF Create, PackageInv, LoadInv, LoaderOnlyAsks, OnceEach,
                  InInitialize, Threads
    <3>2. ~closed
      BY <2>2 DEF Create, PackageInv, OpenInv, Building
    <3>3. /\ closed' = closed
          /\ initialized' = initialized \/ initialized' = initialized + 1
      BY <2>2 DEF Create
    <3>. QED
      BY <3>1, <3>2, <3>3 DEF Client!EnterInitialize
  <2>3. CASE Close
    BY <2>3 DEF Close, Client!Terminate
  <2>4. ASSUME NEW t \in Threads, Step(t), ~Create(t)
        PROVE  UNCHANGED <<initialized, closed>>
    BY <2>4 DEF Step, ObtainRoot, ObtainShell, ObtainService, NoProvider, Crash,
                OnRootReady, Check, OnShellReady, Subscribe
  <2>5. ASSUME NEW s \in Services,
               AcquisitionCompletes(s) \/ AcquisitionLost(s) \/ RunContinuation(s)
        PROVE  UNCHANGED <<initialized, closed>>
    BY <2>5 DEF AcquisitionCompletes, AcquisitionLost, RunContinuation, Elsewhere
  <2>6. CASE Initialize \/ SetSite \/ ColorsChange \/ OnBroadcastMessage
    BY <2>6, <2>1 DEF Initialize, Stored, SetSite, ColorsChange, OnBroadcastMessage
  <2>7. CASE UNCHANGED vars
    BY <2>7, <2>1 DEF vars
  <2>. QED
    BY <2>1, <2>2, <2>3, <2>4, <2>5, <2>6, <2>7 DEF Next
<1>. QED
  BY <1>1, <1>2, PackageInvariant, PTL DEF Spec, ClientContract, Client!Spec

-----------------------------------------------------------------------------
(* How loads and closes end, for hosts whose version can be read: what the *)
(* counts above decide is which steps can still come.                      *)

(* What only the steps of a thread, or Close, may change.                  *)
LEMMA HostSteps ==
  ASSUME TypeOK,
         \/ Initialize \/ SetSite \/ ColorsChange \/ OnBroadcastMessage
         \/ \E s \in Services : \/ AcquisitionCompletes(s)
                                \/ AcquisitionLost(s)
                                \/ RunContinuation(s)
         \/ UNCHANGED vars
  PROVE  /\ UNCHANGED <<held, factory, initialized, subscriptions, failed,
                        closed, crashed>>
         /\ pc["ui"] # "idle" => pc'["ui"] = pc["ui"]
<1>. USE DEF members, control, TypeOK, Threads
<1>1. CASE Initialize
  BY <1>1 DEF Initialize, StartObtaining
<1>2. CASE SetSite
  BY <1>2 DEF SetSite, StartObtaining
<1>3. CASE ColorsChange \/ OnBroadcastMessage
  BY <1>3 DEF ColorsChange, OnBroadcastMessage
<1>4. ASSUME NEW s \in Services,
             AcquisitionCompletes(s) \/ AcquisitionLost(s) \/ RunContinuation(s)
      PROVE  /\ UNCHANGED <<held, factory, initialized, subscriptions, failed,
                            closed, crashed>>
             /\ pc["ui"] # "idle" => pc'["ui"] = pc["ui"]
  BY <1>4 DEF AcquisitionCompletes, AcquisitionLost, RunContinuation, Elsewhere,
              EnterContinuation, Goto
<1>5. CASE UNCHANGED vars
  BY <1>5 DEF vars
<1>. QED
  BY <1>1, <1>2, <1>3, <1>4, <1>5

(* The loader's thread does no more than ask for the root services.        *)
LEMMA LoaderSteps ==
  ASSUME TypeOK, LoaderOnlyAsks, Step("loader")
  PROVE  /\ UNCHANGED <<held, factory, initialized, subscriptions, closed>>
         /\ pc["loader"] # "idle"
         /\ pc'["ui"] = pc["ui"]
         /\ failed \/ crashed => failed' \/ crashed'
<1>1. pc["loader"] = "obtain" /\ ObtainRoot("loader")
  BY DEF LoaderOnlyAsks, Step, ObtainRoot, OnRootReady, Check, ObtainShell,
         OnShellReady, Create
<1>2. pc'["ui"] = pc["ui"] /\ (failed \/ crashed => failed' \/ crashed')
  BY <1>1 DEF ObtainRoot, ObtainService, NoProvider, Crash, Return, Goto, Unwind,
              control, TypeOK, Threads
<1>. QED
  BY <1>1, <1>2 DEF ObtainRoot, ObtainService, NoProvider, Crash, members

-----------------------------------------------------------------------------
(* Both services are there for as long as the factory is: when it was      *)
(* built both had been handled, and none is handled twice, so no late      *)
(* answer, a null one, say, replaces what the factory was made from.       *)
BackedInv == factory => initialized > 0 /\ RootServices \subseteq held

(* Once both services are there the UI thread is on its way to the client's*)
(* initialize(), or has been.                                              *)
OnItsWay ==
  RootServices \subseteq held /\ ~failed /\ ~crashed =>
    \/ factory /\ initialized = 1
    \/ pc["ui"] = "check"
    \/ InInitialize

LEMMA OutcomeInit == Init => BackedInv /\ OnItsWay
  BY DEF Init, BackedInv, OnItsWay, RootServices

(* No root service is handled after initialize().                          *)
LEMMA NoneLate ==
  ASSUME PackageInv, pc["ui"] = "on_ready"
  PROVE  initialized = 0
<1>. DEFINE s == subject["ui"]
<1>1. s \in RootServices /\ TypeOK /\ OnceEach
  BY DEF PackageInv, LoadInv, TypeOK, Threads
<1>2. CountsOK
  BY <1>1, Counts
<1>3. carried["ui"][s] >= 1
  BY <1>1 DEF carried, Threads, RootServices
<1>4. RootServices \subseteq Services /\ acquiring[s] \in Nat /\ queued[s] \in Nat
  BY <1>1 DEF TypeOK, Tasks!TasksTypeOK, Services
<1>5. carried["loader"][s] \in 0..2 /\ carried["ui"][s] \in 0..2
  BY <1>1, <1>2 DEF CountsOK, Threads
<1>6. due[s] >= 1
  BY <1>1, <1>3, <1>4, <1>5 DEF due
<1>. QED
  BY <1>1, <1>6 DEF OnceEach, NoneDue, TypeOK

LEMMA OutcomeStep ==
  ASSUME PackageInv, BackedInv, OnItsWay, [Next]_vars
  PROVE  BackedInv' /\ OnItsWay'
<1>. USE DEF BackedInv, OnItsWay, InInitialize
<1>a. /\ TypeOK /\ LoaderOnlyAsks /\ OnceEach
      /\ pc \in [Threads -> Labels] /\ "ui" \in Threads
      /\ initialized \in Nat
  BY DEF PackageInv, LoadInv, TypeOK, Threads
<1>1. CASE \/ Initialize \/ SetSite \/ ColorsChange \/ OnBroadcastMessage
           \/ \E s \in Services : \/ AcquisitionCompletes(s)
                                  \/ AcquisitionLost(s)
                                  \/ RunContinuation(s)
           \/ UNCHANGED vars
  BY <1>1, <1>a, HostSteps
<1>2. CASE Step("loader")
  BY <1>2, <1>a, LoaderSteps
<1>3. CASE Step("ui")
  <2>1. CASE ObtainRoot("ui")
    <3>1. UNCHANGED <<held, factory, initialized>> /\ pc["ui"] = "obtain"
      BY <2>1 DEF ObtainRoot, ObtainService, NoProvider, Crash, members
    <3>2. failed \/ crashed => failed' \/ crashed'
      BY <2>1 DEF ObtainRoot, ObtainService, NoProvider, Crash, Return, Goto, Unwind,
                  control
    <3>. QED
      BY <3>1, <3>2
  <2>2. CASE OnRootReady("ui")
    <3>1. initialized = 0 /\ ~factory
      BY <2>2, NoneLate DEF OnRootReady
    <3>2. pc'["ui"] = "check" /\ UNCHANGED <<factory, initialized>>
      BY <2>2, <1>a DEF OnRootReady, Goto
    <3>. QED
      BY <3>1, <3>2
  <2>3. CASE Check("ui")
    <3>1. UNCHANGED <<held, factory, initialized, failed, crashed>>
      BY <2>3 DEF Check, Goto, Return, members
    <3>2. RootServices \subseteq held => pc'["ui"] = "obtain_shell"
      <4>1. Other(subject["ui"]) \in RootServices
        BY <1>a DEF TypeOK, Other, RootServices
      <4>. QED
        BY <2>3, <4>1, <1>a DEF Check, OtherCame, InitializeBegins, Goto
    <3>. QED
      BY <3>1, <3>2
  <2>4. CASE ObtainShell("ui")
    <3>1. UNCHANGED <<held, factory, initialized>>
      BY <2>4 DEF ObtainShell, ObtainService, NoProvider, Crash, members
    <3>2. crashed' \/ failed' \/ pc'["ui"] \in {"create", "shell_ready"}
      BY <2>4, <1>a DEF ObtainShell, ObtainService, NoProvider, Crash, Goto, Unwind
    <3>. QED
      BY <3>1, <3>2
  <2>5. CASE OnShellReady("ui")
    <3>1. RootServices \subseteq held' <=> RootServices \subseteq held
      BY <2>5 DEF OnShellReady, Subscribe, Crash, members, RootServices
    <3>2. UNCHANGED <<factory, initialized, failed>> /\ (crashed => crashed')
      BY <2>5 DEF OnShellReady, Subscribe, Crash, members, Goto, control
    <3>3. \/ pc["ui"] = "shell_ready" /\ pc'["ui"] = "create"
          \/ pc["ui"] = "advise"
          \/ crashed'
      BY <2>5, <1>a DEF OnShellReady, Goto, Crash
    <3>. QED
      BY <3>1, <3>2, <3>3
  <2>6. CASE Create("ui")
    <3>1. initialized = 0 /\ UNCHANGED <<held, crashed>>
      BY <2>6, <1>a DEF Create, OnceEach
    <3>2. \/ RootServices \subseteq held /\ factory' /\ initialized' = 1
          \/ failed' /\ UNCHANGED <<factory, initialized>>
      BY <2>6, <3>1 DEF Create, Unwind
    <3>. QED
      BY <3>1, <3>2
  <2>. QED
    BY <1>3, <2>1, <2>2, <2>3, <2>4, <2>5, <2>6 DEF Step
<1>4. CASE Close
  <2>1. ~factory' /\ held' = {}
    BY <1>4 DEF Close
  <2>. QED
    BY <2>1 DEF RootServices
<1>. QED
  BY <1>1, <1>2, <1>3, <1>4 DEF Next, Threads

LEMMA OutcomeInvariant ==
  ASSUME "no_version" \notin Disturbances
  PROVE  Spec => [](PackageInv /\ BackedInv /\ OnItsWay)
<1>1. PackageInv /\ BackedInv /\ OnItsWay /\ [Next]_vars => BackedInv' /\ OnItsWay'
  BY OutcomeStep
<1>. QED
  BY <1>1, OutcomeInit, PackageInvariant, PTL DEF Spec

(* While the factory stands the package holds the two services that were   *)
(* there when initialize() built it: a second or late answer to either     *)
(* request of obtain_root_services never takes one away.                   *)
THEOREM FactoryStaysBacked ==
  ASSUME "no_version" \notin Disturbances
  PROVE  Spec => []FactoryBacked
<1>1. BackedInv => FactoryBacked
  BY DEF BackedInv, FactoryBacked
<1>. QED
  BY <1>1, OutcomeInvariant, PTL

(* The two lambdas between them never lose the initialisation: in every    *)
(* order of arrival the one that completes the pair runs initialize(), and *)
(* when all is quiet it has been run once.                                 *)
THEOREM InitializationNotLost ==
  ASSUME "no_version" \notin Disturbances
  PROVE  Spec => []NoLostInitialization
<1>1. OnItsWay => NoLostInitialization
  BY DEF OnItsWay, InInitialize, NoLostInitialization, Quiescent, Threads
<1>. QED
  BY <1>1, OutcomeInvariant, PTL

-----------------------------------------------------------------------------
(* A host that waits for its tasks finds nobody inside the package when it *)
(* closes it, and no one comes after.                                      *)
ClosedInv == closed => Quiescent /\ EverythingReleased

LEMMA QuietStays ==
  ASSUME TypeOK, closed, Quiescent, [Next]_vars
  PROVE  /\ Quiescent'
         /\ UNCHANGED <<held, factory, providers, subscriptions>>
<1>. USE DEF Quiescent, Outstanding
<1>1. \A t \in Threads : ~Step(t)
  BY DEF Step, ObtainRoot, OnRootReady, Check, ObtainShell, OnShellReady, Create
<1>2. ~Initialize /\ ~SetSite /\ ~Close
  BY DEF Initialize, SetSite, Close, MayClose
<1>3. \A s \in Services :
        ~AcquisitionCompletes(s) /\ ~AcquisitionLost(s) /\ ~RunContinuation(s)
  BY DEF AcquisitionCompletes, AcquisitionLost, RunContinuation, Tasks!Settled,
         Tasks!Complete, Tasks!Fault, Tasks!Dispatch, Tasks!EndEarly
<1>4. ColorsChange \/ OnBroadcastMessage \/ UNCHANGED vars
  BY <1>1, <1>2, <1>3 DEF Next
<1>5. UNCHANGED <<pc, acquiring, queued, held, factory, providers, subscriptions>>
  BY <1>4 DEF ColorsChange, OnBroadcastMessage, vars, members, control
<1>. QED
  BY <1>5 DEF Tasks!Settled

LEMMA ClosedStep ==
  ASSUME "racing_close" \notin Disturbances, PackageInv, ClosedInv, [Next]_vars
  PROVE  ClosedInv'
<1>. USE DEF ClosedInv, EverythingReleased
<1>a. TypeOK /\ SubscriptionTracked /\ LoaderOnlyAsks
  BY DEF PackageInv, LoadInv
<1>1. CASE Close
  <2>1. Quiescent /\ UNCHANGED <<pc, acquiring, queued>>
    BY <1>1 DEF Close, MayClose, Quiescent, control
  <2>2. Quiescent'
    BY <2>1 DEF Quiescent, Outstanding, Tasks!Settled
  <2>3. subscriptions' = 0
    BY <1>1, <1>a DEF Close, Unadvised, SubscriptionTracked
  <2>. QED
    BY <1>1, <2>2, <2>3 DEF Close
<1>2. CASE closed
  <2>1. Quiescent' /\ UNCHANGED <<held, factory, providers, subscriptions>>
    BY <1>2, <1>a, QuietStays
  <2>. QED
    BY <1>2, <2>1
<1>3. CASE ~Close /\ ~closed
  <2>1. ASSUME NEW t \in Threads, Step(t) PROVE closed' = closed
    BY <2>1 DEF Step, ObtainRoot, OnRootReady, Check, ObtainShell, OnShellReady,
                Create, ObtainService, NoProvider, Subscribe, Crash
  <2>2. closed' = closed
    BY <1>3, <1>a, <2>1, HostSteps DEF Next
  <2>. QED
    BY <1>3, <2>2
<1>. QED
  BY <1>1, <1>2, <1>3

(* "Everything released!" is true of every host that waits for the tasks   *)
(* of a package before it closes it, whatever request, acquisition or      *)
(* client code failed: Close finds and gives back all that a load, even    *)
(* half a load, has obtained.                                              *)
THEOREM CloseReleasesEverything ==
  ASSUME "no_version" \notin Disturbances, "racing_close" \notin Disturbances
  PROVE  Spec => []EverythingReleased
<1>1. Init => ClosedInv
  BY DEF Init, ClosedInv
<1>2. PackageInv /\ ClosedInv /\ [Next]_vars => ClosedInv'
  BY ClosedStep
<1>3. ClosedInv => EverythingReleased
  BY DEF ClosedInv, EverythingReleased
<1>. QED
  BY <1>1, <1>2, <1>3, PackageInvariant, PTL DEF Spec

-----------------------------------------------------------------------------
(* Whoever is inside the package, or on the way there, finds a provider.   *)
Provided ==
  /\ ~Quiescent => providers # {}
  /\ ~crashed

LEMMA ProvidedStep ==
  ASSUME "missing" \notin Disturbances, "racing_close" \notin Disturbances,
         TypeOK, Provided, [Next]_vars
  PROVE  Provided'
<1>. USE DEF Provided
<1>1. ASSUME NEW t \in Threads, Step(t) PROVE Provided'
  <2>1. pc[t] # "idle"
    BY <1>1 DEF Step, ObtainRoot, OnRootReady, Check, ObtainShell, OnShellReady, Create
  <2>2. providers # {}
    BY <2>1 DEF Quiescent
  <2>3. UNCHANGED <<providers, crashed>>
    BY <1>1, <2>2 DEF Step, ObtainRoot, OnRootReady, Check, ObtainShell,
                      OnShellReady, Create, ObtainService, NoProvider, Subscribe, members
  <2>. QED
    BY <2>2, <2>3
<1>2. ASSUME NEW s \in Services,
             AcquisitionCompletes(s) \/ AcquisitionLost(s) \/ RunContinuation(s)
      PROVE  Provided'
  <2>1. ~Tasks!Settled(s)
    BY <1>2 DEF AcquisitionCompletes, AcquisitionLost, RunContinuation, Tasks!Settled,
                Tasks!Complete, Tasks!Fault, Tasks!Dispatch, Tasks!EndEarly,
                TypeOK, Tasks!TasksTypeOK
  <2>2. providers # {}
    BY <2>1 DEF Quiescent, Outstanding
  <2>3. UNCHANGED <<providers, crashed>>
    BY <1>2 DEF AcquisitionCompletes, AcquisitionLost, RunContinuation, Elsewhere, members
  <2>. QED
    BY <2>2, <2>3
<1>3. CASE Initialize
  BY <1>3 DEF Initialize, Stored
<1>4. CASE SetSite
  <2>1. CASE UNCHANGED <<providers, control>>
    BY <1>4, <2>1 DEF SetSite, control, Quiescent, Outstanding, Tasks!Settled
  <2>2. CASE providers' = providers \union {"sync"}
    BY <1>4, <2>2 DEF SetSite
  <2>. QED
    BY <1>4, <2>1, <2>2 DEF SetSite
<1>5. CASE Close
  <2>1. Quiescent /\ UNCHANGED <<pc, acquiring, queued, crashed>>
    BY <1>5 DEF Close, MayClose, Quiescent, control
  <2>. QED
    BY <2>1 DEF Quiescent, Outstanding, Tasks!Settled
<1>6. CASE ColorsChange \/ OnBroadcastMessage \/ UNCHANGED vars
  <2>1. UNCHANGED <<pc, acquiring, queued, providers, crashed>>
    BY <1>6 DEF ColorsChange, OnBroadcastMessage, vars, members, control
  <2>. QED
    BY <2>1 DEF Quiescent, Outstanding, Tasks!Settled
<1>. QED
  BY <1>1, <1>2, <1>3, <1>4, <1>5, <1>6 DEF Next

(* No null pointer is used on the way through a load, even if the host's   *)
(* version is unreadable: a thread in the package, and a task that will    *)
(* come back to it, has a provider to ask, for a host that waits for tasks *)
(* takes none away before they are done.                                   *)
THEOREM NothingNullIsUsed ==
  ASSUME "missing" \notin Disturbances, "racing_close" \notin Disturbances
  PROVE  Spec => []NoNullDereference
<1>1. Init => Provided
  BY DEF Init, Provided, Quiescent, Outstanding, Tasks!Settled, Tasks!TasksInit
<1>2. TypeOK /\ Provided /\ [Next]_vars => Provided'
  BY ProvidedStep
<1>3. Provided => NoNullDereference
  BY DEF Provided, NoNullDereference
<1>. QED
  BY <1>1, <1>2, <1>3, TypeInit, TypeStep, ShellSubscribedStep, PTL DEF Spec

-----------------------------------------------------------------------------
(* Wherever a factory is built IVsShell was asked for before: a package    *)
(* with a factory is among the shell's listeners, or the answer is on its  *)
(* way, in a continuation, or lost.                                        *)
ShellComing ==
  factory \/ (\E t \in Threads : pc[t] = "create") =>
    \/ subscriptions > 0
    \/ ~Tasks!Settled("IVsShell")
    \/ "IVsShell" \in lost
    \/ pc["ui"] = "advise"

LEMMA ShellComingStep ==
  ASSUME TypeOK, ShellComing, [Next]_vars
  PROVE  ShellComing'
<1>. USE DEF ShellComing
<1>a. /\ pc \in [Threads -> Labels] /\ subscriptions \in Nat
      /\ acquiring \in [Services -> Nat] /\ queued \in [Services -> Nat]
      /\ "ui" \in Threads /\ "loader" \in Threads /\ "IVsShell" \in Services
  BY DEF TypeOK, Tasks!TasksTypeOK, Threads, Services
<1>b. ASSUME /\ factory' => factory
             /\ UNCHANGED subscriptions
             /\ acquiring'["IVsShell"] >= acquiring["IVsShell"]
             /\ queued'["IVsShell"] >= queued["IVsShell"]
             /\ lost \subseteq lost'
             /\ \A t \in Threads : pc'[t] = "create" => pc[t] = "create"
             /\ pc["ui"] = "advise" => pc'["ui"] = "advise"
      PROVE  ShellComing'
  BY <1>a, <1>b DEF Tasks!Settled
<1>c. ASSUME NEW t \in Threads, pc[t] # "advise",
             Return(t) \/ Unwind(t) \/ StartObtaining(t) \/ UNCHANGED control
               \/ \E label \in Labels \ {"create"} : Goto(t, label)
      PROVE  /\ \A u \in Threads : pc'[u] = "create" => pc[u] = "create"
             /\ pc["ui"] = "advise" => pc'["ui"] = "advise"
  BY <1>c, <1>a DEF Return, Goto, Unwind, StartObtaining, control
<1>1. ASSUME NEW t \in Threads, ObtainRoot(t), ~Crash PROVE ShellComing'
  <2>1. /\ UNCHANGED <<factory, subscriptions>> /\ pc[t] = "obtain"
        /\ Return(t) \/ Unwind(t) \/ Goto(t, "on_ready")
        /\ Tasks!Acquire(subject[t]) \/ UNCHANGED <<acquiring, queued, lost>>
    BY <1>1 DEF ObtainRoot, ObtainService, NoProvider, members
  <2>2. subject[t] # "IVsShell"
    BY DEF TypeOK, RootServices
  <2>3. /\ UNCHANGED <<queued, lost>>
        /\ acquiring'["IVsShell"] >= acquiring["IVsShell"]
    BY <2>1, <2>2, <1>a DEF Tasks!Acquire
  <2>. QED
    BY <2>1, <2>3, <1>a, <1>b, <1>c DEF Labels
<1>2. ASSUME NEW t \in Threads, OnRootReady(t) \/ Check(t) PROVE ShellComing'
  <2>1. /\ UNCHANGED <<factory, subscriptions, acquiring, queued, lost>>
        /\ pc[t] \in {"on_ready", "check"}
        /\ Return(t) \/ \E label \in {"check", "obtain_shell"} : Goto(t, label)
    BY <1>2 DEF OnRootReady, Check, InitializeBegins, members
  <2>. QED
    BY <2>1, <1>a, <1>b, <1>c DEF Labels
<1>3. ASSUME NEW t \in Threads, ObtainShell(t), ~Crash PROVE ShellComing'
  <2>1. /\ UNCHANGED <<factory, subscriptions>> /\ pc[t] = "obtain_shell"
        /\ \/ Tasks!Acquire("IVsShell")
           \/ /\ Unwind(t) \/ Goto(t, "shell_ready")
              /\ UNCHANGED <<acquiring, queued, lost>>
    BY <1>3 DEF ObtainShell, ObtainService, NoProvider, members
  <2>2. CASE Tasks!Acquire("IVsShell")
    <3>1. acquiring'["IVsShell"] > 0
      BY <2>2, <1>a DEF Tasks!Acquire
    <3>. QED
      BY <3>1 DEF Tasks!Settled
  <2>. QED
    BY <2>1, <2>2, <1>a, <1>b, <1>c DEF Labels
<1>4. ASSUME NEW t \in Threads, OnShellReady(t), ~Crash PROVE ShellComing'
  <2>1. subscriptions' > 0
    BY <1>4, <1>a DEF OnShellReady, Subscribe
  <2>. QED
    BY <2>1
<1>5. ASSUME NEW t \in Threads, Create(t) PROVE ShellComing'
  <2>1. /\ UNCHANGED <<subscriptions, acquiring, queued, lost>> /\ pc[t] = "create"
        /\ Return(t) \/ Unwind(t)
    BY <1>5 DEF Create
  <2>. QED
    BY <2>1, <1>a, <1>c DEF Tasks!Settled
<1>6. ASSUME NEW s \in Services, RunContinuation(s) PROVE ShellComing'
  <2>1. UNCHANGED <<factory, subscriptions>> /\ pc["ui"] = "idle"
    BY <1>6 DEF RunContinuation, Elsewhere, members
  <2>2. CASE s # "IVsShell"
    <3>1. /\ acquiring'["IVsShell"] = acquiring["IVsShell"]
          /\ queued'["IVsShell"] = queued["IVsShell"]
          /\ lost \subseteq lost'
      BY <2>2, <1>6, <1>a DEF RunContinuation, Tasks!Dispatch, Tasks!EndEarly
    <3>2. \A t \in Threads : pc'[t] = "create" => pc[t] = "create"
      BY <2>2, <1>6, <1>a DEF RunContinuation, EnterContinuation, control
    <3>. QED
      BY <3>1, <3>2, <2>1, <1>a, <1>b
  <2>3. CASE s = "IVsShell"
    <3>1. "IVsShell" \in lost' \/ pc'["ui"] = "advise"
      BY <2>3, <1>6, <1>a DEF RunContinuation, EnterContinuation, Goto, Tasks!EndEarly
    <3>. QED
      BY <3>1
  <2>. QED
    BY <2>2, <2>3
<1>7. ASSUME NEW s \in Services, AcquisitionCompletes(s) \/ AcquisitionLost(s)
      PROVE  ShellComing'
  <2>1. UNCHANGED <<factory, subscriptions, pc>>
    BY <1>7 DEF AcquisitionCompletes, AcquisitionLost, Elsewhere, members, control
  <2>2. ~Tasks!Settled("IVsShell") => ~Tasks!Settled("IVsShell")' \/ "IVsShell" \in lost'
    BY <1>7, <1>a DEF AcquisitionCompletes, AcquisitionLost, Tasks!Complete,
                      Tasks!Fault, Tasks!Settled
  <2>3. lost \subseteq lost'
    BY <1>7 DEF AcquisitionCompletes, AcquisitionLost, Tasks!Complete, Tasks!Fault
  <2>. QED
    BY <2>1, <2>2, <2>3
<1>8. CASE Initialize \/ SetSite
  <2>1. /\ UNCHANGED <<factory, subscriptions, acquiring, queued, lost>>
        /\ \/ UNCHANGED control
           \/ StartObtaining("loader")
           \/ StartObtaining("ui") /\ pc["ui"] = "idle"
    BY <1>8 DEF Initialize, SetSite
  <2>2. CASE StartObtaining("loader")
    BY <2>1, <2>2, <1>a, <1>b DEF StartObtaining
  <2>3. CASE UNCHANGED control
    BY <2>1, <2>3, <1>a, <1>b DEF control
  <2>. QED
    BY <2>1, <2>2, <2>3, <1>a, <1>b, <1>c
<1>9. CASE Close
  BY <1>9 DEF Close, MayClose, control
<1>10. ASSUME \/ ColorsChange \/ OnBroadcastMessage \/ Crash \/ UNCHANGED vars
       PROVE  ShellComing'
  BY <1>10, <1>a, <1>b DEF ColorsChange, OnBroadcastMessage, Crash, vars, members, control
<1>11. ASSUME NEW t \in Threads, Step(t) PROVE ShellComing'
  BY <1>11, <1>1, <1>2, <1>3, <1>4, <1>5, <1>10 DEF Step
<1>. QED
  BY <1>6, <1>7, <1>8, <1>9, <1>10, <1>11 DEF Next

(* Colours that changed unnoticed are those of a stylesheet in use.        *)
UntoldInUse == untold => factory

LEMMA UntoldStep == UntoldInUse /\ [Next]_vars => UntoldInUse'
<1>. SUFFICES ASSUME UntoldInUse, [Next]_vars PROVE UntoldInUse'
  OBVIOUS
<1>. USE DEF UntoldInUse
<1>1. ASSUME NEW t \in Threads, Step(t) PROVE UntoldInUse'
  BY <1>1 DEF Step, ObtainRoot, OnRootReady, Check, ObtainShell, OnShellReady, Create,
              ObtainService, NoProvider, Subscribe, Crash, members, colours
<1>. QED
  BY <1>1 DEF Next, Initialize, SetSite, AcquisitionCompletes, AcquisitionLost,
              RunContinuation, Elsewhere, ColorsChange, OnBroadcastMessage, Signalled,
              Close, vars, members, colours

(* For every host and whatever goes wrong, a broadcast misses a package    *)
(* with a stylesheet only before IVsShell has come: the request precedes   *)
(* the stylesheet, and once it is answered the package listens.            *)
THEOREM NoOtherChangeIsMissed == Spec => MissedOnlyInBetween
<1>1. Init => ShellComing /\ UntoldInUse
  BY DEF Init, ShellComing, UntoldInUse
<1>2. ASSUME TypeOK, ShellComing, UntoldInUse, [Next]_vars,
             pending, ~pending', untold, untold'
      PROVE  ~Tasks!Settled("IVsShell") \/ "IVsShell" \in lost
  <2>1. OnBroadcastMessage
    <3>1. ASSUME NEW t \in Threads, Step(t) PROVE UNCHANGED pending
      BY <3>1 DEF Step, ObtainRoot, OnRootReady, Check, ObtainShell, OnShellReady, Create,
                  ObtainService, NoProvider, Subscribe, Crash, colours
    <3>. QED
      BY <1>2, <3>1 DEF Next, Initialize, SetSite, AcquisitionCompletes, AcquisitionLost,
                  RunContinuation, Elsewhere, ColorsChange, Close, vars, colours
  <2>2. pc["ui"] = "idle" /\ subscriptions = 0
    BY <2>1, <1>2 DEF OnBroadcastMessage, Signalled
  <2>. QED
    BY <2>2, <1>2 DEF ShellComing, UntoldInUse
<1>3. TypeOK /\ ShellComing /\ UntoldInUse /\ [Next]_vars
        => [pending /\ ~pending' /\ untold /\ untold'
              => ~Tasks!Settled("IVsShell") \/ "IVsShell" \in lost]_vars
  BY <1>2
<1>4. TypeOK /\ ShellComing /\ UntoldInUse /\ [Next]_vars => ShellComing' /\ UntoldInUse'
  BY ShellComingStep, UntoldStep
<1>. QED
  BY <1>1, <1>3, <1>4, TypeInit, TypeStep, ShellSubscribedStep, PTL
  DEF Spec, MissedOnlyInBetween

==============================================================================
