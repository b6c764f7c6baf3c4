----------------------------- MODULE SampleProofs -----------------------------
(***************************************************************************)
(* Theorems about SamplePackage, for every host, whatever goes wrong around*)
(* the package or its windows, and for any number of windows: what is      *)
(* proved of the sample's windows (StylesProofs) holds within the life of  *)
(* the package.                                                            *)
(***************************************************************************)
EXTENDS Sequences, SamplePackage, PackageProofs

Styles == INSTANCE StylesProofs WITH Disturbances <- Mishaps

(* The UI thread is in the package, or in a window or in Close.            *)
ThreadsInv ==
  /\ ControlTypeOK /\ LoaderOnlyAsks
  /\ stack # <<>> \/ Closing => pc["ui"] = "idle"

(* The command is registered by each initialize(), with its factory.       *)
RegistryInv ==
  /\ initialized \in Nat
  /\ DOMAIN latest = IF initialized = 0 THEN {} ELSE {cmdidShowStyles}
  /\ initialized > 0 => latest[cmdidShowStyles].number = initialized

(* There is a factory from the first initialize() to the end of Close; the *)
(* command's handler comes neither before nor after, and a window is made  *)
(* with one of the factories there were.                                   *)
LifeInv ==
  /\ initialized > 0 /\ ~closed => factory
  /\ closed => terminated /\ \A p \in Panes : Styles!Gone(p)
  /\ Styles!Begun => initialized > 0 /\ ~closed
  /\ \A p \in Panes : p \notin Sample!Unused => maker[p] \in 1..initialized

(* What is proved of packages that are loaded once.                        *)
LoadedInv ==
  /\ TypeOK /\ ShellSubscribed
  /\ LoadedOnce => LoadInv

CompositionInv ==
  /\ Styles!SampleInv /\ ThreadsInv /\ RegistryInv
  /\ LifeInv /\ LoadedInv /\ maker \in [Panes -> Nat]

-----------------------------------------------------------------------------
(* The steps of the package.                                               *)

(* Loading keeps control in order; only the UI thread's create() makes a   *)
(* factory, and enters the client's initialize() with it.                  *)
LEMMA PackageSteps ==
  ASSUME ControlTypeOK, LoaderOnlyAsks, crashed \in BOOLEAN,
         \/ Initialize \/ SetSite \/ ColorsChange \/ OnBroadcastMessage
         \/ \E t \in Threads : Step(t)
         \/ \E s \in Services : AcquisitionCompletes(s) \/ AcquisitionLost(s) \/ RunContinuation(s)
  PROVE  /\ ControlTypeOK' /\ LoaderOnlyAsks' /\ UNCHANGED closed /\ crashed' \in BOOLEAN
         /\ \/ UNCHANGED <<initialized, factory>>
            \/ initialized' = initialized + 1 /\ factory' = TRUE /\ pc["ui"] # "idle"
<1>. DEFINE Keeps ==
       /\ ControlTypeOK' /\ LoaderOnlyAsks' /\ UNCHANGED closed /\ crashed' \in BOOLEAN
       /\ \/ UNCHANGED <<initialized, factory>>
          \/ initialized' = initialized + 1 /\ factory' = TRUE /\ pc["ui"] # "idle"
<1>a. /\ Threads = {"ui", "loader"} /\ "ui" \in Threads /\ "loader" \in Threads
      /\ {"idle", "obtain", "on_ready", "check", "obtain_shell", "shell_ready", "create"}
           \subseteq Labels
  BY DEF Threads, Labels
<1>b. pc \in [Threads -> Labels]
  BY DEF ControlTypeOK
<1>1. CASE Initialize
  <2>1. ControlTypeOK' /\ pc' = [pc EXCEPT !["loader"] = "obtain"]
    BY <1>1, <1>a, ControlMoves DEF Initialize, StartObtaining
  <2>2. pc'["ui"] = pc["ui"] /\ pc'["loader"] = "obtain" /\ "async" \in providers'
    BY <1>1, <1>a, <1>b, <2>1 DEF Initialize, Stored
  <2>. QED
    BY <1>1, <2>1, <2>2 DEF Initialize, LoaderOnlyAsks
<1>2. CASE SetSite
  <2>1. ControlTypeOK' /\ pc'["loader"] = pc["loader"]
    BY <1>2, <1>a, <1>b, ControlMoves DEF SetSite, StartObtaining, control
  <2>2. "async" \in providers => "async" \in providers'
    BY <1>2 DEF SetSite
  <2>. QED
    BY <1>2, <2>1, <2>2 DEF SetSite, LoaderOnlyAsks
<1>3. CASE ColorsChange \/ OnBroadcastMessage
  <2>1. ControlTypeOK' /\ UNCHANGED pc
    BY <1>3, <1>a, ControlMoves DEF ColorsChange, OnBroadcastMessage, control
  <2>. QED
    BY <1>3, <2>1 DEF ColorsChange, OnBroadcastMessage, LoaderOnlyAsks, members
<1>4. ASSUME NEW s \in Services,
             AcquisitionCompletes(s) \/ AcquisitionLost(s) \/ RunContinuation(s)
      PROVE  Keeps
  <2>1. ControlTypeOK' /\ pc'["loader"] = pc["loader"]
    BY <1>4, <1>a, <1>b, ControlMoves
       DEF AcquisitionCompletes, AcquisitionLost, RunContinuation, EnterContinuation, Goto, control
  <2>. QED
    BY <1>4, <2>1 DEF AcquisitionCompletes, AcquisitionLost, RunContinuation, Elsewhere,
                      LoaderOnlyAsks, members
<1>5. CASE Step("loader")
  <2>1. ObtainRoot("loader") /\ "async" \in providers
    BY <1>5 DEF LoaderOnlyAsks, Step, ObtainRoot, OnRootReady, Check, ObtainShell,
                OnShellReady, Create
  <2>2. Return("loader") \/ Unwind("loader")
    BY <2>1 DEF ObtainRoot, ObtainService, NoProvider
  <2>3. /\ UNCHANGED <<closed, crashed, initialized, factory, providers>>
    BY <2>1 DEF ObtainRoot, ObtainService, NoProvider, members
  <2>4. ControlTypeOK'
    BY <1>a, <2>2, ControlMoves
  <2>5. pc'["ui"] = pc["ui"] /\ pc'["loader"] \in {"idle", "obtain"}
    BY <1>a, <1>b, <2>2 DEF Return, Unwind, Goto
  <2>. QED
    BY <2>1, <2>3, <2>4, <2>5 DEF LoaderOnlyAsks
<1>6. CASE Step("ui")
  <2>1. pc["ui"] # "idle"
    BY <1>6 DEF Step, ObtainRoot, OnRootReady, Check, ObtainShell, OnShellReady, Create
  <2>2. \/ UNCHANGED control \/ Return("ui") \/ Unwind("ui")
        \/ \E label \in Labels : Goto("ui", label)
    BY <1>6, <1>a DEF Step, ObtainRoot, OnRootReady, Check, ObtainShell, OnShellReady, Create,
                      ObtainService, NoProvider, Crash, InitializeBegins
  <2>3. ControlTypeOK'
    BY <1>a, <2>2, ControlMoves
  <2>4. pc'["loader"] = pc["loader"]
    BY <1>a, <1>b, <2>2 DEF Return, Unwind, Goto, control
  <2>5. /\ UNCHANGED <<closed, providers>> /\ crashed' \in BOOLEAN
        /\ \/ UNCHANGED <<initialized, factory>>
           \/ initialized' = initialized + 1 /\ factory' = TRUE
    <3>1. CASE Create("ui")
      BY <3>1 DEF Create
    <3>2. CASE ~Create("ui")
      BY <1>6, <3>2 DEF Step, ObtainRoot, OnRootReady, Check, ObtainShell, OnShellReady,
                        ObtainService, NoProvider, Crash, Subscribe, members
    <3>. QED
      BY <3>1, <3>2
  <2>. QED
    BY <2>1, <2>3, <2>4, <2>5 DEF LoaderOnlyAsks
<1>. QED
  BY <1>a, <1>1, <1>2, <1>3, <1>4, <1>5, <1>6

(* Nothing but a call of the host enters the UI thread's idle package.     *)
LEMMA StaysIdle ==
  ASSUME ControlTypeOK, LoaderOnlyAsks, pc["ui"] = "idle",
         \/ Initialize \/ ColorsChange \/ OnBroadcastMessage
         \/ \E t \in Threads : Step(t)
         \/ \E s \in Services : AcquisitionCompletes(s) \/ AcquisitionLost(s)
  PROVE  pc'["ui"] = "idle"
<1>1. pc \in [Threads -> Labels] /\ Threads = {"ui", "loader"}
  BY DEF ControlTypeOK, Threads
<1>2. ASSUME Step("loader") PROVE pc'["ui"] = pc["ui"]
  <2>1. ObtainRoot("loader") /\ "async" \in providers
    BY <1>2 DEF LoaderOnlyAsks, Step, ObtainRoot, OnRootReady, Check, ObtainShell,
                OnShellReady, Create
  <2>. QED
    BY <1>1, <2>1 DEF ObtainRoot, ObtainService, NoProvider, Return, Unwind, Goto
<1>3. ~Step("ui")
  BY DEF Step, ObtainRoot, OnRootReady, Check, ObtainShell, OnShellReady, Create
<1>4. CASE Initialize
  BY <1>1, <1>4 DEF Initialize, StartObtaining
<1>. QED
  BY <1>1, <1>2, <1>3, <1>4 DEF ColorsChange, OnBroadcastMessage, AcquisitionCompletes,
                                AcquisitionLost, control

(* The package's own invariants outlive its steps and those of others.     *)
LEMMA LoadedStep ==
  ASSUME LoadedInv, Next
  PROVE  LoadedInv'
<1>1. calls \subseteq calls'
  BY DEF Next, Initialize, SetSite, Step, ObtainRoot, OnRootReady, Check, ObtainShell,
         OnShellReady, Create, ObtainService, NoProvider, Crash, Subscribe,
         AcquisitionCompletes, AcquisitionLost, RunContinuation, Elsewhere, ColorsChange,
         OnBroadcastMessage, Close
<1>2. TypeOK' /\ ShellSubscribed'
  BY TypeStep, ShellSubscribedStep DEF LoadedInv
<1>3. LoadedOnce' => LoadedOnce
  BY <1>1 DEF LoadedOnce
<1>. QED
  BY <1>2, <1>3, LoadStep DEF LoadedInv

LEMMA LoadedRests ==
  ASSUME LoadedInv, UNCHANGED package, crashed' \in BOOLEAN
  PROVE  LoadedInv'
<1>1. UNCHANGED <<host, calls, providers, held, factory, subscriptions, pc, subject, more,
                  failed, acquiring, queued, lost, initialized, closed, pending, untold>>
  BY DEF package, members, control, colours
<1>2. TypeOK' /\ ShellSubscribed' /\ (LoadedOnce' => LoadedOnce)
  BY <1>1 DEF LoadedInv, TypeOK, Tasks!TasksTypeOK, ShellSubscribed, LoadedOnce
<1>3. LoadInv => LoadInv'
  <2>1. UNCHANGED <<carried, due, shellDue, InInitialize>>
    BY <1>1 DEF carried, due, shellDue, InInitialize
  <2>2. (LoadBegun => LoadBegun') /\ (NoneDue => NoneDue')
    BY <1>1, <2>1 DEF LoadBegun, NoneDue
  <2>. QED
    BY <1>1, <2>1, <2>2 DEF LoadInv, Untouched, LoaderOnlyAsks, OnceEach, SubscriptionTracked
<1>. QED
  BY <1>2, <1>3 DEF LoadedInv

-----------------------------------------------------------------------------
(* The sample the package is composed with is the one the theorems of      *)
(* StylesProofs are about.                                                 *)

LEMMA SameStart == Sample!Init => Styles!Init
BY DEF Sample!Init, Styles!Init, Sample!PanesInit, Styles!PanesInit

LEMMA SameOpen == Sample!Open = Styles!Open /\ Sample!Unused = Styles!Unused
BY DEF Sample!Open, Styles!Open, Sample!Unused, Styles!Unused

LEMMA SameGone == \A p \in Panes : Sample!Gone(p) <=> Styles!Gone(p)
BY DEF Sample!Gone, Styles!Gone, Sample!Open, Styles!Open

LEMMA SameCommand ==
  /\ Sample!ShowStyles => Styles!ShowStyles
  /\ Sample!Terminate => Styles!Terminate
  /\ \A p \in Panes : /\ Sample!UserCloses(p) => Styles!UserCloses(p)
                      /\ Sample!NotifiesLate(p) => Styles!NotifiesLate(p)
<1>1. Sample!ShowStyles => Styles!ShowStyles
  BY DEF Sample!ShowStyles, Styles!ShowStyles, Sample!Idle, Styles!Idle, Sample!Enabled,
         Styles!Enabled, Sample!Entry, Styles!Entry, Sample!objects, Styles!objects,
         Sample!client, Styles!client
<1>2. Sample!Terminate => Styles!Terminate
  BY DEF Sample!Terminate, Styles!Terminate, Sample!Idle, Styles!Idle, Sample!DropPane,
         Styles!DropPane, Sample!Destruction, Styles!Destruction, Sample!Entry, Styles!Entry,
         Sample!objects, Styles!objects
<1>3. ASSUME NEW p \in Panes, Sample!UserCloses(p) PROVE Styles!UserCloses(p)
  BY <1>3 DEF Sample!UserCloses, Styles!UserCloses, Sample!Idle, Styles!Idle,
              Sample!BeginClosing, Styles!BeginClosing, Sample!Closings, Styles!Closings,
              Sample!Entry, Styles!Entry
<1>4. ASSUME NEW p \in Panes, Sample!NotifiesLate(p) PROVE Styles!NotifiesLate(p)
  BY <1>4 DEF Sample!NotifiesLate, Styles!NotifiesLate, Sample!Idle, Styles!Idle,
              Sample!Entry, Styles!Entry, Sample!objects, Styles!objects
<1>. QED
  BY <1>1, <1>2, <1>3, <1>4

LEMMA SameResume == Sample!Resume => Styles!Resume
<1>. USE DEF Sample!Running, Styles!Running, Sample!Subject, Styles!Subject, Sample!Continue,
             Styles!Continue, Sample!Return, Styles!Return, Sample!Entry, Styles!Entry,
             Sample!Crash, Styles!Crash, Sample!objects, Styles!objects, Sample!client,
             Styles!client
<1>1. Sample!CreatePane => Styles!CreatePane
  BY DEF Sample!CreatePane, Styles!CreatePane, Sample!Unused, Styles!Unused, Sample!Create,
         Styles!Create, Sample!CreatePaneWindow, Styles!CreatePaneWindow, Sample!Advised,
         Styles!Advised, Sample!AssignPane, Styles!AssignPane, Sample!Destruction,
         Styles!Destruction
<1>2. Sample!Furnish => Styles!Furnish
  BY DEF Sample!Furnish, Styles!Furnish, Sample!Usable, Styles!Usable, Sample!Shown,
         Styles!Shown, Sample!CreatePaneWindow, Styles!CreatePaneWindow
<1>3. /\ Sample!FurnishThrows => Styles!FurnishThrows
      /\ Sample!FurnishNothing => Styles!FurnishNothing
  BY DEF Sample!FurnishThrows, Styles!FurnishThrows, Sample!FurnishNothing,
         Styles!FurnishNothing, Sample!Usable, Styles!Usable
<1>4. Sample!Notify => Styles!Notify
  BY DEF Sample!Notify, Styles!Notify, Sample!OnShow, Styles!OnShow, Sample!OnClose,
         Styles!OnClose, Sample!Slot, Styles!Slot, Sample!Destruction, Styles!Destruction,
         Sample!Stands, Styles!Stands, Sample!Unheard, Styles!Unheard
<1>5. Sample!CloseFrame => Styles!CloseFrame
  BY DEF Sample!CloseFrame, Styles!CloseFrame, Sample!Open, Styles!Open, Sample!BeginClosing,
         Styles!BeginClosing, Sample!Closings, Styles!Closings, Sample!LeftAlone,
         Styles!LeftAlone, Sample!Stands, Styles!Stands
<1>6. (Sample!Unadvise => Styles!Unadvise) /\ (Sample!EndMembers => Styles!EndMembers)
  BY DEF Sample!Unadvise, Styles!Unadvise, Sample!Unadvised, Styles!Unadvised,
         Sample!EndMembers, Styles!EndMembers, Sample!Stands, Styles!Stands
<1>7. Sample!ClosePane => Styles!ClosePane
  BY DEF Sample!ClosePane, Styles!ClosePane, Sample!Stands, Styles!Stands
<1>8. Sample!OnTheDestroyed => Styles!OnTheDestroyed
  BY DEF Sample!OnTheDestroyed, Styles!OnTheDestroyed, Sample!OfAPane, Styles!OfAPane,
         Sample!Signals, Styles!Signals, Sample!Stands, Styles!Stands
<1>. QED
  BY <1>1, <1>2, <1>3, <1>4, <1>5, <1>6, <1>7, <1>8
     DEF Sample!Resume, Styles!Resume, Sample!Shell, Styles!Shell

-----------------------------------------------------------------------------
(* The steps of the composition.                                           *)

LEMMA PanesAssumed == Styles!SampleAssumption
BY SamplePackageAssumption
   DEF Styles!SampleAssumption, Sample!AllMishaps, Styles!AllMishaps, IsFiniteSet,
       Styles!IsFiniteSet

(* initialize() registers the command anew, with the number of the factory.*)
LEMMA RegistrationNumbered ==
  ASSUME RegistryInv, Registered, initialized' = initialized + 1
  PROVE  RegistryInv'
<1>1. initialized \in Nat /\ initialized' \in Nat /\ initialized' > 0
  BY DEF RegistryInv
<1>2. Commands!Newest = initialized
  <2>. DEFINE Numbers == {0} \union {latest[id].number : id \in DOMAIN latest}
  <2>1. CASE initialized = 0
    <3>1. Numbers = {0} /\ DOMAIN latest = {}
      BY <2>1 DEF RegistryInv
    <3>. QED
      BY <2>1, <3>1 DEF Commands!Newest
  <2>2. CASE initialized > 0
    <3>1. DOMAIN latest = {cmdidShowStyles} /\ latest[cmdidShowStyles].number = initialized
      BY <1>1, <2>2 DEF RegistryInv
    <3>2. Numbers = {0, initialized}
      BY <3>1
    <3>3. /\ initialized \in Numbers
          /\ \A id \in DOMAIN latest : latest[id].number <= initialized
      BY <1>1, <3>1, <3>2
    <3>4. ASSUME NEW n \in Numbers, \A id \in DOMAIN latest : latest[id].number <= n
          PROVE  n = initialized
      BY <1>1, <2>2, <3>1, <3>2, <3>4
    <3>. HIDE DEF Numbers
    <3>5. initialized = CHOOSE n \in Numbers : \A id \in DOMAIN latest : latest[id].number <= n
      BY <3>3, <3>4
    <3>. QED
      BY <3>5 DEF Commands!Newest, Numbers
  <2>. QED
    BY <1>1, <2>1, <2>2
<1>3. latest' = [i \in DOMAIN latest \union {cmdidShowStyles} |->
                   IF i = cmdidShowStyles
                   THEN [is_group |-> FALSE, number |-> initialized'] ELSE latest[i]]
  BY <1>2 DEF Registered, Commands!Register
<1>4. DOMAIN latest \union {cmdidShowStyles} = {cmdidShowStyles}
  BY DEF RegistryInv
<1>5. DOMAIN latest' = {cmdidShowStyles} /\ latest'[cmdidShowStyles].number = initialized'
  BY <1>3, <1>4
<1>. QED
  BY <1>1, <1>5 DEF RegistryInv

(* What the package does leaves the windows alone.                         *)
LEMMA PackageStep ==
  ASSUME CompositionInv, ~crashed, Load \/ Host
  PROVE  CompositionInv'
<1>1. /\ \/ Initialize /\ ~Closing
         \/ SetSite /\ UIThreadFree
         \/ ColorsChange \/ OnBroadcastMessage
         \/ \E t \in Threads : Step(t)
         \/ \E s \in Services : \/ AcquisitionCompletes(s) \/ AcquisitionLost(s)
                                \/ RunContinuation(s) /\ UIThreadFree
      /\ UNCHANGED <<sample, maker>>
  BY DEF Load, Host
<1>2. /\ Styles!SampleInv /\ ControlTypeOK /\ LoaderOnlyAsks /\ crashed \in BOOLEAN
      /\ initialized \in Nat
  BY DEF CompositionInv, ThreadsInv, RegistryInv, Styles!SampleInv, Styles!PanesInv,
         Styles!PanesTypeOK
<1>3. /\ ControlTypeOK' /\ LoaderOnlyAsks' /\ UNCHANGED closed /\ crashed' \in BOOLEAN
      /\ \/ UNCHANGED <<initialized, factory>>
         \/ initialized' = initialized + 1 /\ factory' = TRUE /\ pc["ui"] # "idle"
  BY <1>1, <1>2, PackageSteps
<1>4. Styles!SampleInv'
  <2>1. UNCHANGED <<Styles!objects, stack, Styles!client>>
    BY <1>1 DEF sample, Styles!objects, Styles!client
  <2>. QED
    BY <1>2, <1>3, <2>1, PanesAssumed, Styles!CrashKeeps DEF Styles!SampleAssumption
<1>5. /\ UNCHANGED <<stack, terminated, Styles!Begun, Sample!Unused, Closing>>
      /\ \A p \in Panes : UNCHANGED Styles!Gone(p)
  BY <1>1, <1>3 DEF sample, Styles!Begun, Styles!Waits, Styles!Pending, Styles!Elements,
                    Styles!Call, Sample!Unused, Closing, Styles!Gone, Styles!Open
<1>6. ThreadsInv'
  <2>1. SUFFICES ASSUME stack # <<>> \/ Closing PROVE pc'["ui"] = "idle"
    BY <1>3, <1>5 DEF ThreadsInv
  <2>2. pc["ui"] = "idle" /\ ~UIThreadFree
    BY <2>1 DEF CompositionInv, ThreadsInv, UIThreadFree
  <2>3. \/ Initialize \/ ColorsChange \/ OnBroadcastMessage
        \/ \E t \in Threads : Step(t)
        \/ \E s \in Services : AcquisitionCompletes(s) \/ AcquisitionLost(s)
    BY <1>1, <2>2
  <2>. QED
    BY <1>2, <2>2, <2>3, StaysIdle
<1>7. RegistryInv'
  <2>1. CASE UNCHANGED initialized
    <3>1. UNCHANGED latest
      BY <2>1 DEF Load, Host
    <3>. QED
      BY <2>1, <3>1 DEF CompositionInv, RegistryInv
  <2>2. CASE initialized' = initialized + 1
    <3>1. initialized' # initialized
      BY <1>2, <2>2
    <3>2. Registered
      BY <3>1 DEF Load, Host, ColorsChange, OnBroadcastMessage, AcquisitionCompletes,
                  AcquisitionLost, Elsewhere
    <3>. QED
      BY <2>2, <3>2, RegistrationNumbered DEF CompositionInv
  <2>. QED
    BY <1>3, <2>1, <2>2
<1>8. LifeInv'
  <2>1. /\ initialized' \in Nat
        /\ initialized > 0 => initialized' > 0
        /\ initialized' > 0 => \/ initialized > 0 /\ UNCHANGED factory
                               \/ factory' = TRUE
        /\ 1..initialized \subseteq 1..initialized'
    BY <1>2, <1>3
  <2>2. LifeInv
    BY DEF CompositionInv
  <2>. QED
    BY <1>1, <1>3, <1>5, <2>1, <2>2 DEF LifeInv
<1>9. Next
  BY <1>1 DEF Next
<1>. QED
  BY <1>1, <1>4, <1>6, <1>7, <1>8, <1>9, LoadedStep DEF CompositionInv

(* The windows go on as in StylesProofs; all but the command begin no pane.*)
LEMMA SampleSteps ==
  ASSUME Styles!SampleInv, ~crashed,
         \/ (Sample!ShowStyles /\ Sample!Unused # {}) \/ Sample!Terminate \/ Sample!Resume
         \/ \E p \in Panes : /\ Sample!UserCloses(p) \/ Sample!NotifiesLate(p)
                             /\ UNCHANGED <<active, connected, terminated>>
  PROVE  Styles!SampleInv'
<1>1. \/ (Styles!ShowStyles /\ Styles!Unused # {}) \/ Styles!Terminate \/ Styles!Resume
      \/ \E p \in Panes : /\ Styles!UserCloses(p) \/ Styles!NotifiesLate(p)
                          /\ UNCHANGED Styles!client
  BY SameCommand, SameResume, SameOpen DEF Styles!client
<1>2. Styles!Next
  BY <1>1 DEF Styles!Next, Styles!User
<1>. QED
  BY <1>2, PanesAssumed, Styles!SampleStep DEF Styles!SampleAssumption

LEMMA OtherSteps ==
  ASSUME Styles!SampleInv,
         \/ Sample!Terminate \/ Sample!Resume
         \/ \E p \in Panes : /\ Sample!UserCloses(p) \/ Sample!NotifiesLate(p)
                             /\ UNCHANGED <<active, connected, terminated>>
  PROVE  /\ Styles!Begun' => Styles!Begun
         /\ Sample!Unused \subseteq Sample!Unused' \/ Styles!Begun
<1>1. \/ Styles!Terminate \/ Styles!Resume
      \/ \E p \in Panes : /\ Styles!UserCloses(p) \/ Styles!NotifiesLate(p)
                          /\ UNCHANGED Styles!client
  BY SameCommand, SameResume DEF Styles!client
<1>2. /\ Styles!Begun' => Styles!Begun
      /\ Styles!Unused \subseteq Styles!Unused' \/ Styles!Begun
  BY <1>1, PanesAssumed, Styles!BegunByCommand DEF Styles!SampleAssumption
<1>3. Sample!Unused = Styles!Unused /\ Sample!Unused' = Styles!Unused'
  BY DEF Sample!Unused, Styles!Unused
<1>. QED
  BY <1>2, <1>3

LEMMA NothingComesBack ==
  ASSUME Styles!SampleInv, ~Styles!Begun, \A p \in Panes : Styles!Gone(p),
         \/ Sample!Resume
         \/ \E p \in Panes : /\ Sample!UserCloses(p) \/ Sample!NotifiesLate(p)
                             /\ UNCHANGED <<active, connected, terminated>>
  PROVE  \A p \in Panes : Styles!Gone(p)'
<1>1. \/ Styles!Resume
      \/ \E p \in Panes : /\ Styles!UserCloses(p) \/ Styles!NotifiesLate(p)
                          /\ UNCHANGED Styles!client
  BY SameCommand, SameResume DEF Styles!client
<1>. QED
  BY <1>1, PanesAssumed, Styles!GoneForGood DEF Styles!SampleAssumption

(* When no call is under way after terminate() nothing is left.            *)
LEMMA NoneIsLeft ==
  ASSUME Styles!SampleInv, stack = <<>>, terminated
  PROVE  \A p \in Panes : Styles!Gone(p)
BY PanesAssumed, Styles!AllTakenDown DEF Styles!SampleAssumption, Styles!Idle

(* The package's side of the invariant, when only the windows have moved.  *)
LEMMA PackageRests ==
  ASSUME CompositionInv, UNCHANGED <<package, latest>>, Styles!SampleInv'
  PROVE  /\ UNCHANGED <<calls, factory, initialized, closed>> /\ initialized \in Nat
         /\ ControlTypeOK' /\ LoaderOnlyAsks' /\ UNCHANGED pc
         /\ RegistryInv' /\ LoadedInv'
<1>1. UNCHANGED <<calls, providers, factory, pc, subject, more, failed, initialized, closed>>
  BY DEF package, members, control
<1>2. crashed' \in BOOLEAN
  BY DEF Styles!SampleInv, Styles!PanesInv, Styles!PanesTypeOK
<1>3. LoadedInv'
  BY <1>2, LoadedRests DEF CompositionInv
<1>4. initialized \in Nat /\ RegistryInv'
  BY <1>1 DEF CompositionInv, RegistryInv
<1>5. ControlTypeOK' /\ LoaderOnlyAsks'
  BY <1>1 DEF CompositionInv, ThreadsInv, ControlTypeOK, LoaderOnlyAsks
<1>. QED
  BY <1>1, <1>3, <1>4, <1>5

(* Nothing moves but, perhaps, crashed.                                    *)
LEMMA NothingElse ==
  ASSUME CompositionInv, UNCHANGED <<package, sample, latest, maker>>, crashed' \in BOOLEAN
  PROVE  CompositionInv'
<1>1. Styles!SampleInv'
  <2>1. UNCHANGED <<Styles!objects, stack, Styles!client>>
    BY DEF sample, Styles!objects, Styles!client
  <2>. QED
    BY <2>1, PanesAssumed, Styles!CrashKeeps DEF CompositionInv, Styles!SampleAssumption
<1>2. /\ UNCHANGED <<factory, initialized, closed, pc>>
      /\ ControlTypeOK' /\ LoaderOnlyAsks' /\ RegistryInv' /\ LoadedInv'
  BY <1>1, PackageRests
<1>3. /\ UNCHANGED <<stack, terminated, Styles!Begun, Sample!Unused, maker>>
      /\ \A p \in Panes : UNCHANGED Styles!Gone(p)
  BY DEF sample, Styles!Begun, Styles!Waits, Styles!Pending, Styles!Elements, Styles!Call,
         Sample!Unused, Styles!Gone, Styles!Open
<1>4. ThreadsInv' /\ LifeInv'
  BY <1>2, <1>3 DEF CompositionInv, ThreadsInv, LifeInv, Closing
<1>. QED
  BY <1>1, <1>2, <1>3, <1>4 DEF CompositionInv

(* The command, what the user closes and what the shell is late with, from *)
(* the idle UI thread.                                                     *)
LEMMA UserStep ==
  ASSUME CompositionInv, ~crashed, User
  PROVE  CompositionInv'
<1>1. /\ UIThreadFree /\ UNCHANGED <<package, latest, maker, terminated>>
      /\ \/ Sample!ShowStyles /\ Sample!Unused # {} /\ cmdidShowStyles \in DOMAIN latest
         \/ \E p \in Panes : /\ Sample!UserCloses(p) \/ Sample!NotifiesLate(p)
                             /\ UNCHANGED <<active, connected, terminated>>
  BY DEF User, Sample!ShowStyles, Sample!client
<1>2. Styles!SampleInv'
  BY <1>1, SampleSteps DEF CompositionInv
<1>3. /\ UNCHANGED <<calls, factory, initialized, closed>> /\ initialized \in Nat
      /\ ControlTypeOK' /\ LoaderOnlyAsks' /\ UNCHANGED pc
      /\ RegistryInv' /\ LoadedInv'
  BY <1>1, <1>2, PackageRests
<1>4. ThreadsInv'
  BY <1>1, <1>3 DEF ThreadsInv, UIThreadFree
<1>5. LifeInv /\ Styles!SampleInv /\ maker' \in [Panes -> Nat]
  BY <1>1 DEF CompositionInv
<1>6. ~Styles!Begun
  BY <1>1, Styles!NothingWaits, PanesAssumed
     DEF UIThreadFree, Styles!Begun, Styles!Idle, Styles!SampleAssumption
<1>7. LifeInv'
  <2>1. CASE Sample!ShowStyles /\ cmdidShowStyles \in DOMAIN latest
    <3>1. initialized > 0
      BY <2>1 DEF CompositionInv, RegistryInv
    <3>2. UNCHANGED Sample!Unused
      BY <2>1 DEF Sample!ShowStyles, Sample!objects, Sample!Unused
    <3>3. ~closed
      BY <1>5, <2>1 DEF Sample!ShowStyles, LifeInv
    <3>. QED
      BY <1>1, <1>3, <1>5, <3>1, <3>2, <3>3 DEF LifeInv
  <2>2. CASE \E p \in Panes : /\ Sample!UserCloses(p) \/ Sample!NotifiesLate(p)
                              /\ UNCHANGED <<active, connected, terminated>>
    <3>1. ~Styles!Begun' /\ Sample!Unused \subseteq Sample!Unused'
      BY <1>5, <1>6, <2>2, OtherSteps
    <3>2. closed => \A p \in Panes : Styles!Gone(p)'
      <4>1. SUFFICES ASSUME closed PROVE \A p \in Panes : Styles!Gone(p)'
        OBVIOUS
      <4>2. \A p \in Panes : Styles!Gone(p)
        BY <1>5, <4>1 DEF LifeInv
      <4>. QED
        BY <1>5, <1>6, <2>2, <4>2, NothingComesBack
    <3>. QED
      BY <1>1, <1>3, <1>5, <3>1, <3>2 DEF LifeInv
  <2>. QED
    BY <1>1, <2>1, <2>2
<1>. QED
  BY <1>2, <1>3, <1>4, <1>5, <1>7 DEF CompositionInv

(* The windows' calls go on, before, within and after Close.               *)
LEMMA ResumeStep ==
  ASSUME CompositionInv, ~crashed, Resume
  PROVE  CompositionInv'
<1>1. /\ Styles!SampleInv /\ ThreadsInv /\ RegistryInv /\ LifeInv /\ maker \in [Panes -> Nat]
      /\ Sample!Resume /\ UNCHANGED <<package, latest>>
      /\ maker' = [p \in Panes |-> IF p \in Sample!Unused /\ p \notin Sample!Unused'
                                   THEN latest[cmdidShowStyles].number ELSE maker[p]]
  BY DEF CompositionInv, Resume
<1>2. /\ Styles!SampleInv'
      /\ Styles!Begun' => Styles!Begun
      /\ Sample!Unused \subseteq Sample!Unused' \/ Styles!Begun
  BY <1>1, SampleSteps, OtherSteps
<1>3. /\ UNCHANGED <<calls, factory, initialized, closed>> /\ initialized \in Nat
      /\ ControlTypeOK' /\ LoaderOnlyAsks' /\ UNCHANGED pc
      /\ RegistryInv' /\ LoadedInv'
  BY <1>1, <1>2, PackageRests
<1>4. stack # <<>> /\ UNCHANGED terminated
  <2>1. stack # <<>>
    BY <1>1 DEF Sample!Resume, Sample!CreatePane, Sample!Furnish, Sample!FurnishThrows,
                Sample!FurnishNothing, Sample!Notify, Sample!OnShow, Sample!Unheard,
                Sample!Shell, Sample!CloseFrame, Sample!Unadvise, Sample!EndMembers,
                Sample!ClosePane, Sample!OnTheDestroyed, Sample!Running
  <2>2. UNCHANGED terminated
    BY <1>1 DEF Sample!Resume, Sample!CreatePane, Sample!Furnish, Sample!FurnishThrows,
                Sample!FurnishNothing, Sample!Notify, Sample!OnClose, Sample!client
  <2>. QED
    BY <2>1, <2>2
<1>5. ThreadsInv'
  BY <1>1, <1>3, <1>4 DEF ThreadsInv
<1>6. ASSUME NEW p \in Panes, p \notin Sample!Unused'
      PROVE  maker'[p] \in 1..initialized
  <2>1. CASE p \in Sample!Unused
    <3>1. initialized > 0
      BY <1>1, <1>2, <1>6, <2>1 DEF LifeInv
    <3>2. maker'[p] = initialized
      BY <1>1, <1>6, <2>1, <3>1 DEF RegistryInv
    <3>. QED
      BY <1>3, <3>1, <3>2
  <2>2. CASE p \notin Sample!Unused
    BY <1>1, <2>2 DEF LifeInv
  <2>. QED
    BY <2>1, <2>2
<1>7. maker' \in [Panes -> Nat]
  <2>1. ASSUME NEW p \in Panes PROVE maker'[p] \in Nat
    <3>1. p \in Sample!Unused' => maker'[p] = maker[p]
      BY <1>1
    <3>. QED
      BY <1>1, <1>3, <1>6, <3>1
  <2>. QED
    BY <1>1, <2>1
<1>8. closed => \A p \in Panes : Styles!Gone(p)'
  <2>1. SUFFICES ASSUME closed PROVE \A p \in Panes : Styles!Gone(p)'
    OBVIOUS
  <2>2. ~Styles!Begun /\ \A p \in Panes : Styles!Gone(p)
    BY <1>1, <2>1 DEF LifeInv
  <2>. QED
    BY <1>1, <2>2, NothingComesBack
<1>9. LifeInv'
  BY <1>1, <1>2, <1>3, <1>4, <1>6, <1>8 DEF LifeInv
<1>. QED
  BY <1>2, <1>3, <1>5, <1>7, <1>9 DEF CompositionInv

(* Close, from its terminate() to its end.                                 *)
LEMMA CloseStep ==
  ASSUME CompositionInv, ~crashed, BeginClose \/ EndClose
  PROVE  CompositionInv'
<1>1. /\ Styles!SampleInv /\ ThreadsInv /\ RegistryInv /\ LifeInv /\ LoadedInv
      /\ maker \in [Panes -> Nat] /\ UNCHANGED <<latest, maker>>
  BY DEF CompositionInv, BeginClose, EndClose
<1>2. CASE BeginClose
  <2>1. /\ Sample!Terminate /\ UNCHANGED <<package, latest, maker>>
        /\ MayClose /\ ~closed /\ pc["ui"] = "idle"
    BY <1>2 DEF BeginClose, MayClose, UIThreadFree
  <2>2. /\ Styles!SampleInv'
        /\ Styles!Begun' => Styles!Begun
        /\ Sample!Unused \subseteq Sample!Unused' \/ Styles!Begun
    BY <1>1, <2>1, SampleSteps, OtherSteps
  <2>3. /\ UNCHANGED <<calls, factory, initialized, closed>> /\ initialized \in Nat
        /\ ControlTypeOK' /\ LoaderOnlyAsks' /\ UNCHANGED pc
        /\ RegistryInv' /\ LoadedInv'
    BY <2>1, <2>2, PackageRests
  <2>4. ThreadsInv'
    BY <2>1, <2>3 DEF ThreadsInv
  <2>5. UNCHANGED Sample!Unused
    BY <2>1 DEF Sample!Terminate, Sample!objects, Sample!Unused
  <2>6. LifeInv'
    BY <1>1, <2>1, <2>2, <2>3, <2>5 DEF LifeInv
  <2>. QED
    BY <1>1, <2>2, <2>3, <2>4, <2>6 DEF CompositionInv
<1>3. CASE EndClose
  <2>1. /\ terminated /\ stack = <<>> /\ Close /\ MayClose /\ UNCHANGED <<sample, latest, maker>>
    BY <1>3 DEF EndClose, TerminateReturned, Close
  <2>2. (\A p \in Panes : Styles!Gone(p)) /\ ~Styles!Begun
    <3>1. \A p \in Panes : Styles!Gone(p)
      BY <1>1, <2>1, NoneIsLeft
    <3>. QED
      BY <2>1, <3>1, Styles!NothingWaits, PanesAssumed
         DEF Styles!Begun, Styles!Idle, Styles!SampleAssumption
  <2>3. /\ UNCHANGED <<stack, terminated, crashed, Styles!Begun, Sample!Unused>>
        /\ \A p \in Panes : UNCHANGED Styles!Gone(p)
    BY <2>1 DEF Close, sample, Styles!Begun, Styles!Waits, Styles!Pending, Styles!Elements,
                Styles!Call, Sample!Unused, Styles!Gone, Styles!Open
  <2>4. Styles!SampleInv'
    <3>1. UNCHANGED <<Styles!objects, stack, Styles!client>>
      BY <2>1 DEF sample, Styles!objects, Styles!client
    <3>2. crashed' \in BOOLEAN
      BY <1>1, <2>3 DEF Styles!SampleInv, Styles!PanesInv, Styles!PanesTypeOK
    <3>. QED
      BY <1>1, <3>1, <3>2, PanesAssumed, Styles!CrashKeeps DEF Styles!SampleAssumption
  <2>5. ThreadsInv'
    <3>1. pc["ui"] = "idle" /\ pc["loader"] = "idle" /\ UNCHANGED control
      BY <2>1 DEF Close, MayClose, Threads
    <3>. QED
      BY <1>1, <3>1 DEF ThreadsInv, ControlTypeOK, LoaderOnlyAsks, control
  <2>6. RegistryInv' /\ UNCHANGED initialized
    BY <1>1, <2>1 DEF RegistryInv, Close
  <2>7. LifeInv'
    <3>1. closed' = TRUE /\ terminated' /\ ~Styles!Begun' /\ \A p \in Panes : Styles!Gone(p)'
      BY <2>1, <2>2, <2>3 DEF Close
    <3>. QED
      BY <1>1, <2>3, <2>6, <3>1 DEF LifeInv
  <2>8. LoadedInv'
    BY <1>1, <2>1, LoadedStep DEF Next
  <2>. QED
    BY <1>1, <2>4, <2>5, <2>6, <2>7, <2>8 DEF CompositionInv
<1>. QED
  BY <1>2, <1>3

LEMMA CompositionStart == SampleInit => CompositionInv
<1>. SUFFICES ASSUME SampleInit PROVE CompositionInv
  OBVIOUS
<1>1. Styles!SampleInv
  BY SameStart, PanesAssumed, Styles!SampleStart DEF SampleInit, Styles!SampleAssumption
<1>2. /\ stack = <<>> /\ Sample!Unused = Panes /\ maker = [p \in Panes |-> 0]
      /\ closed = FALSE /\ initialized = 0 /\ latest = [id \in {} |-> {}]
  BY DEF SampleInit, Init, Sample!Init, Sample!PanesInit, Sample!Unused, Commands!Init
<1>3. ThreadsInv
  BY <1>2 DEF SampleInit, Init, ThreadsInv, ControlTypeOK, LoaderOnlyAsks, Labels,
              RootServices, Threads
<1>4. RegistryInv
  BY <1>2 DEF RegistryInv
<1>5. ~Styles!Begun
  BY <1>2, Styles!NothingWaits, PanesAssumed
     DEF Styles!Begun, Styles!Idle, Styles!SampleAssumption
<1>6. LoadedInv
  BY TypeInit, LoadInit DEF SampleInit, LoadedInv
<1>7. LifeInv /\ maker \in [Panes -> Nat]
  BY <1>2, <1>5 DEF LifeInv
<1>. QED
  BY <1>1, <1>3, <1>4, <1>6, <1>7 DEF CompositionInv

LEMMA CompositionStep == CompositionInv /\ [SampleNext]_sampleVars => CompositionInv'
<1>. SUFFICES ASSUME CompositionInv, [SampleNext]_sampleVars PROVE CompositionInv'
  OBVIOUS
<1>1. CASE SampleNext
  BY <1>1, PackageStep, UserStep, ResumeStep, CloseStep DEF SampleNext
<1>2. CASE UNCHANGED sampleVars
  <2>1. UNCHANGED <<vars, sample, latest, maker>>
    BY <1>2 DEF sampleVars
  <2>2. crashed' \in BOOLEAN
    BY <2>1 DEF vars, CompositionInv, Styles!SampleInv, Styles!PanesInv, Styles!PanesTypeOK
  <2>3. UNCHANGED package
    BY <2>1 DEF vars, package
  <2>. QED
    BY <2>1, <2>2, <2>3, NothingElse
<1>. QED
  BY <1>1, <1>2

LEMMA CompositionAlways == SampleSpec => []CompositionInv
BY CompositionStart, CompositionStep, PTL DEF SampleSpec

-----------------------------------------------------------------------------
(* The theorems.                                                           *)

(* The handler of the command, which refers to the factory it was          *)
(* registered with, runs with that factory, whichever way and however often*)
(* the host loads the package and whatever fails meanwhile.                *)
THEOREM HandlerRunsWithItsFactory == SampleSpec => []HandlerHasItsFactory
<1>1. ASSUME CompositionInv, NEW i \in DOMAIN stack, stack[i].at \in {"create", "furnish"}
      PROVE  factory /\ latest[cmdidShowStyles].number = initialized
  <2>1. stack \in Seq(Styles!Calls)
    BY <1>1 DEF CompositionInv, Styles!SampleInv, Styles!PanesInv
  <2>2. stack[i] = Styles!Call(stack[i].at, NoPane)
    <3>1. stack[i] \in Styles!Calls /\ stack[i] \notin Styles!PaneCalls
      BY <1>1, <2>1 DEF Styles!PaneCalls, Styles!OfAPane
    <3>. QED
      BY <3>1 DEF Styles!Calls, Styles!Call
  <2>3. Styles!Begun
    BY <1>1, <2>2 DEF Styles!Begun, Styles!Waits, Styles!Pending, Styles!Elements
  <2>. QED
    BY <1>1, <2>3 DEF CompositionInv, LifeInv, RegistryInv
<1>2. CompositionInv => HandlerHasItsFactory
  BY <1>1 DEF HandlerHasItsFactory
<1>. QED
  BY <1>2, CompositionAlways, PTL

(* There is no window without a factory, which is the one the window was   *)
(* made with whenever the package is loaded in one way only; and from the  *)
(* end of Close on nothing of the sample is left, however late the shell's *)
(* notifications and the package's services are.                           *)
THEOREM WindowsGoBeforeFactory == SampleSpec => []NothingOutlivesFactory
<1>1. ASSUME CompositionInv PROVE NothingOutlivesFactory
  <2>1. ASSUME NEW p \in Sample!Open
        PROVE  factory /\ (maker[p] = initialized \/ {"Initialize", "SetSite"} \subseteq calls)
    <3>1. /\ p \in Panes /\ p \notin Sample!Unused /\ p \in Styles!Open
          /\ LifeInv /\ initialized \in Nat
      BY <1>1, <2>1, SameOpen DEF Sample!Open, Sample!Unused, CompositionInv, RegistryInv
    <3>2. maker[p] \in 1..initialized /\ initialized > 0
      BY <3>1 DEF LifeInv
    <3>3. factory
      BY <3>1, <3>2 DEF LifeInv, Styles!Gone
    <3>4. initialized <= 1 \/ {"Initialize", "SetSite"} \subseteq calls
      BY <1>1 DEF CompositionInv, LoadedInv, LoadedOnce, LoadInv, OnceEach
    <3>. QED
      BY <3>1, <3>2, <3>3, <3>4
  <2>2. closed => \A p \in Panes : Sample!Gone(p)
    BY <1>1, SameGone DEF CompositionInv, LifeInv
  <2>. QED
    BY <2>1, <2>2 DEF NothingOutlivesFactory
<1>2. CompositionInv => NothingOutlivesFactory
  BY <1>1
<1>. QED
  BY <1>2, CompositionAlways, PTL

==============================================================================
