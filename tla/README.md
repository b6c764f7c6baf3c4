# Verification of wpl.vs

wpl.vs lets a C++ program that draws its own user interface live inside Visual
Studio: as a package the shell loads, with tool windows and menu commands.
This directory holds TLA+ models of its core, the TLC runs that check them, and
proofs for TLAPS. Sources are named relative to the repository's root.

## The system

| Part | Source | State | Operations |
|---|---|---|---|
| Package | `src/package.cpp`, `wpl/vs/package.h` | two service providers, three services, the factory, the broadcast cookie | `Initialize`, `SetSite`, the service lambdas, `initialize`, `OnBroadcastMessage`, `Close` |
| Tasks | `src/async.cpp` | task bodies waiting in the shell's scheduler | `when_complete`, `DoWork` |
| Command target | `src/ole-command-target.cpp` | a vector of commands sorted by id, a cached name | `add_command`, `QueryStatus`, `Exec` |
| Factory | `src/factory.cpp` | the shell, the next tool id | `create_pane`, `create_modal` |
| Pane | `src/pane.cpp` | a view host | `CreatePaneWindow`, `ClosePane`, `set_root` |
| Frame | `src/frame.cpp` | the shell's window, a pane by reference, a listener's cookie | constructor, destructor, `set_root`, `set_visible`, ... |
| COM objects | `src/CComObjectEx.h`, `wpl/vs/com.h` | a reference count per object, the module's lock count | `CreateInstance`, `AddRef`, `Release`, `FinalConstruct` |
| Sample | `samples/styles-discover` | the active pane, a slot on its close signal | the command and its state, `terminate`, `DllCanUnloadNow` |

How they meet: the shell calls the package to load it; the package asks the
shell for services, directly or by tasks, and when it has the two it needs it
builds the factory and calls its client (the derived class). The client
registers commands with a command target, which the shell queries and
executes. A command's handler makes panes through the factory; the client owns
the frame, the shell owns the pane, and each refers to the other. `Close`
calls the client's `terminate()`, then lets everything go. Packages, panes and
task bodies are COM objects; a task body holds the package it will call back.

What is hard about it:

* a load happens on a background thread and in continuations on the UI thread,
  in whatever order the services arrive, possibly after the package is closed;
* the same lambdas serve a synchronous host, in which they nest in one call;
* most results of the shell's calls are ignored or may be null;
* destroying a frame closes the shell's window, which calls back into the frame
  being destroyed, and from there into the client;
* a package may be released last by whatever thread drops a task body, and
  only the lock count keeps its code loaded;
* modal forms disable their owner and are dropped in any order, by the client;
* the lookup of a command rests on the vector's order, and a batch query stops
  in the middle.

`PROJECT.json` lists these hazards one by one, each at its line, with the
properties that cover it.

## The modules

**Package** (with **Async**). One variable per member that matters, a program
counter for each of the two threads, and the environment's part: outstanding
tasks, the shell's list of broadcast listeners, the system colours. An action is
a stretch of code between two points where the package calls out or the other
thread may come in: `ObtainRoot` is a call of `obtain_service` in
`obtain_root_services`, `OnRootReady` and `Check` the two statements of either
lambda, `ObtainShell` the request in `initialize()`, `OnShellReady` its lambda,
`Create` the rest of `initialize()`. Whether `obtain_service` goes on at once or
runs its callback inside is decided, as in the code, by which provider the
package holds. `Async` counts tasks per service: acquisitions under way and
bodies waiting for the UI thread; `lost` remembers the services an answer of which
never came, so that liveness can say what it hangs on.

What may go wrong is the constant `Disturbances`, so that each run says what its
property withstands: `missing` (a null service), `lost` (a task faults or its
result is no interface), `refused` (`QueryServiceAsync` fails), `throws`
(`create_stylesheet` or the client), `no_version` (the version cannot be read),
`racing_close` (the host closes while a service is on the way). Assumed of the
host: it calls each loading entry point at most once and `Close` at most once,
it does not close from within a load, and it runs bodies on the UI thread, where
`VSTC_UITHREAD_NORMAL_PRIORITY` puts them. That it may close while tasks are outstanding is not
excluded by anything in the code: `Initialize` hands it no task to wait for.
A null pointer that is dereferenced ends the process (`crashed`): `catch (...)`
does not stop an access violation. A version that is no number leaves `v`
indeterminate, so `SetSite` goes either way; without a shell it leaves at once.
`untold` remembers a change of colours of which `_update_styles` was not raised. What
the client does with that signal is not modelled: the sample ignores it.

**ClientLifecycle** is what the package promises its client: `initialize` is
entered at most once and not after `terminate`. `Package` implements it
(`ClientContract`), with `initialized` and `closed` for its two variables.

**CommandTarget**. The vector of commands, where a command is its id, whether it
is a group, and the number of its registration, by which the properties tell
equal ids apart. `QueryStatus` takes a step per handler it calls: `AnswerState`
and `GiveUp` for `query_state` (or a lookup that fails), `AnswerName`,
`RefuseName` and `ThrowFromName` for `get_name`. Ids are integers of width given
by `IntMax`, and a DWORD becomes an int as it does in the call of `get_command`.
States are sets of flags, names their two lengths.

**CommandMap** is its abstract specification, a map from ids to the latest
command registered for each. The vector and `std::upper_bound` implement it
(`ImplementsMap`), and `get_command` finds what the map says (`LookupServes`).

**Panes** has the objects a call of `create_pane` leaves behind: the shell's
window, the `pane_impl` it owns with its host, the client's `frame` and the
listener. All of it runs on one thread, so concurrency is re-entrance, and the
state includes the call stack: entries are what calls under way have yet to do.
`~frame` is three of them, `CloseFrame`, `Unadvise` and the end of its members, and
`CloseFrame` on an open window pushes the shell's notification and `ClosePane`, in
either order since the code relies on neither. Each of these runs on an object, a
frame or a `pane_impl`, which may have been destroyed meanwhile: `Stands` says whether it
was, and `OnTheDestroyed` takes the step all the same, as the code would, and ends the model
(`crashed`). The shell may also notify of a window long closed, to whatever listener
it has (`NotifiesLate`). What a frame is given to show is not in the state. What a slot does when the
listener's `OnShow` raises a signal is up to the client, and two modules extend this one.

**StylesDiscover** is the sample, the client the repository has. Its close slot
drops the active pane and, if it was the last reference, pushes its destructor.
`AssignPane` has the order of `shared_ptr`'s assignment: the new pane is in place when
the old one goes. Disturbances here are `refused` (no window), `unheard` (`Advise`
fails), `lazy` (the pane is created when first shown), `repeats` (a second
notification when `CloseFrame` is called on a closing window, and late ones of a closed window), `throws` and `stale`
(the command runs although it was disabled meanwhile).

**Factory** is a client that keeps any number of panes, with `create_pane` counting
its tool ids up to `Modulus` from an indeterminate start. It shows, hides and uses panes, and drops one, or two in either order, whenever it likes or
from inside the slots of `close` and `activated`. It drops what is closed in the
slot of `close`, as the sample does: a client that kept it would refer to a destroyed `pane_impl`.

**ModalForms** is `create_modal` and its deleter. `owners` is the chain of windows
above a form; Windows destroys a form together with those it owns. `create_form` and
`create_modal` each ask the shell for a window and are taken to get the same answer. `contested` remembers the
windows that were given a form while disabled by another.

**ComObject** is the life of COM objects: `CreateInstance` in its steps, `AddRef`
and `Release`, with the decrement and `delete this` apart since other threads run in
between. The steps are read from `CComObjectEx`, which makes `pane_impl` only; packages
and task bodies are made of ATL's `CComObject`, which is not in the repository and is
taken to do the same. Clients are `CComPtr`s of the host, of threads, of creators; a body's own
is the `self` in its lambda, and a body that runs copies it, though it may be the last there is. The lock count moves in constructors and destructors,
and COM may unload the module whenever it is zero.

**SamplePackage** composes `Package`, `StylesDiscover` (as `Sample`) and
`CommandMap` (as `Commands`, for the one command): `initialize` registers a command whose handler
refers to the factory made with it, a window remembers the factory it was made with (`maker`), `Close` begins with the sample's `terminate()`,
and the two meet on the UI thread, which does one thing at a time. Each action is
one of a part with the others unchanged or, for the client's `initialize`, one of two parts
together. A second load destroys the first factory while its windows stay open;
they have what they need by shared pointers. Assumed: the shell runs no command of a package it has closed (the code does
not see to it), and the sample's `initialize` registers the command before
anything in it throws.

`MCPackage`, `MCCommandTarget`, `MCStylesDiscover` and `MCSamplePackage` give names to the sets the
configurations use. Definitions commented as slips are plausible mistakes in the
definition that follows; none is part of a specification, and putting one in
its place makes a property fail, which shows that the property depends on that code.

## The runs

| Configuration | Properties | What it shows |
|---|---|---|
| `PackageOrderly` | `NoNullDereference`, `EverythingReleased`, `MissedOnlyInBetween`, `EventuallyReady`, `EventuallySubscribed` | if the host waits for its tasks, `Close` undoes all a load did, wherever that load failed, every load ends, unless a service it needs is lost, and a change of colours is missed only while IVsShell has not come |
| `PackageFaults` | `TypeOK`, `FactoryWhileOpen`, `NoLostInitialization`, `FactoryBacked`, `SubscriptionTracked`, `ClientContract` | given that the version is read, the pair of lambdas initialises exactly once in every order of arrival; factory, subscription and client stay consistent, and no late service builds a factory in a closed package |
| `PackageRacingClose` | `UnsubscribedOnceClosed` | *violated*: see findings |
| `CommandRegistry` | `Sorted`, `LookupServes`, `ImplementsMap` | registration and lookup implement the map |
| `CommandQuery` | `TypeOK`, `BatchAnswered`, `BaseIsSupported`, `TextOfFirst` | who answered which entry of a batch when it ends or is given up, and for whom the text was written |
| `CommandAccents` | `ActualCountsCharacters` | *violated*: see findings |
| `StylesAny` | `TypeOK`, `BoundedReentry`, `NothingLeft`, `CommandFollowsWindow`, `EveryCallReturns` | with everything going wrong at once `terminate()` takes everything down, there is one window at a time and the command comes back when it is closed; destructor, shell and signal do not call each other for ever, nor deeper than the windows left allow |
| `StylesClose` | `NothingDangling` | no frame is destroyed twice, no notification reaches a destroyed one, and no call a released `pane_impl` or an empty pointer |
| `Factory` | `TypeOK`, `BoundedReentry`, `NothingDangling`, `KeptAreOpen`, `DistinctToolIds`, `EveryCallReturns` | panes dropped from inside each other's signals: what is open is what the client has, and can be used; nothing destroyed is reached; two open windows share an id only if as many calls as there are ids lie between theirs |
| `ModalForms` | `TypeOK`, `ModalIsModal`, `EnabledWhenDone` | forms nested and side by side, dropped in any order, before and after the factory |
| `ComObject` | `TypeOK`, `NothingDangles`, `UnloadedWhenUnused`, `NothingLeaks` | counts agree with the pointers there are, through construction, its failure, and releases on several threads |
| `SamplePackage` | `HandlerHasItsFactory`, `NothingOutlivesFactory` | the command's handler has the factory it refers to, even when an unreadable version loads the package twice; windows are open only while there is a factory, the one that made them unless there were two loads; nothing is left after `Close` |

Bounds. `Package` needs none: nothing in it is repeated without end, and the two
host versions 13 and 14 are the two sides of the only comparison. `CommandRegistry`
registers up to four commands (`MaxCommands`) over all four ids of a two-bit
int (`IntMax = 1`), enough for duplicates, negative ids, groups between single commands
and DWORDs that turn negative; `CommandQuery` has two commands and batches
of two (`MaxBatch`), the least in which an entry has one before and one after the
place where a query stops, counting its end. `StylesDiscover` makes three windows (`Panes`): one
replaced by a second, and a third after both. `Factory` has three panes, two that
are dropped together and one that stays, and calls `create_pane` three times
(`MaxCalls`) with ids of one bit (`Modulus`), so that every start wraps around and the
third id repeats the first. `ModalForms` has three forms (`Forms`): a form, one of its own and one
beside either. `ComObject` has one package, two task bodies that hold it (`Bodies`), a pane,
and three `CComPtr`s (`Clients`), so that one is copied while another is dropped and
a third creates. `SamplePackage` has two panes and the host version 14 alone, which loads by
either entry point once the version may be unreadable.

Fairness. `Package`'s says that a thread inside the package goes on, that the host
completes what it accepted, runs its bodies and delivers broadcasts: that is the
scheduler's contract, and `when_complete` counts on it. Nothing makes the host
load, close or change colours. In `StylesDiscover` and `Factory` it is only that the UI thread
goes on with a call it is in, in `ComObject` that a thread inside `Release` or
a destructor does; `SamplePackage` and `ModalForms` need none. Deadlock is not checked
in these, since there a closed package, a client out of panes or an
unloaded module does stop; `CommandTarget` never stops and is checked.

## Findings

* *A service that arrives after `Close`* (`PackageRacingClose`). `Close` logs
  "Everything released!"; a continuation for `IVsShell` that runs afterwards stores
  `_shell` again and subscribes the closed package to broadcasts
  (`src/package.cpp:190-191`), and no one undoes that: the trace ends with that subscription.
* *`cwActual` counts bytes* (`CommandAccents`). The tests expect
  `wcslen(name) + 1`; the code has the length of the UTF-8
  (`src/ole-command-target.cpp:90`). They agree for ASCII alone.

Some properties hold under conditions, and the conditions are in the run: with
an unreadable version a new host loads the package twice; a null `IVsShell`, in a
continuation or not, is dereferenced; if both root services are late for `Close`, the
second begins to initialise the closed package, and it is the null provider in `obtain_service`
(`src/package.cpp:65`) that ends the process before a factory is built, which is why
`FactoryWhileOpen` and `ClientContract` hold; with asynchronous services a change of colours
between stylesheet and subscription is lost, which `MissedOnlyInBetween` bounds and does not exclude;
an id of a window is given again when the counter comes round; in the sample, a window the shell refuses
is used, and the command run over an open window loses the new one; two modal forms the shell
gives one owner enable it when the first is dropped (`ModalIsModal` leaves these
out); a task body that cannot be made is used all the same (`ComObject` stops there).
No document or test of the repository says otherwise, so these are
hazards here and not findings. `CommandFollowsWindow` also allows the window that an
exception left hidden, with the command disabled until `terminate()`, and one the shell took no
listener for.

## The proofs

`PackageProofs` proves, for all sets of host versions and disturbances:

* `TypeCorrect`: `Spec => []TypeOK`. `subscriptions` stays natural because
  `_shell` held implies a subscription (`ShellSubscribed`), which `Close` then
  takes back.
* `FactoryNeverOutlivesClose`: `Spec => []FactoryWhileOpen`. The invariant
  `OpenInv` adds that a thread on its way to `Create` has got past a request for
  IVsShell, for which it needed a provider, and that `Close` finds no thread there. In a closed package
  that request ends the process, so this is a theorem about a crash as much as about the code's order.
* `OneSubscription` and `ImplementsClientLifecycle`, assuming that `no_version`
  is not among the disturbances: `SubscriptionTracked`, and that every step of the package is a
  step of `ClientLifecycle` or leaves it alone. A package is loaded by one way only, each root
  service is asked for once, so each answer is *carried* at most once, by a task or a
  thread, and the check that finds the other service is the last of the two. `LoadInv`
  counts this; without it neither property is inductive.

Its last section is about how loads and closes end, and builds on these counts:

* `FactoryStaysBacked` and `InitializationNotLost`, with the same assumption:
  `FactoryBacked` and `NoLostInitialization`. After the client's `initialize` no answer is due, so
  no late one can take a service away (`BackedInv`); and once both services are
  there the UI thread is in the lambda that sees both, in `initialize()`, or was (`OnItsWay`).
* `CloseReleasesEverything`, assuming further that no close races: `EverythingReleased`.
  Such a host finds the package quiet, and quiet and closed it stays.
  With the first finding this says that, once the version is read, the race is the
  only way to lose something.
* `NothingNullIsUsed`: `NoNullDereference`, assuming no racing close and no missing service,
  for any version: whoever is inside the package finds a provider (`Provided`).
* `NoOtherChangeIsMissed`: `MissedOnlyInBetween`, with no assumption. The request for IVsShell
  precedes the stylesheet on every path, so once there is one IVsShell is on its way, was lost, or came and
  the package listens (`ShellComing`).

`CommandTargetProofs` proves, for every width of int and every bound:

* `AlwaysSorted`: `Spec => []Sorted`. With it goes that registration numbers are
  at most the length of the vector (`Numbered`), so a new command is the latest.
* `LookupAgreesWithMap`: `Spec => []LookupServes`. In a sorted vector the upper
  bound splits it into ids not above and ids above (`UpperBoundSplits`), so the
  place before is the last of the greatest id not above, hence the latest.
* `BatchesAnswered`, `BasesSupported`, `TextIsOfFirst`: the three properties of a
  batch, from the invariant of the loop (`AtWork`: what is after the entry at hand
  is answered, what is before untouched) and, for the second, from the lookup.
  `ArraysKeepTypes` (`TypeOK`) needs the lookup too: an item is the difference of two ids, and
  stays an unsigned since the id found is not above the one asked for.
* `VectorImplementsMap`: `Spec => ImplementsMap`, a refinement. An insertion leaves the latest
  registration of every other id where it was, and numbers grow with the vector, so each
  `add_command` is one `Register` of `CommandMap`; no other step changes the map.

`ModalProofs` proves, for any number of forms, `OwnersStayDisabled` (`ModalIsModal`),
`NobodyStaysDisabled` (`EnabledWhenDone`) and `FormsKeepTypes` (`TypeOK`). A chain of owners is that of the
owner with the owner in front (`Chain`), so windows stand only while their owners do; a form that went with its
owner (`Standing`) has one that is gone, and enabling it matters to nobody.

`ComObjectProofs` proves, for finitely many objects and pointers, that the counts count.
An object's count is the number of pointers to it plus what `CreateInstance` holds in its steps
(`Counted`), the module's is the number of objects that stand (`Locks`), and an object
`delete this` has begun on was made, is counted 0 and so has no pointer (`Ended`).
Copying and dropping move one element of a finite set, whence

* `CountsNeverNegative`: `TypeOK`, in which counts are natural;
* `NoObjectDiesInUse`: `NothingDangles`;
* `ModuleOutlivesObjects`: `UnloadedWhenUnused`.

`PanesProofs` has no theorem of its own but the invariants that the two clients share,
each shown once for every step of destructor, shell and signals:

* `PanesInv`: a listener is advised only while its frame is there, a `pane_impl` lasts as long as its
  window, a window that is closing has its `close_pane` waiting on the stack, and a frame
  whose members go has unadvised (`InStep`).
* `OwnedInv`: a frame without an owner has a step of its destructor (`OfAFrame`) under way, and one with an owner
  is there and has none (`Accounted`). The set of owned panes is the parameter: `{active}` for the sample,
  `kept` for the factory's client. This is what no state of a window shows by itself: who
  will still come back to it lies in the stack.
* `ReentryInv`: any two calls under way are of different panes or of different kinds
  (destruction, closing, signal, the client's own), and no pane's destructor is on top of
  its own signal (`Apart`). The one exception is a notification of a frame that is gone, which has the stack to itself (`Late`). Three calls at most for each pane that is
  left, and one of the client, is then a matter of counting (`FewCalls`).

`StylesProofs` proves, for any finite set of windows:

* `TerminateTakesAllDown` (`NothingLeft`), `OneWindowAtATime` (`CommandFollowsWindow`), `SampleKeepsTypes`
  (`TypeOK`) and `SampleDepthIsBounded` (`BoundedReentry`), whatever goes wrong. `SampleInv` adds to
  the panes' invariants that the slot is connected to a window that was made, that `terminate()` leaves
  neither a pane nor a command under way, and that an active window which is not
  shown is about to have its signal (`StylesInv`). With nothing under way, `OwnedInv`
  leaves no window but the active one.
* `ClosingIsSafe` (`NothingDangling`), assuming neither `refused` nor `stale`. What a call under way
  runs on is still there: a frame is destroyed by the one destructor it has on the stack (`ReentryInv`), which has
  unadvised the listener before, so that a notification, late or not, finds a frame or nobody (`PanesInv`).
  Between the command and the end of its handler nothing else runs, so the pane made is still
  whole (`ReadyInv`): with `refused` the handler uses a window that is not there, with `stale` it loses the new one.

`FactoryProofs` proves, for any finite set of panes and every modulus:

* `ClientHasWhatIsOpen` (`KeptAreOpen`) and `DroppingIsSafe` (`NothingDangling`), assuming a shell
  that takes the listeners it is given (not `unheard`: otherwise nobody tells the client of a close, and
  it keeps and uses a pane that is destroyed). The second rests on `ReentryInv` and `PanesInv` as above. A pane the client keeps is open or
  about to be told it is not (`Heard`), in every order of drops and signals.
* `IdsRepeatLate` (`DistinctToolIds`): the counter is the id a pane was given plus the calls since,
  modulo the ids there are (`Counted`), so equal ids are a multiple of `Modulus` apart. That an id is
  free when it is given no one sees to.
* `FactoryKeepsTypes` (`TypeOK`) and `DepthIsBounded` (`BoundedReentry`), whatever goes wrong.

`SampleProofs` proves about the composition, with every disturbance of package and
sample allowed, `HandlerRunsWithItsFactory` (`HandlerHasItsFactory`) and
`WindowsGoBeforeFactory` (`NothingOutlivesFactory`). It instantiates `StylesProofs` and takes what it shows of the
sample's steps from there. `CompositionInv` adds that the UI thread is in the package or in the
sample, not in both (`ThreadsInv`), that the registry holds the command with the number of the
last `initialize` (`RegistryInv`), that factory and command begin with the first
`initialize` and end with `Close`, at which every pane is gone and after which none comes back, that every window
was made with one of the factories there were (`LifeInv`), and, for a package that is loaded in one way, what
`PackageProofs` shows of it (`LoadedInv`): then there was one factory only. `LoadedOnce` is
a condition there, not an assumption: the rest survives a package that is loaded twice.

The assumptions are those the modules state (`HostAssumption`, `TargetAssumption`,
`FormsAssumption`, `ObjectAssumption`, `SampleAssumption`, `FactoryAssumption`,
`SamplePackageAssumption`: sets of names are finite and do not meet, disturbances are among
those listed, bounds are numbers) and the ones named above, which are those of the
runs. Every safety property of a passing run is stated by a theorem. Only model-checked is liveness,
out of the prover's reach: `EventuallyReady`, `EventuallySubscribed`,
`EveryCallReturns`, `NothingLeaks`; and what is violated is shown by a run alone.

## Not modelled

* What a pane is given to show: `set_root` before `CreatePaneWindow` is ignored (`src/pane.cpp:45`), and a
  window then stays empty. Whether that happens hangs on the shell alone.
* What a client does when `_update_styles` is raised, or with colours it was not told of.
* The value of cookies: the model counts subscriptions and takes
  `AdviseBroadcastMessages` to succeed.
* What the sample's handler does with `get_shell()` should a second load have put a
  null service in its place.
* The buffer's length in `QueryStatus`. Registration of a command by a handler
  while a query or an execution is under way, which leaves the caller a pointer into
  a vector that moved: undefined behaviour that neither sample nor tests run into.
* What runs in a destructor after its `Unlock`: base classes and members. The
  module's lock count cannot protect that code, and `UnloadedWhenUnused` counts up to there.
* Toolbars, captions, what a view host draws, which window Windows activates.
* The implementation of `signal`, which is in another repository: raising one runs
  its slot, and a slot may destroy it.
* Drawing, styles, models and resources of the sample, `wpl/vs/command.h`
  (unused), logging and the build: no state to speak of.

## Plan

Done, in this order: `Async`, `Package`, `ClientLifecycle`, `PackageProofs`;
`CommandTarget`, `CommandMap`, `CommandTargetProofs`; `Panes`, `StylesDiscover`;
`Factory`, `ModalForms`, `ComObject`, `SamplePackage`; `ModalProofs`, `ComObjectProofs`,
`PanesProofs` with `StylesProofs` and `FactoryProofs`; `SampleProofs`.

1. An abstract specification of the sample (a window and a command that exclude
   each other) that `StylesDiscover` implements, proved from `SampleInv`.
2. That the composition implements its parts: a step of `SamplePackage` is one of
   `Package` or leaves it alone, and likewise for `StylesDiscover`, so that their theorems carry over.
3. Registration from inside a handler in `CommandTarget`, the length of the
   caller's buffer, a broadcast subscription that the shell refuses.
