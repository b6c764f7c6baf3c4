-------------------------------- MODULE Panes --------------------------------
(***************************************************************************)
(* The objects behind tool windows: factory::create_pane                   *)
(* (src/src/factory.cpp) makes a pane_impl (src/src/pane.cpp), which only  *)
(* the shell's window keeps alive, and a frame (src/src/frame.cpp), which  *)
(* belongs to the client and refers to the other two: to the window by a   *)
(* counted pointer, to the pane_impl by a plain reference.  The window     *)
(* refers back to the frame through the listener the frame advised.        *)
(*                                                                         *)
(* Everything runs on the UI thread, but calls re-enter: dropping a pane   *)
(* destroys its frame, which closes the shell's window, which notifies the *)
(* frame's listener, which raises the close signal, in whose slot a client *)
(* drops the pane.  `stack' holds what the calls under way have still to   *)
(* do, the innermost first.                                                *)
(*                                                                         *)
(* The clients are in the modules that extend this one.                    *)
(***************************************************************************)
EXTENDS Naturals, Sequences, FiniteSets

CONSTANTS
  Panes,        \* bound: the windows that are made
  NoPane,       \* an empty shared_ptr
  Disturbances  \* what may go wrong around a client, see the clients

VARIABLES
  window,       \* the shell's IVsWindowFrame
  view,         \* the pane_impl has a view_host, _host
  impl,         \* the pane_impl
  frame,        \* the frame
  advised,      \* the shell has the frame's listener
  stack,        \* the calls under way: [at, pane]
  crashed       \* a null pointer or a destroyed object was used

objects == <<window, view, impl, frame, advised>>
panes == <<objects, stack, crashed>>

(* The calls: ~frame in three steps, OnShow of its listener, ClosePane.    *)
OfAPane == {"close_frame", "unadvise", "members", "notify", "activated", "close_pane"}
OfAFrame == {"close_frame", "unadvise", "members"}
Signals == {"notify", "activated"}

PanesTypeOK ==
  /\ window \in [Panes -> {"none", "hidden", "shown", "closing", "closed"}]
  /\ view \in [Panes -> BOOLEAN]
  /\ impl \in [Panes -> {"none", "alive", "destroyed"}]
  /\ frame \in [Panes -> {"none", "alive", "destroyed"}]
  /\ advised \in [Panes -> BOOLEAN]
  /\ crashed \in BOOLEAN

PanesInit ==
  /\ window = [p \in Panes |-> "none"]
  /\ view = [p \in Panes |-> FALSE]
  /\ impl = [p \in Panes |-> "none"]
  /\ frame = [p \in Panes |-> "none"]
  /\ advised = [p \in Panes |-> FALSE]
  /\ stack = <<>>
  /\ crashed = FALSE

Unused == {p \in Panes : window[p] = "none"}
Usable == {p \in Panes : frame[p] = "alive" /\ impl[p] = "alive"}
Open == {p \in Panes : window[p] \in {"hidden", "shown"}}
Live == {p \in Panes : frame[p] = "alive" \/ impl[p] = "alive"}

-----------------------------------------------------------------------------
(* The call stack.                                                         *)

Entry(at, pane) == <<[at |-> at, pane |-> pane]>>
Running(at) == stack # <<>> /\ Head(stack).at = at
Subject == Head(stack).pane
Idle == stack = <<>>

(* What runs goes on with `entries', if with anything.                     *)
Continue(entries) == stack' = entries \o Tail(stack)
Return == Continue(<<>>)

(* What the call that runs is a call of: the pane_impl, or the frame, to   *)
(* which the listener has a plain pointer.                                 *)
Stands ==
  IF Running("close_pane") THEN impl[Subject] = "alive" ELSE frame[Subject] = "alive"

Crash == crashed' = TRUE /\ UNCHANGED <<objects, stack>>

(* A slip: the frame of an empty pointer is destroyed, too.                *)
DestructionOfAny(p) == Entry("close_frame", p)

(* The last reference to p's frame is dropped: ~frame.                     *)
Destruction(p) == IF p = NoPane THEN <<>> ELSE Entry("close_frame", p)

-----------------------------------------------------------------------------
(* Calls of the factory and of frames, by the client.                      *)

(* The shell calls CreatePaneWindow, which makes the view_host.            *)
CreatePaneWindow(p) == [view EXCEPT ![p] = TRUE]

(* A slip: the frame does not ask to be told of its window.                *)
NotAdvised(p) == advised

(* _underlying2->Advise(_advise_helper, ...)                               *)
Advised(p) == [advised EXCEPT ![p] = TRUE]

(* create_pane, when CreateToolWindow succeeds.  The shell calls           *)
(* CreatePaneWindow at once, or leaves that to the first time it is shown  *)
(* (lazy).  The frame's constructor ignores whether the shell took its     *)
(* listener (unheard).                                                     *)
Create(p) ==
  /\ window[p] = "none"
  /\ window' = [window EXCEPT ![p] = "hidden"]
  /\ impl' = [impl EXCEPT ![p] = "alive"]
  /\ frame' = [frame EXCEPT ![p] = "alive"]
  /\ \/ view' = CreatePaneWindow(p)
     \/ "lazy" \in Disturbances /\ UNCHANGED view
  /\ \/ advised' = Advised(p)
     \/ "unheard" \in Disturbances /\ UNCHANGED advised

(* set_visible(true): the shell has the pane create its window, if it has  *)
(* not yet.                                                                *)
Shown(p) ==
  /\ window' = [window EXCEPT ![p] = "shown"]
  /\ view' = CreatePaneWindow(p)
  /\ UNCHANGED <<impl, frame, advised>>

-----------------------------------------------------------------------------
(* Closing and destroying.                                                 *)

(* The shell closes a window: it notifies the listener and closes the pane.*)
(* The code relies on neither order.                                       *)
Closings(p) ==
  { Entry("notify", p) \o Entry("close_pane", p),
    Entry("close_pane", p) \o Entry("notify", p) }

BeginClosing(p) ==
  /\ window' = [window EXCEPT ![p] = "closing"]
  /\ UNCHANGED <<view, impl, frame, advised, crashed>>

UserCloses(p) ==
  /\ Idle
  /\ window[p] = "shown"
  /\ BeginClosing(p)
  /\ stack' \in Closings(p)

(* A slip: the destructor waits for the window to be gone.                 *)
LeftWhenClosed(p) == window[p] = "closed"

(* A window that is closing, or closed, is left alone.                     *)
LeftAlone(p) == p \notin Open

(* ~frame: _underlying->CloseFrame(FRAMECLOSE_NoSave), to which the shell  *)
(* closes the window if it has not begun to; otherwise it may notify again *)
(* (repeats).                                                              *)
CloseFrame ==
  /\ Running("close_frame") /\ Stands
  /\ LET p == Subject IN
       \/ /\ p \in Open
          /\ BeginClosing(p)
          /\ \E closing \in Closings(p) : Continue(closing \o Entry("unadvise", p))
       \/ /\ LeftAlone(p)
          /\ \/ Continue(Entry("unadvise", p))
             \/ /\ "repeats" \in Disturbances /\ window[p] = "closing"
                /\ Continue(Entry("notify", p) \o Entry("unadvise", p))
          /\ UNCHANGED <<objects, crashed>>

(* A slip: the shell keeps the listener.                                   *)
StillAdvised(p) == advised

Unadvised(p) == [advised EXCEPT ![p] = FALSE]

(* ~frame: _underlying2->Unadvise(...)                                     *)
Unadvise ==
  /\ Running("unadvise") /\ Stands
  /\ advised' = Unadvised(Subject)
  /\ Continue(Entry("members", Subject))
  /\ UNCHANGED <<window, view, impl, frame, crashed>>

(* ~frame is over: the window is released, and the memory.                 *)
EndMembers ==
  /\ Running("members") /\ Stands
  /\ frame' = [frame EXCEPT ![Subject] = "destroyed"]
  /\ Return
  /\ UNCHANGED <<window, view, impl, advised, crashed>>

(* The shell calls ClosePane and releases the pane_impl.                   *)
ClosePane ==
  /\ Running("close_pane") /\ Stands
  /\ window' = [window EXCEPT ![Subject] = "closed"]
  /\ view' = [view EXCEPT ![Subject] = FALSE]
  /\ impl' = [impl EXCEPT ![Subject] = "destroyed"]
  /\ Return
  /\ UNCHANGED <<frame, advised, crashed>>

(* OnShow: _pane->close() or _pane->activated(), and so the client's slot. *)
OnShow(at) ==
  /\ Running(at)
  /\ advised[Subject] /\ Stands
  /\ UNCHANGED <<objects, crashed>>

(* The shell has no listener to notify.                                    *)
Unheard(at) ==
  /\ Running(at)
  /\ ~advised[Subject]
  /\ Return
  /\ UNCHANGED <<objects, crashed>>

(* A step of ~frame, ClosePane or OnShow on an object that is gone: there  *)
(* is nothing in the code to tell, the memory is used all the same.        *)
OnTheDestroyed ==
  /\ \E at \in OfAPane : Running(at) /\ (at \in Signals => advised[Subject])
  /\ ~Stands
  /\ Crash

Shell == CloseFrame \/ Unadvise \/ EndMembers \/ ClosePane \/ OnTheDestroyed

(* The shell may be late: it tells of a window that is closed, to whom it  *)
(* still has as a listener (repeats).                                      *)
NotifiesLate(p) ==
  /\ Idle
  /\ "repeats" \in Disturbances /\ window[p] = "closed"
  /\ stack' = Entry("notify", p)
  /\ UNCHANGED <<objects, crashed>>

-----------------------------------------------------------------------------
(* What any client may count on.                                           *)

(* Whatever re-enters whatever, no frame is destroyed twice, no listener   *)
(* is told of anything after its frame is gone, however late, and no call  *)
(* goes through an empty pointer or to a pane_impl the shell has released. *)
NothingDangling == ~crashed

(* Destructor, shell, signals and slots re-enter each other no deeper than *)
(* the windows there are allow, however many were closed before: for each  *)
(* its destructor, its closing and a signal, and the client's own call.    *)
BoundedReentry == Len(stack) <= 3 * Cardinality(Live) + 1

(* The recursion of destructor, shell and signals ends: every call made    *)
(* returns.                                                                *)
EveryCallReturns == (~Idle) ~> (Idle \/ crashed)
==============================================================================
