---------------------------- MODULE StylesDiscover ----------------------------
(***************************************************************************)
(* The package of the sample (samples/styles-discover), a client of the    *)
(* library's panes: one command that opens a window, enabled while there   *)
(* is none, and a slot on the pane's close signal that drops the pane.     *)
(***************************************************************************)
EXTENDS Panes

(* refused    create_pane fails to create the shell's window               *)
(* unheard    the shell refuses the frame's listener                       *)
(* lazy       the shell calls CreatePaneWindow when it first shows a pane  *)
(* repeats    the shell notifies of a closing window when asked to close   *)
(*            it again, and of a closed one later on                       *)
(* throws     making the controls or the model throws                      *)
(* stale      the command is run on the strength of an older QueryStatus   *)
AllMishaps == {"refused", "unheard", "lazy", "repeats", "throws", "stale"}

ASSUME SampleAssumption ==
  /\ NoPane \notin Panes /\ IsFiniteSet(Panes)
  /\ Disturbances \subseteq AllMishaps

VARIABLES
  active,       \* _active_pane
  connected,    \* the pane whose close signal _close_conn's slot is in
  terminated    \* terminate() was called

client == <<active, connected, terminated>>
vars == <<panes, client>>

(* TYPE INVARIANT: the sample's members, the shell's windows and the calls *)
(* under way keep their types.                                             *)
TypeOK ==
  /\ PanesTypeOK
  /\ active \in Panes \union {NoPane}
  /\ connected \in Panes \union {NoPane}
  /\ terminated \in BOOLEAN
  /\ stack \in Seq([at : {"create", "furnish"}, pane : {NoPane}] \union
                   [at : OfAPane, pane : Panes])

Init ==
  /\ PanesInit
  /\ active = NoPane
  /\ connected = NoPane
  /\ terminated = FALSE

-----------------------------------------------------------------------------
(* The command.                                                            *)

(* A slip: the command is always enabled.                                  *)
AlwaysEnabled == TRUE

(* state = supported | visible | (!_active_pane ? enabled : 0)             *)
Enabled == active = NoPane

ShowStyles ==
  /\ Idle /\ ~terminated
  /\ Enabled \/ "stale" \in Disturbances
  /\ stack' = Entry("create", NoPane)
  /\ UNCHANGED <<objects, crashed, client>>

(* _active_pane = factory_.create_pane(...): the member has its new value  *)
(* when the pane it pointed to is destroyed.                               *)
AssignPane(p) ==
  /\ active' = p
  /\ Continue(Destruction(active) \o Entry("furnish", NoPane))

CreatePane ==
  /\ Running("create")
  /\ \/ \E p \in Unused : Create(p) /\ AssignPane(p)
     \/ "refused" \in Disturbances /\ AssignPane(NoPane) /\ UNCHANGED objects
  /\ UNCHANGED <<connected, terminated, crashed>>

(* The caption, the controls, set_root, set_visible and the slot.  The     *)
(* root, which a pane without a host ignores, is not in the model.         *)
Furnish ==
  /\ Running("furnish")
  /\ active \in Usable
  /\ Shown(active)
  /\ connected' = active
  /\ Return
  /\ UNCHANGED <<active, terminated, crashed>>

(* An exception leaves the handler for the catch (...) of Exec.            *)
FurnishThrows ==
  /\ Running("furnish")
  /\ active \in Usable
  /\ "throws" \in Disturbances
  /\ Return
  /\ UNCHANGED <<objects, crashed, client>>

(* _active_pane-> goes through a null pointer or to a destroyed pane_impl. *)
FurnishNothing ==
  /\ Running("furnish")
  /\ active \notin Usable
  /\ Crash
  /\ UNCHANGED client

-----------------------------------------------------------------------------
(* The end of a pane.                                                      *)

(* A slip: the slot does not drop the pane.                                *)
SlotKeepsPane == Return /\ UNCHANGED active

(* A slip: the pointer is not empty yet when the frame is destroyed.       *)
SlotEmptiesLater == Continue(Destruction(active)) /\ UNCHANGED active

(* active_pane.reset(): the pointer is empty when the frame is destroyed.  *)
Slot ==
  /\ Continue(Destruction(active))
  /\ active' = NoPane

OnClose(p) ==
  /\ IF connected = p THEN Slot ELSE Return /\ UNCHANGED active
  /\ UNCHANGED <<connected, terminated>>

Notify ==
  \/ OnShow("notify") /\ OnClose(Subject)
  \/ Unheard("notify") /\ UNCHANGED client

(* A slip: terminate() forgets the pane.                                   *)
TerminateOnly == stack' = <<>> /\ UNCHANGED active

(* _active_pane.reset()                                                    *)
DropPane == stack' = Destruction(active) /\ active' = NoPane

(* terminate(), from package::Close                                        *)
Terminate ==
  /\ Idle /\ ~terminated
  /\ terminated' = TRUE
  /\ DropPane
  /\ UNCHANGED <<connected, objects, crashed>>

-----------------------------------------------------------------------------
Resume ==
  \/ CreatePane
  \/ Furnish
  \/ FurnishThrows
  \/ FurnishNothing
  \/ Notify
  \/ Shell /\ UNCHANGED client

User ==
  \/ ShowStyles /\ Unused # {}
  \/ \E p \in Panes : (UserCloses(p) \/ NotifiesLate(p)) /\ UNCHANGED client

Next == ~crashed /\ (User \/ Terminate \/ Resume)

Spec == Init /\ [][Next]_vars

(* The UI thread goes on with the calls it is in.                          *)
FairSpec == Spec /\ WF_vars(~crashed /\ Resume)

-----------------------------------------------------------------------------
(* Properties.                                                             *)

(* When no call is under way there is at most one window, the one the      *)
(* command opened, and the command is enabled again once that is closed.   *)
(* A window whose listener and slot are in place is shown, too.            *)
CommandFollowsWindow ==
  Idle /\ ~terminated /\ ~crashed =>
    /\ Open \subseteq {active}
    /\ active # NoPane /\ connected = active /\ advised[active]
         => window[active] = "shown"

Gone(p) ==
  /\ p \notin Open
  /\ impl[p] # "alive" /\ ~view[p]
  /\ frame[p] # "alive"
  /\ ~advised[p]

(* terminate() takes everything down: when it returns there is no window,  *)
(* no pane_impl, no view_host, no frame, and the shell has no listener     *)
(* left to notify.                                                         *)
NothingLeft ==
  Idle /\ terminated /\ ~crashed => \A p \in Panes : Gone(p)
==============================================================================
