------------------------------ MODULE ModalForms ------------------------------
(***************************************************************************)
(* factory::create_modal (src/src/factory.cpp): a form whose owner, the    *)
(* window the shell names, is disabled until the client has dropped the    *)
(* form.  Forms nest, are dropped in whatever order, and may outlive the   *)
(* factory.  create_form and create_modal each ask the shell for a window: *)
(* both are taken to get the same answer, the new form not being shown yet.*)
(***************************************************************************)
EXTENDS Sequences

CONSTANTS
  Forms,        \* bound: the forms that are made
  Main,         \* the shell's main window
  Desktop       \* HWND_DESKTOP, the owner when GetDialogOwnerHwnd fails

ASSUME FormsAssumption ==
  Main \notin Forms /\ Desktop \notin Forms /\ Main # Desktop

VARIABLES
  standing,     \* the factory exists
  held,         \* the forms the client has pointers to
  up,           \* those whose window is there
  owners,       \* owners[f]: f's owner, which is hroot to the deleter, then its owner's
  disabled,     \* the windows that are disabled
  contested     \* the windows that were given a form while they had one

vars == <<standing, held, up, owners, disabled, contested>>

Windows == Forms \union {Main, Desktop}

(* TYPE INVARIANT: a form's window is there only while the form is held.   *)
TypeOK ==
  /\ standing \in BOOLEAN
  /\ held \subseteq Forms /\ up \subseteq held
  /\ owners \in [Forms -> Seq(Windows)]
  /\ disabled \subseteq Windows /\ contested \subseteq Windows

Init ==
  /\ standing = TRUE
  /\ held = {} /\ up = {}
  /\ owners = [f \in Forms |-> <<>>]
  /\ disabled = {} /\ contested = {}

Owner(f) == Head(owners[f])
IsOwned(f, w) == \E i \in DOMAIN owners[f] : owners[f][i] = w

(* get_frame_hwnd: the shell names the form in front, or the main window,  *)
(* which a shell that does not know of the forms always does, or fails.    *)
InFront == {f \in up : ~ \E g \in up : IsOwned(g, f)}
FrameHwnds == InFront \union {Main, Desktop}

(* create_form with that owner; EnableWindow(hroot, FALSE).                *)
CreateModal(f, hroot) ==
  /\ standing /\ owners[f] = <<>>
  /\ owners' = [owners EXCEPT ![f] =
                  <<hroot>> \o (IF hroot \in Forms THEN owners[hroot] ELSE <<>>)]
  /\ disabled' = disabled \union ({hroot} \ {Desktop})
  /\ contested' = contested \union ({hroot} \intersect disabled)
  /\ held' = held \union {f}
  /\ up' = up \union {f}
  /\ UNCHANGED standing

(* A slip: the form is not deleted.                                        *)
NothingGoes(f) == {}

(* delete p: Windows destroys a form together with those it owns.          *)
GoesWith(f) == {f} \union {g \in up : IsOwned(g, f)}

(* Slips: the deleter asks for the owner when it runs, or takes it to be   *)
(* the main window.                                                        *)
OwnerByNow(f) == IF InFront = {} THEN Main ELSE CHOOSE g \in InFront : TRUE
MainWindow(f) == Main

(* hroot, which the deleter captured.                                      *)
Captured(f) == Owner(f)

(* The deleter: delete p; EnableWindow(hroot, TRUE).                       *)
DropForm(f) ==
  /\ f \in held
  /\ held' = held \ {f}
  /\ up' = up \ GoesWith(f)
  /\ disabled' = disabled \ (GoesWith(f) \union {Captured(f)})
  /\ UNCHANGED <<standing, owners, contested>>

(* ~factory                                                                *)
Destroy ==
  /\ standing
  /\ standing' = FALSE
  /\ UNCHANGED <<held, up, owners, disabled, contested>>

Next ==
  \/ \E f \in Forms : DropForm(f) \/ \E hroot \in FrameHwnds : CreateModal(f, hroot)
  \/ Destroy

Spec == Init /\ [][Next]_vars

(* A modal form is modal: its owner takes no input while the form is there,*)
(* unless the shell gave that owner to two forms at the same time.         *)
ModalIsModal ==
  \A f \in up : Owner(f) \in disabled \union contested \union {Desktop}

(* A window is disabled only on behalf of a form the client still holds:   *)
(* in whatever order forms are dropped, the last leaves the user the shell.*)
EnabledWhenDone == \A w \in disabled : \E f \in held : Owner(f) = w
==============================================================================
