------------------------------- MODULE Factory -------------------------------
(***************************************************************************)
(* factory::create_pane (src/src/factory.cpp), the operations of panes     *)
(* (src/src/frame.cpp) and a client that keeps any number of them: it      *)
(* drops a pane, and perhaps another one with it, in the slots of the      *)
(* pane's signals or whenever it likes.                                    *)
(***************************************************************************)
EXTENDS Panes

CONSTANTS
  Modulus,      \* of unsigned: 2^32 in the program
  MaxCalls      \* bound: calls of create_pane

(* refused    CreateToolWindow fails                                       *)
(* lazy, unheard, repeats: see Panes                                       *)
AllMishaps == {"refused", "lazy", "unheard", "repeats"}

ASSUME FactoryAssumption ==
  /\ NoPane \notin Panes /\ IsFiniteSet(Panes)
  /\ Modulus \in Nat \ {0} /\ MaxCalls \in Nat
  /\ Disturbances \subseteq AllMishaps

VARIABLES
  next_tool_id, \* _next_tool_id
  calls,        \* how often create_pane was called
  tool_id,      \* the id the shell knows p's window by ...
  made_by,      \* ... and the call that made it
  kept          \* the panes the client has pointers to

ids == <<next_tool_id, calls, tool_id, made_by>>
vars == <<panes, ids, kept>>

(* TYPE INVARIANT: what factory, client and shell keep has its type.       *)
TypeOK ==
  /\ PanesTypeOK
  /\ stack \in Seq([at : OfAPane, pane : Panes])
  /\ next_tool_id \in 0 .. Modulus - 1
  /\ calls \in 0 .. MaxCalls
  /\ tool_id \in [Panes -> 0 .. Modulus - 1]
  /\ made_by \in [Panes -> 0 .. MaxCalls]
  /\ kept \subseteq Panes

(* The constructor leaves _next_tool_id as it finds it.                    *)
Init ==
  /\ PanesInit
  /\ next_tool_id \in 0 .. Modulus - 1
  /\ calls = 0
  /\ tool_id = [p \in Panes |-> 0]
  /\ made_by = [p \in Panes |-> 0]
  /\ kept = {}

-----------------------------------------------------------------------------
(* Slips: the id stays at the greatest, or runs past it.                   *)
Saturated == IF next_tool_id = Modulus - 1 THEN next_tool_id ELSE next_tool_id + 1
Unbounded == next_tool_id + 1

(* _next_tool_id++                                                         *)
NextToolId == (next_tool_id + 1) % Modulus

CreatePane ==
  /\ Idle /\ calls < MaxCalls
  /\ calls' = calls + 1
  /\ next_tool_id' = NextToolId
  /\ \/ \E p \in Unused :
          /\ Create(p)
          /\ tool_id' = [tool_id EXCEPT ![p] = next_tool_id]
          /\ made_by' = [made_by EXCEPT ![p] = calls']
          /\ kept' = kept \union {p}
     \/ "refused" \in Disturbances /\ UNCHANGED <<objects, tool_id, made_by, kept>>
  /\ UNCHANGED <<stack, crashed>>

(* set_root and add_command reach the pane_impl and leave all this alone.  *)
UsePane(p) ==
  /\ Idle /\ p \in kept
  /\ IF p \in Usable THEN UNCHANGED panes ELSE Crash
  /\ UNCHANGED <<ids, kept>>

(* activate, set_visible(true): the shell tells the listener if the window *)
(* becomes active.                                                         *)
Show(p) ==
  /\ Idle /\ p \in kept \intersect Open
  /\ Shown(p)
  /\ stack' \in {<<>>, Entry("activated", p)}
  /\ UNCHANGED <<crashed, ids, kept>>

(* set_visible(false)                                                      *)
Hide(p) ==
  /\ Idle /\ p \in kept \intersect Open
  /\ window' = [window EXCEPT ![p] = "hidden"]
  /\ UNCHANGED <<view, impl, frame, advised, stack, crashed, ids, kept>>

-----------------------------------------------------------------------------
(* What the client drops along with p, in either order, if anything.       *)
Dropped(p) ==
  {<<p>>} \union {<<p, q>> : q \in kept \ {p}} \union {<<q, p>> : q \in kept \ {p}}

(* A slip: the frame goes without closing its window.                      *)
DestroyedQuietly(ps) ==
  IF Len(ps) = 1 THEN Entry("unadvise", ps[1])
  ELSE Entry("unadvise", ps[1]) \o Entry("unadvise", ps[2])

(* Their frames are destroyed one after the other.                         *)
Destructions(ps) ==
  IF Len(ps) = 1 THEN Destruction(ps[1])
  ELSE Destruction(ps[1]) \o Destruction(ps[2])

(* A slip: the pointers are not empty yet when the frames are destroyed.   *)
EmptiedLater(p, then) ==
  /\ p \in kept
  /\ stack' \in {Destructions(ps) \o then : ps \in Dropped(p)}
  /\ UNCHANGED kept

(* The client's pointers to p, and perhaps to another pane, go.            *)
Drop(p, then) ==
  /\ p \in kept
  /\ \E ps \in Dropped(p) :
       /\ kept' = kept \ {ps[i] : i \in DOMAIN ps}
       /\ stack' = Destructions(ps) \o then

DropPane(p) ==
  /\ Idle
  /\ Drop(p, <<>>)
  /\ UNCHANGED <<objects, crashed, ids>>

OnClose(p) == Drop(p, Tail(stack)) \/ (p \notin kept /\ Return /\ UNCHANGED kept)

OnActivated(p) == Drop(p, Tail(stack)) \/ (Return /\ UNCHANGED kept)

Resume ==
  /\ \/ OnShow("notify") /\ OnClose(Subject)
     \/ OnShow("activated") /\ OnActivated(Subject)
     \/ \E at \in Signals : Unheard(at) /\ UNCHANGED kept
     \/ Shell /\ UNCHANGED kept
  /\ UNCHANGED ids

-----------------------------------------------------------------------------
Next ==
  /\ ~crashed
  /\ \/ CreatePane
     \/ \E p \in Panes :
          \/ UsePane(p)
          \/ Show(p)
          \/ Hide(p)
          \/ DropPane(p)
          \/ (UserCloses(p) \/ NotifiesLate(p)) /\ UNCHANGED <<ids, kept>>
     \/ Resume

Spec == Init /\ [][Next]_vars

(* The UI thread goes on with the calls it is in.                          *)
FairSpec == Spec /\ WF_vars(~crashed /\ Resume)

-----------------------------------------------------------------------------
(* Properties.                                                             *)

(* When no call is under way the client has exactly the windows that are   *)
(* open, and all it has can be used, whoever closed what from inside which *)
(* signal: no window is left behind, no pane without its pane_impl.        *)
KeptAreOpen == Idle /\ ~crashed => kept = Open /\ kept \subseteq Usable

(* An id says which window of a slot is meant, but the counter wraps around*)
(* and the code does not look whether a window has the id already.  Two    *)
(* that are open share one only if create_pane was called at least as many *)
(* times, from the first of them to the second, as there are ids.          *)
DistinctToolIds ==
  \A p, q \in Open :
    made_by[p] < made_by[q] /\ made_by[q] - made_by[p] < Modulus
      => tool_id[p] # tool_id[q]
==============================================================================
