------------------------------ MODULE ComObject ------------------------------
(***************************************************************************)
(* The life of the library's COM objects: CreateInstance, AddRef and       *)
(* Release, the construction of freethreaded classes (src/wpl/vs/com.h),   *)
(* and the lock count by which the module of the sample (main.cpp) knows   *)
(* whether it may be unloaded.                                             *)
(*                                                                         *)
(* A pane_impl is made of CComObjectEx (src/src/CComObjectEx.h).  Packages *)
(* and task bodies are made of ATL's CComObject, which is not in the       *)
(* repository and which that header follows step by step; the actions      *)
(* below are read from the header for all three.                           *)
(*                                                                         *)
(* Packages and task bodies are freethreaded and are released by whatever  *)
(* thread drops them last; a pane_impl belongs to the UI thread.  A task   *)
(* body holds a package: the `self' its lambda captured.                   *)
(***************************************************************************)
EXTENDS Naturals, FiniteSets

CONSTANTS
  Packages, Bodies, PaneImpls,  \* bound: the objects of each class
  Clients,                      \* bound: CComPtrs of the host and of threads
  Null                          \* an empty CComPtr

Objects == Packages \union Bodies \union PaneImpls
FreeThreaded == Packages \union Bodies

ASSUME ObjectAssumption ==
  /\ IsFiniteSet(Objects) /\ IsFiniteSet(Clients)
  /\ Null \notin Objects
  /\ Clients \intersect Objects = {}
  /\ Packages \intersect Bodies = {} /\ FreeThreaded \intersect PaneImpls = {}

(* Every CComPtr: a client's own, or the `self' inside a body.             *)
Pointers == Clients \union Bodies

VARIABLES
  life,         \* life[o]: the object
  making,       \* making[o]: what CreateInstance does next
  count,        \* count[o]: m_dwRef
  points,       \* points[p]: the object CComPtr p points to
  dying,        \* objects whose last Release has yet to `delete this'
  locks,        \* the module's lock count
  unloaded,     \* the module's code is gone
  crashed       \* a null pointer was dereferenced

vars == <<life, making, count, points, dying, locks, unloaded, crashed>>

Stages == {"guard", "query", "unquery", "unguard", "return", "discard", "done"}

(* TYPE INVARIANT: in particular no count is ever decremented below zero.  *)
TypeOK ==
  /\ life \in [Objects -> {"none", "alive", "destroyed"}]
  /\ making \in [Objects -> Stages]
  /\ count \in [Objects -> Nat]
  /\ points \in [Pointers -> Objects \union {Null}]
  /\ dying \subseteq Objects
  /\ locks \in Nat
  /\ unloaded \in BOOLEAN /\ crashed \in BOOLEAN

Init ==
  /\ life = [o \in Objects |-> "none"]
  /\ making = [o \in Objects |-> "guard"]
  /\ count = [o \in Objects |-> 0]
  /\ points = [p \in Pointers |-> Null]
  /\ dying = {}
  /\ locks = 0
  /\ unloaded = FALSE /\ crashed = FALSE

-----------------------------------------------------------------------------
(* References.                                                             *)

AddRef(o) == count' = [count EXCEPT ![o] = @ + 1]

(* if (l == 0): l is what the atomic decrement of this Release returned.   *)
IsLast(o) == count[o] = 1

Release(o) ==
  /\ count' = [count EXCEPT ![o] = @ - 1]
  /\ dying' = IF IsLast(o) THEN dying \union {o} ELSE dying

(* ~CComObjectEx: FinalRelease(), then _pAtlModule->Unlock().              *)
Destroy(o) ==
  /\ life' = [life EXCEPT ![o] = "destroyed"]
  /\ locks' = locks - 1

-----------------------------------------------------------------------------
(* CreateInstance.                                                         *)

(* A slip: panes are made of a class that does not lock the module.        *)
LockedButByPanes(o) == IF o \in PaneImpls THEN locks ELSE locks + 1

Locked(o) == locks + 1

(* `new': the constructor locks the module.  A body is made by a thread    *)
(* inside a package, whose pointer it copies into the body's lambda.       *)
New(o) ==
  /\ life[o] = "none" /\ ~unloaded
  /\ life' = [life EXCEPT ![o] = "alive"]
  /\ locks' = Locked(o)
  /\ IF o \in Bodies
     THEN \E c \in Clients :
            /\ points[c] \in Packages
            /\ points' = [points EXCEPT ![o] = points[c]]
            /\ AddRef(points[c])
     ELSE UNCHANGED <<points, count>>
  /\ UNCHANGED <<making, dying, unloaded, crashed>>

(* A slip: DECLARE_PROTECT_FINAL_CONSTRUCT is missing.                     *)
Unprotected(o) == 0

(* InternalFinalConstructAddRef and ...Release count only in classes with  *)
(* DECLARE_PROTECT_FINAL_CONSTRUCT.                                        *)
Protection(o) == IF o \in FreeThreaded THEN 1 ELSE 0

Guard(o) ==
  /\ making[o] = "guard" /\ life[o] # "none"
  /\ making' = [making EXCEPT ![o] = IF o \in FreeThreaded THEN "query" ELSE "unguard"]
  /\ count' = [count EXCEPT ![o] = @ + Protection(o)]
  /\ UNCHANGED <<life, points, dying, locks, unloaded, crashed>>

(* freethreaded::FinalConstruct: QueryInterface into a CComPtr `u' ...     *)
QueryItself(o) ==
  /\ making[o] = "query"
  /\ making' = [making EXCEPT ![o] = "unquery"]
  /\ AddRef(o)
  /\ UNCHANGED <<life, points, dying, locks, unloaded, crashed>>

(* ... which is released at the end of the scope.                          *)
ReleaseItself(o) ==
  /\ making[o] = "unquery"
  /\ making' = [making EXCEPT ![o] = "unguard"]
  /\ Release(o)
  /\ UNCHANGED <<life, points, locks, unloaded, crashed>>

(* Slips: the protection is not taken back, or where there was none, too.  *)
LeftProtected(o) == count[o]
AlwaysUnprotect(o) == count[o] - 1

Unprotect(o) == count[o] - Protection(o)

(* CoCreateFreeThreadedMarshaler may have failed.                          *)
Unguard(o) ==
  /\ making[o] = "unguard"
  /\ \/ making' = [making EXCEPT ![o] = "return"]
     \/ o \in FreeThreaded /\ making' = [making EXCEPT ![o] = "discard"]
  /\ count' = [count EXCEPT ![o] = Unprotect(o)]
  /\ UNCHANGED <<life, points, dying, locks, unloaded, crashed>>

(* if (hRes != S_OK) delete p.  wrap_task does not look at the result and  *)
(* goes on with the null pointer.                                          *)
Discard(o) ==
  /\ making[o] = "discard"
  /\ making' = [making EXCEPT ![o] = "done"]
  /\ Destroy(o)
  /\ crashed' = (o \in Bodies)
  /\ UNCHANGED <<count, points, dying, unloaded>>

(* The creator puts the object, which no one has counted yet, in a CComPtr.*)
Attach(o, c) ==
  /\ making[o] = "return" /\ points[c] = Null
  /\ making' = [making EXCEPT ![o] = "done"]
  /\ points' = [points EXCEPT ![c] = o]
  /\ AddRef(o)
  /\ UNCHANGED <<life, dying, locks, unloaded, crashed>>

-----------------------------------------------------------------------------
(* Use.                                                                    *)

(* DoWork may run as long as a task has the body.                          *)
Runs(b) == \E c \in Clients : points[c] = b

(* A CComPtr is copied, within a thread or to another one; a body that     *)
(* runs copies the `self' it captured, which may be the last there is.     *)
Copy(from, to) ==
  /\ points[from] # Null /\ points[to] = Null
  /\ from \in Bodies => Runs(from)
  /\ points' = [points EXCEPT ![to] = points[from]]
  /\ AddRef(points[from])
  /\ UNCHANGED <<life, making, dying, locks, unloaded, crashed>>

(* A CComPtr goes: a client's at any time, a body's `self' with the body.  *)
Drop(p) ==
  /\ points[p] # Null
  /\ p \in Bodies => life[p] = "destroyed"
  /\ points' = [points EXCEPT ![p] = Null]
  /\ Release(points[p])
  /\ UNCHANGED <<life, making, locks, unloaded, crashed>>

(* `delete this', after the decrement: other threads run in between.       *)
Delete(o) ==
  /\ o \in dying
  /\ dying' = dying \ {o}
  /\ Destroy(o)
  /\ UNCHANGED <<making, count, points, unloaded, crashed>>

(* COM asks DllCanUnloadNow and unloads the module.                        *)
Unload ==
  /\ locks = 0 /\ ~unloaded
  /\ unloaded' = TRUE
  /\ UNCHANGED <<life, making, count, points, dying, locks, crashed>>

Constructing(o) ==
  Guard(o) \/ QueryItself(o) \/ ReleaseItself(o) \/ Unguard(o) \/ Discard(o)

Next ==
  /\ ~crashed
  /\ \/ \E o \in Objects : New(o) \/ Constructing(o) \/ Delete(o)
     \/ \E o \in Objects, c \in Clients : Attach(o, c)
     \/ \E from \in Pointers, to \in Clients : Copy(from, to)
     \/ \E p \in Pointers : Drop(p)
     \/ Unload

Spec == Init /\ [][Next]_vars

(* A thread inside Release, or inside a destructor, goes on.               *)
FairSpec ==
  /\ Spec
  /\ \A o \in Objects : WF_vars(~crashed /\ Delete(o))
  /\ \A b \in Bodies : WF_vars(~crashed /\ Drop(b))

-----------------------------------------------------------------------------
(* Properties.                                                             *)

UnderConstruction(o) == life[o] # "none" /\ making[o] # "done"

(* No CComPtr, on any thread, points to an object that is destroyed or     *)
(* about to be: a body finds its package alive however many were dropped   *)
(* meanwhile, and no object dies of the CComPtr its own FinalConstruct     *)
(* makes of it.                                                            *)
NothingDangles ==
  /\ \A p \in Pointers :
       points[p] # Null /\ (p \in Bodies => life[p] = "alive")
         => life[points[p]] = "alive" /\ points[p] \notin dying
  /\ \A o \in Objects :
       UnderConstruction(o) => life[o] = "alive" /\ o \notin dying

(* The module is unloaded only when it is not in use: there is no object,  *)
(* no pointer to one and no destructor to be run.  (What a destructor does *)
(* after its Unlock is beyond what a count of objects can tell.)           *)
UnloadedWhenUnused ==
  unloaded => /\ dying = {}
              /\ \A o \in Objects : life[o] # "alive"
              /\ \A p \in Pointers : points[p] = Null

Unreferenced(o) ==
  /\ life[o] = "alive" /\ making[o] = "done"
  /\ \A p \in Pointers : points[p] # o

(* What nobody points to is destroyed in the end: a package that outlived  *)
(* Close in a task's lambda goes with the last of those tasks.             *)
NothingLeaks == \A o \in Objects : Unreferenced(o) ~> (life[o] = "destroyed" \/ crashed)
==============================================================================
