--------------------------- MODULE ComObjectProofs ---------------------------
(***************************************************************************)
(* Theorems about ComObject: a reference count is what the CComPtrs and    *)
(* the object's own construction add up to, and the module's lock count is *)
(* the number of objects, for any finite number of either.                 *)
(***************************************************************************)
EXTENDS ComObject, Integers, FiniteSetTheorems, TLAPS

Pointing(at, o) == {p \in Pointers : at[p] = o}
Living(at) == {o \in Objects : at[o] = "alive"}

(* How many CComPtrs point to each object.                                 *)
References(at) == [o \in Objects |-> Cardinality(Pointing(at, o))]

(* The references CreateInstance has on the object it makes.               *)
Own(o) ==
  CASE making[o] = "query"   -> 1
    [] making[o] = "unquery" -> 2
    [] making[o] = "unguard" -> Protection(o)
    [] OTHER                 -> 0

Counted ==
  \A o \in Objects : count[o] = References(points)[o] + Own(o)

(* An object is made by one thread, and is given to nobody before it is    *)
(* done; a body's `self' is copied into it when it begins.                 *)
Made ==
  \A o \in Objects :
    /\ life[o] = "none" => making[o] = "guard" /\ (o \in Bodies => points[o] = Null)
    /\ making[o] # "done" => /\ References(points)[o] = 0
                             /\ life[o] # "destroyed" /\ o \notin dying
    /\ making[o] \in {"query", "unquery", "discard"} => o \in FreeThreaded
    /\ making[o] # "guard" => life[o] # "none"

(* Only the last reference's end destroys.                                 *)
Ended ==
  \A o \in Objects :
    life[o] = "destroyed" \/ o \in dying =>
      /\ making[o] = "done" /\ count[o] = 0
      /\ o \in dying => life[o] = "alive"

Locks == locks = Cardinality(Living(life)) /\ (unloaded => locks = 0)

ObjectInv == TypeOK /\ Counted /\ Made /\ Ended /\ Locks

-----------------------------------------------------------------------------
(* Counting pointers and objects.                                          *)

LEMMA PointersFinite == IsFiniteSet(Pointers)
  BY ObjectAssumption, FS_Union, FS_Subset DEF Pointers, Objects

LEMMA ReferencesType ==
  ASSUME NEW at
  PROVE  /\ References(at) \in [Objects -> Nat]
         /\ \A o \in Objects : References(at)[o] = 0 <=> Pointing(at, o) = {}
<1>1. ASSUME NEW o \in Objects
      PROVE  /\ Cardinality(Pointing(at, o)) \in Nat
             /\ Cardinality(Pointing(at, o)) = 0 <=> Pointing(at, o) = {}
  <2>1. Pointing(at, o) \in SUBSET Pointers
    BY DEF Pointing
  <2>2. IsFiniteSet(Pointing(at, o))
    BY <2>1, PointersFinite, FS_Subset
  <2>. QED
    BY <2>2, FS_EmptySet, FS_CardinalityType
<1>. QED
  BY <1>1 DEF References

(* A pointer that was empty makes one more reference ...                   *)
LEMMA OneMore ==
  ASSUME NEW at \in [Pointers -> Objects \union {Null}], NEW p \in Pointers,
         NEW q \in Objects, at[p] = Null
  PROVE  References([at EXCEPT ![p] = q]) = [References(at) EXCEPT ![q] = @ + 1]
<1>. DEFINE to == [at EXCEPT ![p] = q]
<1>1. Pointing(to, q) = Pointing(at, q) \union {p} /\ p \notin Pointing(at, q)
  BY ObjectAssumption DEF Pointing
<1>2. \A o \in Objects \ {q} : Pointing(to, o) = Pointing(at, o)
  BY ObjectAssumption DEF Pointing
<1>. HIDE DEF to
<1>3. IsFiniteSet(Pointing(at, q))
  BY PointersFinite, FS_Subset DEF Pointing
<1>4. Cardinality(Pointing(to, q)) = Cardinality(Pointing(at, q)) + 1
  BY <1>1, <1>3, FS_AddElement
<1>5. References(to) = [References(at) EXCEPT ![q] = @ + 1]
  BY <1>2, <1>4 DEF References
<1>. QED
  BY <1>5 DEF to

(* ... and one that is emptied, one less.                                  *)
LEMMA OneLess ==
  ASSUME NEW at \in [Pointers -> Objects \union {Null}], NEW p \in Pointers,
         NEW q \in Objects, at[p] = q
  PROVE  References([at EXCEPT ![p] = Null]) = [References(at) EXCEPT ![q] = @ - 1]
<1>. DEFINE to == [at EXCEPT ![p] = Null]
<1>1. Pointing(to, q) = Pointing(at, q) \ {p} /\ p \in Pointing(at, q)
  BY ObjectAssumption DEF Pointing
<1>2. \A o \in Objects \ {q} : Pointing(to, o) = Pointing(at, o)
  BY ObjectAssumption DEF Pointing
<1>. HIDE DEF to
<1>3. IsFiniteSet(Pointing(at, q))
  BY PointersFinite, FS_Subset DEF Pointing
<1>4. Cardinality(Pointing(to, q)) = Cardinality(Pointing(at, q)) - 1
  BY <1>1, <1>3, FS_RemoveElement
<1>5. References(to) = [References(at) EXCEPT ![q] = @ - 1]
  BY <1>2, <1>4 DEF References
<1>. QED
  BY <1>5 DEF to

LEMMA LivingCounts ==
  ASSUME NEW at
  PROVE  /\ IsFiniteSet(Living(at)) /\ Cardinality(Living(at)) \in Nat
         /\ Cardinality(Living(at)) = 0 <=> Living(at) = {}
<1>1. Living(at) \in SUBSET Objects
  BY DEF Living
<1>. QED
  BY <1>1, ObjectAssumption, FS_Subset, FS_EmptySet, FS_CardinalityType

LEMMA OneBorn ==
  ASSUME NEW at \in [Objects -> {"none", "alive", "destroyed"}], NEW o \in Objects,
         at[o] # "alive"
  PROVE  Cardinality(Living([at EXCEPT ![o] = "alive"])) = Cardinality(Living(at)) + 1
<1>. DEFINE to == [at EXCEPT ![o] = "alive"]
<1>1. Living(to) = Living(at) \union {o} /\ o \notin Living(at)
  BY DEF Living
<1>. HIDE DEF to
<1>2. Cardinality(Living(to)) = Cardinality(Living(at)) + 1
  BY <1>1, LivingCounts, FS_AddElement
<1>. QED
  BY <1>2 DEF to

LEMMA OneDied ==
  ASSUME NEW at \in [Objects -> {"none", "alive", "destroyed"}], NEW o \in Objects,
         at[o] = "alive"
  PROVE  /\ Cardinality(Living([at EXCEPT ![o] = "destroyed"])) = Cardinality(Living(at)) - 1
         /\ Cardinality(Living(at)) # 0
<1>. DEFINE to == [at EXCEPT ![o] = "destroyed"]
<1>1. Living(to) = Living(at) \ {o} /\ o \in Living(at)
  BY DEF Living
<1>. HIDE DEF to
<1>2. Cardinality(Living(to)) = Cardinality(Living(at)) - 1
  BY <1>1, LivingCounts, FS_RemoveElement
<1>3. Cardinality(Living(at)) # 0
  BY <1>1, LivingCounts
<1>. QED
  BY <1>2, <1>3 DEF to

-----------------------------------------------------------------------------
(* The steps.                                                              *)

LEMMA ObjectInit == Init => ObjectInv
<1>. SUFFICES ASSUME Init PROVE ObjectInv
  OBVIOUS
<1>1. \A o \in Objects : Pointing(points, o) = {}
  BY ObjectAssumption DEF Init, Pointing
<1>2. Living(life) = {}
  BY DEF Init, Living
<1>3. TypeOK
  BY DEF Init, TypeOK, Stages
<1>4. Counted
  BY <1>1, ReferencesType DEF Init, Counted, Own
<1>5. Made /\ Ended
  BY <1>1, ReferencesType DEF Init, Made, Ended, Pointers, Objects, FreeThreaded
<1>6. Locks
  BY <1>2, LivingCounts DEF Init, Locks
<1>. QED
  BY <1>3, <1>4, <1>5, <1>6 DEF ObjectInv

(* Construction touches no pointer and no other object.                    *)
LEMMA ConstructingStep ==
  ASSUME ObjectInv, NEW o \in Objects,
         Guard(o) \/ QueryItself(o) \/ ReleaseItself(o) \/ Unguard(o)
  PROVE  ObjectInv'
<1>1. /\ UNCHANGED <<life, points, locks, unloaded, crashed>>
      /\ making[o] # "done" /\ life[o] # "none"
  BY DEF ObjectInv, Made, Guard, QueryItself, ReleaseItself, Unguard
<1>2. /\ TypeOK /\ References(points)[o] = 0
      /\ count[o] = Own(o) /\ o \notin dying
  BY <1>1, ReferencesType DEF ObjectInv, Made, Counted, TypeOK, Own, Protection
<1>3. /\ making' \in [Objects -> Stages] /\ count' \in [Objects -> Nat]
      /\ dying' = dying
      /\ making'[o] \notin {"guard", "done"} /\ count'[o] = Own(o)'
      /\ making'[o] \in {"query", "unquery", "discard"} => o \in FreeThreaded
      /\ \A p \in Objects \ {o} : making'[p] = making[p] /\ count'[p] = count[p]
  <2>. USE <1>2 DEF TypeOK, Stages, Own, Protection
  <2>1. CASE Guard(o)
    BY <2>1 DEF Guard
  <2>2. CASE QueryItself(o)
    BY <2>2 DEF QueryItself, AddRef, ObjectInv, Made
  <2>3. CASE ReleaseItself(o)
    BY <2>3 DEF ReleaseItself, Release, IsLast, ObjectInv, Made
  <2>4. CASE Unguard(o)
    BY <2>4 DEF Unguard, Unprotect
  <2>. QED
    BY <2>1, <2>2, <2>3, <2>4
<1>4. TypeOK'
  BY <1>1, <1>2, <1>3 DEF TypeOK
<1>5. Counted'
  <2>1. \A p \in Objects \ {o} : Own(p)' = Own(p)
    BY <1>3 DEF Own
  <2>. QED
    BY <2>1, <1>1, <1>2, <1>3 DEF ObjectInv, Counted, TypeOK, Own, Protection
<1>6. Made' /\ Ended' /\ Locks'
  BY <1>1, <1>2, <1>3 DEF ObjectInv, Made, Ended, Locks
<1>. QED
  BY <1>4, <1>5, <1>6 DEF ObjectInv

LEMMA NewStep ==
  ASSUME ObjectInv, NEW o \in Objects, New(o)
  PROVE  ObjectInv'
<1>1. /\ life[o] = "none" /\ ~unloaded
      /\ life' = [life EXCEPT ![o] = "alive"] /\ locks' = locks + 1
      /\ UNCHANGED <<making, dying, unloaded, crashed>>
      /\ TypeOK /\ making[o] = "guard" /\ o \notin dying
  BY DEF New, Locked, ObjectInv, Made
<1>2. \A p \in Objects : Own(p)' = Own(p) /\ Own(p) \in Nat
  BY <1>1 DEF Own, Protection
<1>3. /\ points' \in [Pointers -> Objects \union {Null}]
      /\ count' \in [Objects -> Nat]
      /\ \A p \in Objects \ {o} : p \in Bodies => points'[p] = points[p]
      /\ \A p \in Objects :
           making[p] # "done" =>
             References(points')[p] = References(points)[p] /\ count'[p] = count[p]
      /\ Counted' /\ Ended'
  <2>1. CASE o \notin Bodies
    <3>1. UNCHANGED <<points, count>>
      BY <2>1 DEF New
    <3>. QED
      BY <3>1, <1>1, <1>2 DEF TypeOK, ObjectInv, Counted, Ended
  <2>2. CASE o \in Bodies
    <3>1. PICK c \in Clients : /\ points[c] \in Packages
                               /\ points' = [points EXCEPT ![o] = points[c]]
                               /\ count' = [count EXCEPT ![points[c]] = @ + 1]
      BY <2>2 DEF New, AddRef
    <3>2. PICK k \in Packages :
            /\ o \in Pointers /\ points[o] = Null /\ k \in Objects
            /\ k # o /\ c \in Pointing(points, k)
            /\ count' = [count EXCEPT ![k] = @ + 1]
            /\ points' = [points EXCEPT ![o] = k]
      BY <2>2, <3>1, <1>1, ObjectAssumption
      DEF ObjectInv, Made, Pointers, Objects, Pointing
    <3>3. References(points') = [References(points) EXCEPT ![k] = @ + 1]
      <4>1. points \in [Pointers -> Objects \union {Null}]
        BY <1>1 DEF TypeOK
      <4>. QED
        BY <4>1, <3>2, OneMore
    <3>4. References(points)[k] # 0
      BY <3>2, ReferencesType
    <3>5. making[k] = "done" /\ count[k] # 0
      <4>1. making[k] = "done" /\ Own(k) = 0
        BY <3>2, <3>4 DEF ObjectInv, Made, Own
      <4>2. count[k] = References(points)[k]
        BY <4>1, <3>2, ReferencesType DEF ObjectInv, Counted
      <4>. QED
        BY <4>1, <4>2, <3>4
    <3>6. life[k] # "destroyed" /\ k \notin dying
      BY <3>2, <3>5 DEF ObjectInv, Ended
    <3>7. Ended'
      BY <3>2, <3>6, <1>1 DEF ObjectInv, Ended, TypeOK
    <3>8. points' \in [Pointers -> Objects \union {Null}] /\ count' \in [Objects -> Nat]
      BY <3>2, <1>1 DEF TypeOK
    <3>9. \A p \in Objects \ {k} : /\ count'[p] = count[p]
                                   /\ References(points')[p] = References(points)[p]
      BY <3>2, <3>3, <1>1, ReferencesType DEF TypeOK
    <3>10. /\ count'[k] = count[k] + 1
           /\ References(points')[k] = References(points)[k] + 1
           /\ count[k] \in Nat /\ References(points)[k] \in Nat
      BY <3>2, <3>3, <1>1, ReferencesType DEF TypeOK
    <3>11. Counted'
      <4>1. \A p \in Objects \ {k} : count'[p] = References(points')[p] + Own(p)'
        BY <3>9, <1>2 DEF ObjectInv, Counted
      <4>2. count'[k] = References(points')[k] + Own(k)'
        BY <3>2, <3>10, <1>2 DEF ObjectInv, Counted
      <4>. QED
        BY <4>1, <4>2 DEF Counted
    <3>12. \A p \in Objects \ {o} : p \in Bodies => points'[p] = points[p]
      BY <3>2, <1>1 DEF TypeOK, Pointers
    <3>. QED
      BY <3>5, <3>7, <3>8, <3>9, <3>11, <3>12
  <2>. QED
    BY <2>1, <2>2
<1>4. TypeOK'
  <2>1. /\ points' \in [Pointers -> Objects \union {Null}]
        /\ count' \in [Objects -> Nat]
    BY <1>3
  <2>. QED
    BY <2>1, <1>1 DEF TypeOK
<1>5. Made'
  BY <1>1, <1>3, ObjectAssumption
  DEF ObjectInv, Made, TypeOK, FreeThreaded, Objects
<1>6. Locks'
  BY <1>1, OneBorn DEF ObjectInv, Locks, TypeOK
<1>. QED
  BY <1>3, <1>4, <1>5, <1>6 DEF ObjectInv

LEMMA DestroyStep ==
  ASSUME ObjectInv, NEW o \in Objects, Discard(o) \/ Delete(o)
  PROVE  ObjectInv'
<1>1. /\ UNCHANGED <<count, points, unloaded>>
      /\ life' = [life EXCEPT ![o] = "destroyed"] /\ locks' = locks - 1
      /\ dying' = dying \ {o} /\ life[o] = "alive"
      /\ making' = [making EXCEPT ![o] = "done"]
      /\ crashed' \in BOOLEAN /\ TypeOK
      /\ count[o] = 0 /\ Own(o) = 0
  <2>1. CASE Discard(o)
    <3>1. References(points)[o] = 0 /\ Own(o) = 0 /\ life[o] = "alive" /\ o \notin dying
      BY <2>1 DEF ObjectInv, Made, Discard, Own, TypeOK
    <3>2. count[o] = 0
      BY <3>1, ReferencesType DEF ObjectInv, Counted
    <3>. QED
      BY <2>1, <3>1, <3>2 DEF Discard, Destroy, ObjectInv
  <2>2. CASE Delete(o)
    <3>1. making[o] = "done" /\ life[o] = "alive" /\ count[o] = 0
      BY <2>2 DEF ObjectInv, Ended, Delete
    <3>. QED
      BY <2>2, <3>1 DEF Delete, Destroy, ObjectInv, TypeOK, Own
  <2>. QED
    BY <2>1, <2>2
<1>2. Locks' /\ locks' \in Nat
  BY <1>1, OneDied, LivingCounts DEF ObjectInv, Locks, TypeOK
<1>3. TypeOK'
  BY <1>1, <1>2 DEF TypeOK, Stages
<1>4. Counted'
  <2>1. \A p \in Objects : Own(p)' = Own(p)
    BY <1>1 DEF Own, TypeOK
  <2>. QED
    BY <2>1, <1>1 DEF ObjectInv, Counted
<1>5. Made' /\ Ended'
  BY <1>1 DEF ObjectInv, Made, Ended, TypeOK
<1>. QED
  BY <1>2, <1>3, <1>4, <1>5 DEF ObjectInv

(* A client's pointer that was empty is given an object someone refers to, *)
(* or one that has just been made.                                         *)
LEMMA AimStep ==
  ASSUME ObjectInv, NEW o \in Objects, NEW c \in Clients, points[c] = Null,
         points' = [points EXCEPT ![c] = o], AddRef(o),
         making' = [making EXCEPT ![o] = "done"],
         making[o] = "return" \/ References(points)[o] # 0,
         UNCHANGED <<life, dying, locks, unloaded, crashed>>
  PROVE  ObjectInv'
<1>1. /\ TypeOK /\ Own(o) = 0 /\ o \notin dying
      /\ life[o] \notin {"none", "destroyed"}
  <2>1. CASE making[o] = "return"
    BY <2>1 DEF ObjectInv, Made, Own
  <2>2. CASE References(points)[o] # 0
    <3>1. making[o] = "done" /\ Own(o) = 0
      BY <2>2 DEF ObjectInv, Made, Own
    <3>2. count[o] # 0
      BY <2>2, <3>1, ReferencesType DEF ObjectInv, Counted, TypeOK
    <3>. QED
      BY <3>1, <3>2 DEF ObjectInv, Made, Ended
  <2>. QED
    BY <2>1, <2>2
<1>2. c \in Pointers /\ c \notin Objects
  BY ObjectAssumption DEF Pointers
<1>3. References(points') = [References(points) EXCEPT ![o] = @ + 1]
  <2>1. points \in [Pointers -> Objects \union {Null}]
    BY <1>1 DEF TypeOK
  <2>. QED
    BY <2>1, <1>2, OneMore
<1>4. TypeOK'
  BY <1>1, <1>2 DEF TypeOK, AddRef, Stages
<1>5. Counted'
  <2>1. \A p \in Objects : Own(p)' = Own(p)
    BY <1>1 DEF Own, TypeOK
  <2>. QED
    BY <2>1, <1>1, <1>3, ReferencesType DEF ObjectInv, Counted, AddRef, TypeOK
<1>6. Made' /\ Ended' /\ Locks'
  BY <1>1, <1>2, <1>3, ReferencesType DEF ObjectInv, Made, Ended, Locks, AddRef, TypeOK
<1>. QED
  BY <1>4, <1>5, <1>6 DEF ObjectInv

LEMMA DropStep ==
  ASSUME ObjectInv, NEW p \in Pointers, Drop(p)
  PROVE  ObjectInv'
<1>. DEFINE o == points[p]
<1>1. /\ TypeOK /\ o \in Objects /\ References(points)[o] # 0 /\ points[p] = o
      /\ points' = [points EXCEPT ![p] = Null]
      /\ p \in Bodies => life[p] = "destroyed"
      /\ count' = [count EXCEPT ![o] = @ - 1]
      /\ dying' = IF count[o] = 1 THEN dying \union {o} ELSE dying
      /\ UNCHANGED <<life, making, locks, unloaded, crashed>>
  BY ReferencesType DEF ObjectInv, TypeOK, Drop, Release, IsLast, Pointing
<1>. HIDE DEF o
<1>2. making[o] = "done" /\ Own(o) = 0
  BY <1>1 DEF ObjectInv, Made, Own
<1>3. References(points') = [References(points) EXCEPT ![o] = @ - 1]
  BY <1>1, OneLess DEF TypeOK
<1>4. count[o] > 0
  BY <1>1, <1>2, <1>3, ReferencesType DEF ObjectInv, Counted
<1>5. life[o] = "alive" /\ o \notin dying
  BY <1>1, <1>2, <1>4 DEF ObjectInv, Made, Ended, TypeOK
<1>6. TypeOK'
  BY <1>1, <1>4 DEF TypeOK
<1>7. Counted'
  <2>1. \A q \in Objects : Own(q)' = Own(q)
    BY <1>1 DEF Own
  <2>. QED
    BY <2>1, <1>1, <1>2, <1>3, ReferencesType DEF ObjectInv, Counted, TypeOK
<1>8. Ended'
  BY <1>1, <1>2, <1>4, <1>5 DEF ObjectInv, Ended, TypeOK
<1>9. Made' /\ Locks'
  BY <1>1, <1>2, <1>3, <1>5, ReferencesType
  DEF ObjectInv, Made, Locks, TypeOK, Pointers, Objects
<1>. QED
  BY <1>6, <1>7, <1>8, <1>9 DEF ObjectInv

LEMMA ObjectInvariant == Spec => []ObjectInv
<1>1. ObjectInv /\ [Next]_vars => ObjectInv'
  <2>. SUFFICES ASSUME ObjectInv, [Next]_vars PROVE ObjectInv'
    OBVIOUS
  <2>1. ASSUME NEW o \in Objects, New(o) \/ Constructing(o) \/ Delete(o)
        PROVE  ObjectInv'
    BY <2>1, NewStep, ConstructingStep, DestroyStep DEF Constructing
  <2>2. ASSUME NEW o \in Objects, NEW c \in Clients, Attach(o, c) PROVE ObjectInv'
    BY <2>2, AimStep DEF Attach
  <2>3. ASSUME NEW from \in Pointers, NEW to \in Clients, Copy(from, to)
        PROVE  ObjectInv'
    <3>1. /\ points[from] \in Objects /\ TypeOK /\ points[to] = Null
          /\ References(points)[points[from]] # 0
          /\ points' = [points EXCEPT ![to] = points[from]] /\ AddRef(points[from])
          /\ UNCHANGED <<life, making, dying, locks, unloaded, crashed>>
      BY <2>3, ReferencesType DEF Copy, ObjectInv, TypeOK, Pointing, Pointers
    <3>2. making[points[from]] = "done"
      BY <3>1 DEF ObjectInv, Made
    <3>3. making' = [making EXCEPT ![points[from]] = "done"]
      BY <3>1, <3>2 DEF TypeOK
    <3>. QED
      BY <3>1, <3>3, AimStep
  <2>4. ASSUME NEW p \in Pointers, Drop(p) PROVE ObjectInv'
    BY <2>4, DropStep
  <2>5. CASE Unload \/ UNCHANGED vars
    <3>1. /\ UNCHANGED <<life, making, count, points, dying, locks>>
          /\ (UNCHANGED unloaded) \/ (unloaded' = TRUE /\ locks = 0)
          /\ UNCHANGED crashed
      BY <2>5 DEF Unload, vars
    <3>2. TypeOK' /\ Counted'
      BY <3>1 DEF ObjectInv, TypeOK, Counted, Own
    <3>3. Made' /\ Ended' /\ Locks'
      BY <3>1 DEF ObjectInv, Made, Ended, Locks
    <3>. QED
      BY <3>2, <3>3 DEF ObjectInv
  <2>. QED
    BY <2>1, <2>2, <2>3, <2>4, <2>5 DEF Next
<1>. QED
  BY <1>1, ObjectInit, PTL DEF Spec

-----------------------------------------------------------------------------
(* What is pointed to is referred to, and so neither gone nor going.       *)
LEMMA PointedIsAlive ==
  ASSUME ObjectInv, NEW p \in Pointers, points[p] # Null
  PROVE  /\ points[p] \in Objects
         /\ life[points[p]] = "alive" /\ points[p] \notin dying
<1>. DEFINE o == points[p]
<1>1. TypeOK /\ o \in Objects /\ References(points)[o] # 0
  BY ReferencesType DEF ObjectInv, TypeOK, Pointing
<1>. HIDE DEF o
<1>2. making[o] = "done"
  BY <1>1 DEF ObjectInv, Made
<1>3. count[o] # 0
  BY <1>1, <1>2, ReferencesType DEF ObjectInv, Counted, Own
<1>4. life[o] = "alive" /\ o \notin dying
  BY <1>1, <1>2, <1>3 DEF ObjectInv, Made, Ended, TypeOK
<1>. QED
  BY <1>1, <1>4 DEF o

(* No count is decremented below zero, and the module's lock is released   *)
(* as often as it was taken at most: the type of count and locks says so.  *)
THEOREM CountsNeverNegative == Spec => []TypeOK
<1>1. ObjectInv => TypeOK
  BY DEF ObjectInv
<1>. QED
  BY <1>1, ObjectInvariant, PTL

(* Whoever copies and drops pointers to packages and to task bodies, and   *)
(* on whatever threads, nothing points to an object that Release has given *)
(* up: not even the body that drops its package while it is destroyed, nor *)
(* FinalConstruct with the pointer it makes of an object nobody holds.     *)
THEOREM NoObjectDiesInUse == Spec => []NothingDangles
<1>1. ObjectInv => NothingDangles
  <2>. SUFFICES ASSUME ObjectInv PROVE NothingDangles
    OBVIOUS
  <2>1. \A o \in Objects : UnderConstruction(o) => life[o] = "alive" /\ o \notin dying
    BY DEF ObjectInv, Made, TypeOK, UnderConstruction
  <2>. QED
    BY <2>1, PointedIsAlive DEF NothingDangles
<1>. QED
  BY <1>1, ObjectInvariant, PTL

(* When DllCanUnloadNow lets the module go, no object, pointer or pending  *)
(* destructor of the library needs its code any more, and none is made.    *)
THEOREM ModuleOutlivesObjects == Spec => []UnloadedWhenUnused
<1>1. ObjectInv => UnloadedWhenUnused
  <2>. SUFFICES ASSUME ObjectInv, unloaded PROVE UnloadedWhenUnused
    BY DEF UnloadedWhenUnused
  <2>1. Living(life) = {}
    BY LivingCounts DEF ObjectInv, Locks
  <2>2. \A o \in Objects : life[o] # "alive"
    BY <2>1 DEF Living
  <2>3. dying = {}
    BY <2>2 DEF ObjectInv, TypeOK, Ended
  <2>. QED
    BY <2>2, <2>3, PointedIsAlive DEF UnloadedWhenUnused
<1>. QED
  BY <1>1, ObjectInvariant, PTL
=============================================================================
