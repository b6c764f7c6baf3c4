----------------------------- MODULE ModalProofs -----------------------------
(***************************************************************************)
(* Theorems about ModalForms, for every set of forms.                      *)
(***************************************************************************)
EXTENDS ModalForms, Integers, TLAPS

(* What the chain of a new form's owners holds.                            *)
LEMMA Prepended ==
  ASSUME NEW w \in Windows, NEW s \in Seq(Windows)
  PROVE  /\ <<w>> \o s \in Seq(Windows)
         /\ <<w>> \o s # <<>>
         /\ Head(<<w>> \o s) = w
         /\ \A v : (\E i \in DOMAIN (<<w>> \o s) : (<<w>> \o s)[i] = v)
                     <=> v = w \/ \E i \in DOMAIN s : s[i] = v
<1>. DEFINE t == <<w>> \o s
<1>1. t \in Seq(Windows) /\ Len(t) = 1 + Len(s) /\ t[1] = w
  OBVIOUS
<1>2. \A i \in DOMAIN s : i + 1 \in DOMAIN t /\ t[i + 1] = s[i]
  OBVIOUS
<1>3. \A i \in DOMAIN t : i = 1 \/ (i - 1 \in DOMAIN s /\ t[i] = s[i - 1])
  OBVIOUS
<1>4. t # <<>> /\ Head(t) = t[1]
  <2>. HIDE DEF t
  <2>. QED
    BY <1>1
<1>5. 1 \in DOMAIN t
  OBVIOUS
<1>6. ASSUME NEW v
      PROVE  (\E i \in DOMAIN t : t[i] = v) <=> v = w \/ \E i \in DOMAIN s : s[i] = v
  <2>. HIDE DEF t
  <2>1. ASSUME NEW i \in DOMAIN t, t[i] = v
        PROVE  v = w \/ \E j \in DOMAIN s : s[j] = v
    BY <2>1, <1>1, <1>3
  <2>2. v = w => \E i \in DOMAIN t : t[i] = v
    BY <1>1, <1>5
  <2>3. ASSUME NEW i \in DOMAIN s, s[i] = v
        PROVE  \E j \in DOMAIN t : t[j] = v
    BY <2>3, <1>2
  <2>. QED
    BY <2>1, <2>2, <2>3
<1>. HIDE DEF t
<1>7. t \in Seq(Windows) /\ t # <<>> /\ Head(t) = w
  BY <1>1, <1>4
<1>. QED
  BY <1>6, <1>7 DEF t

Made(f) == owners[f] # <<>>

(* A form's owners are the one it was made for and that one's owners.      *)
Chain ==
  \A f \in Forms : Made(f) =>
    /\ Owner(f) \in Windows
    /\ Owner(f) \in Forms => Made(Owner(f))
    /\ \A w : IsOwned(f, w) <=>
                w = Owner(f) \/ (Owner(f) \in Forms /\ IsOwned(Owner(f), w))

(* A form that owns another was made before.                               *)
OwnersMade == \A f, w \in Forms : IsOwned(f, w) => Made(w)

(* The owners of an owner are owners.                                      *)
Transitive ==
  \A f, w \in Forms : IsOwned(f, w) => \A v : IsOwned(w, v) => IsOwned(f, v)

(* A window is there as long as its owners are, and a form that is held    *)
(* without one lost it together with its owner's.                          *)
Standing ==
  /\ \A f \in held : Made(f)
  /\ \A f \in up, w \in Forms : IsOwned(f, w) => w \in up
  /\ \A f \in held \ up : Owner(f) \in Forms \ up

(* Of two forms that have one owner, the second was given it while it was  *)
(* disabled.                                                               *)
Twins ==
  \A f, g \in up : f # g /\ Owner(f) = Owner(g)
                     => Owner(f) \in contested \union {Desktop}

FormsInv ==
  /\ TypeOK /\ Chain /\ OwnersMade /\ Transitive /\ Standing
  /\ Twins /\ ModalIsModal /\ EnabledWhenDone

LEMMA FormsInit == Init => FormsInv
<1>1. ASSUME Init, NEW f \in Forms PROVE ~Made(f) /\ \A w : ~IsOwned(f, w)
  BY <1>1 DEF Init, Made, IsOwned
<1>2. Init => TypeOK
  BY DEF Init, TypeOK, Windows
<1>. QED
  BY <1>1, <1>2 DEF Init, FormsInv, Chain, OwnersMade, Transitive, Standing, Twins,
                    ModalIsModal, EnabledWhenDone

-----------------------------------------------------------------------------
LEMMA CreateStep ==
  ASSUME FormsInv, NEW f \in Forms, NEW hroot \in FrameHwnds, CreateModal(f, hroot)
  PROVE  FormsInv'
<1>. USE FormsAssumption
<1>. DEFINE chain == IF hroot \in Forms THEN owners[hroot] ELSE <<>>
<1>1. /\ TypeOK /\ ~Made(f) /\ chain \in Seq(Windows) /\ hroot \in Windows
      /\ hroot \in Forms => hroot \in up /\ Made(hroot)
      /\ owners' = [owners EXCEPT ![f] = <<hroot>> \o chain]
  BY DEF FormsInv, TypeOK, CreateModal, FrameHwnds, InFront, Windows, Made, Standing
<1>2. hroot # f
  BY <1>1
<1>3. /\ owners' \in [Forms -> Seq(Windows)]
      /\ Made(f)' /\ Owner(f)' = hroot
      /\ \A w : IsOwned(f, w)' <=> w = hroot \/ (hroot \in Forms /\ IsOwned(hroot, w))
  <2>1. owners'[f] = <<hroot>> \o chain
    BY <1>1 DEF TypeOK
  <2>2. /\ <<hroot>> \o chain \in Seq(Windows)
        /\ <<hroot>> \o chain # <<>>
        /\ Head(<<hroot>> \o chain) = hroot
        /\ \A v : (\E i \in DOMAIN (<<hroot>> \o chain) : (<<hroot>> \o chain)[i] = v)
                    <=> v = hroot \/ \E i \in DOMAIN chain : chain[i] = v
    <3>1. hroot \in Windows /\ chain \in Seq(Windows)
      BY <1>1
    <3>. HIDE DEF chain
    <3>. QED
      BY <3>1, Prepended, Zenon
  <2>3. \A v : (\E i \in DOMAIN chain : chain[i] = v)
                 <=> hroot \in Forms /\ IsOwned(hroot, v)
    BY DEF IsOwned
  <2>. HIDE DEF chain
  <2>4. owners' \in [Forms -> Seq(Windows)]
    BY <1>1, <2>2 DEF TypeOK
  <2>5. Made(f)' /\ Owner(f)' = hroot
    BY <2>1, <2>2 DEF Made, Owner
  <2>6. \A v : IsOwned(f, v)' <=> \E i \in DOMAIN (<<hroot>> \o chain) :
                                    (<<hroot>> \o chain)[i] = v
    BY <2>1 DEF IsOwned
  <2>. QED
    BY <2>2, <2>3, <2>4, <2>5, <2>6
<1>4. \A g \in Forms \ {f} :
        /\ Made(g)' = Made(g) /\ Owner(g)' = Owner(g)
        /\ \A w : IsOwned(g, w)' = IsOwned(g, w)
  <2>1. \A g \in Forms \ {f} : owners'[g] = owners[g]
    BY <1>1 DEF TypeOK
  <2>. QED
    BY <2>1 DEF Made, Owner, IsOwned
<1>5. \A g \in Forms : ~IsOwned(g, f)
  BY <1>1 DEF FormsInv, OwnersMade
<1>6. \A g \in Forms : Made(g) => Owner(g) # f
  BY <1>1 DEF FormsInv, Chain
<1>7. /\ up' = up \union {f} /\ held' = held \union {f}
      /\ disabled' = disabled \union ({hroot} \ {Desktop})
      /\ contested' = contested \union ({hroot} \intersect disabled)
      /\ standing' = standing
  BY DEF CreateModal
<1>8. TypeOK'
  BY <1>1, <1>3, <1>7 DEF TypeOK, Windows
<1>9. Chain'
  <2>1. ASSUME NEW g \in Forms, Made(g)', g # f
        PROVE  /\ Owner(g)' \in Windows
               /\ Owner(g)' \in Forms => Made(Owner(g))'
               /\ \A w : IsOwned(g, w)' <=>
                    w = Owner(g)' \/ (Owner(g)' \in Forms /\ IsOwned(Owner(g), w)')
    <3>1. Made(g) /\ Owner(g)' = Owner(g) /\ Owner(g) # f
      BY <2>1, <1>4, <1>6
    <3>2. Owner(g) \in Forms => /\ Made(Owner(g))' = Made(Owner(g))
                                /\ \A w : IsOwned(Owner(g), w)' = IsOwned(Owner(g), w)
      <4>1. \A h \in Forms \ {f} : owners'[h] = owners[h]
        BY <1>1 DEF TypeOK
      <4>. QED
        BY <4>1, <3>1 DEF Made, IsOwned
    <3>. QED
      BY <2>1, <3>1, <3>2, <1>4 DEF FormsInv, Chain
  <2>2. /\ Owner(f)' \in Windows
        /\ Owner(f)' \in Forms => Made(Owner(f))'
        /\ \A w : IsOwned(f, w)' <=>
             w = Owner(f)' \/ (Owner(f)' \in Forms /\ IsOwned(Owner(f), w)')
    <3>1. hroot \in Forms => owners'[hroot] = owners[hroot]
      BY <1>1, <1>2 DEF TypeOK
    <3>2. hroot \in Forms => /\ Made(hroot)' = Made(hroot)
                             /\ \A w : IsOwned(hroot, w)' = IsOwned(hroot, w)
      BY <3>1 DEF Made, IsOwned
    <3>3. Owner(f)' = hroot
      BY <1>3
    <3>4. /\ Made(Owner(f))' = Made(hroot)'
          /\ \A w : IsOwned(Owner(f), w)' = IsOwned(hroot, w)'
      BY <3>3 DEF Made, IsOwned
    <3>. QED
      BY <1>1, <1>3, <3>2, <3>3, <3>4
  <2>. QED
    BY <2>1, <2>2 DEF Chain
<1>10. OwnersMade'
  BY <1>1, <1>2, <1>3, <1>4, <1>5 DEF FormsInv, OwnersMade
<1>11. Transitive'
  BY <1>1, <1>2, <1>3, <1>4, <1>5 DEF FormsInv, Transitive
<1>12. Standing'
  <2>1. \A g \in held' : Made(g)'
    BY <1>1, <1>3, <1>4, <1>7 DEF FormsInv, Standing, TypeOK
  <2>2. \A g \in up', w \in Forms : IsOwned(g, w)' => w \in up'
    BY <1>1, <1>3, <1>4, <1>7 DEF FormsInv, Standing, TypeOK
  <2>3. \A g \in held' \ up' : Owner(g)' \in Forms \ up'
    BY <1>1, <1>4, <1>6, <1>7 DEF FormsInv, Standing, TypeOK
  <2>. QED
    BY <2>1, <2>2, <2>3 DEF Standing
<1>13. Twins'
  <2>1. \A g \in up : Owner(g) = hroot => hroot \in contested' \union {Desktop}
    BY <1>7 DEF FormsInv, ModalIsModal
  <2>2. \A g \in up \ {f} : Owner(g)' = Owner(g)
    BY <1>1, <1>4 DEF TypeOK
  <2>. QED
    BY <2>1, <2>2, <1>3, <1>7 DEF FormsInv, Twins
<1>14. ModalIsModal'
  BY <1>1, <1>3, <1>4, <1>7 DEF FormsInv, ModalIsModal, TypeOK
<1>15. EnabledWhenDone'
  <2>1. \A g \in held : g \in Forms \ {f}
    BY <1>1 DEF FormsInv, Standing, TypeOK
  <2>. QED
    BY <2>1, <1>3, <1>4, <1>7 DEF FormsInv, EnabledWhenDone
<1>. QED
  BY <1>8, <1>9, <1>10, <1>11, <1>12, <1>13, <1>14, <1>15 DEF FormsInv

-----------------------------------------------------------------------------
LEMMA DropStep ==
  ASSUME FormsInv, NEW f \in Forms, DropForm(f)
  PROVE  FormsInv'
<1>1. /\ f \in held /\ held' = held \ {f}
      /\ up' = up \ GoesWith(f)
      /\ disabled' = disabled \ (GoesWith(f) \union {Owner(f)})
      /\ UNCHANGED <<standing, owners, contested>>
  BY DEF DropForm, Captured
<1>2. /\ TypeOK /\ Made(f) /\ f \in GoesWith(f)
      /\ \A g \in up : g \in GoesWith(f) <=> g = f \/ IsOwned(g, f)
  BY <1>1 DEF FormsInv, Standing, GoesWith
<1>3. /\ \A g : Made(g)' = Made(g) /\ Owner(g)' = Owner(g)
      /\ \A g, w : IsOwned(g, w)' = IsOwned(g, w)
  BY <1>1 DEF Made, Owner, IsOwned
<1>4. TypeOK'
  BY <1>1, <1>2 DEF TypeOK
<1>5. Chain' /\ OwnersMade' /\ Transitive'
  <2>1. Chain'
    <3>1. UNCHANGED owners
      BY <1>1
    <3>. QED
      BY <3>1 DEF FormsInv, Chain, Owner, Made, IsOwned
  <2>. QED
    BY <2>1, <1>3 DEF FormsInv, OwnersMade, Transitive
<1>6. Standing'
  <2>1. \A g \in held' : Made(g)'
    BY <1>1, <1>3 DEF FormsInv, Standing
  <2>2. ASSUME NEW g \in up', NEW w \in Forms, IsOwned(g, w)'
        PROVE  w \in up'
    <3>1. g \in up /\ ~IsOwned(g, f) /\ g # f /\ IsOwned(g, w)
      BY <2>2, <1>1, <1>2, <1>3
    <3>2. w \in up
      BY <3>1 DEF FormsInv, Standing
    <3>3. w # f /\ ~IsOwned(w, f)
      BY <3>1, <1>2 DEF FormsInv, Transitive, TypeOK
    <3>. QED
      BY <3>2, <3>3, <1>1, <1>2
  <2>3. ASSUME NEW g \in held' \ up' PROVE Owner(g)' \in Forms \ up'
    <3>1. g \in held /\ g # f /\ g \in Forms
      BY <1>1, <1>2 DEF TypeOK
    <3>2. CASE g \notin up
      BY <3>1, <3>2, <1>1, <1>3 DEF FormsInv, Standing
    <3>3. CASE g \in up
      <4>1. IsOwned(g, f) /\ Made(g)
        BY <3>1, <3>3, <2>3, <1>1, <1>2 DEF FormsInv, Standing
      <4>2. Owner(g) = f \/ (Owner(g) \in Forms /\ IsOwned(Owner(g), f))
        BY <4>1, <3>1 DEF FormsInv, Chain
      <4>3. Owner(g) \notin up'
        BY <4>2, <1>1, <1>2
      <4>. QED
        BY <4>2, <4>3, <1>3
    <3>. QED
      BY <3>2, <3>3
  <2>. QED
    BY <2>1, <2>2, <2>3 DEF Standing
<1>7. Twins'
  BY <1>1, <1>3 DEF FormsInv, Twins
<1>8. ModalIsModal'
  <2>. SUFFICES ASSUME NEW g \in up'
                PROVE  Owner(g) \in disabled' \union contested \union {Desktop}
    BY <1>1, <1>3 DEF ModalIsModal
  <2>1. g \in up /\ g # f /\ ~IsOwned(g, f) /\ g \in Forms /\ Made(g)
    BY <1>1, <1>2 DEF TypeOK, FormsInv, Standing
  <2>2. Owner(g) \notin GoesWith(f)
    <3>1. IsOwned(g, Owner(g))
      BY <2>1 DEF FormsInv, Chain
    <3>2. Owner(g) # f
      BY <3>1, <2>1
    <3>3. Owner(g) \in Forms => ~IsOwned(Owner(g), f)
      BY <3>1, <2>1 DEF FormsInv, Transitive
    <3>. QED
      BY <3>2, <3>3, <1>2 DEF GoesWith, TypeOK
  <2>3. CASE Owner(g) # Owner(f)
    BY <2>1, <2>2, <2>3, <1>1 DEF FormsInv, ModalIsModal
  <2>4. CASE Owner(g) = Owner(f) /\ f \in up
    BY <2>1, <2>4 DEF FormsInv, Twins
  <2>5. CASE Owner(g) = Owner(f) /\ f \notin up
    <3>1. Owner(f) \in Forms \ up
      BY <2>5, <1>1 DEF FormsInv, Standing
    <3>2. IsOwned(g, Owner(g))
      BY <2>1 DEF FormsInv, Chain
    <3>3. Owner(g) \in up
      BY <3>1, <3>2, <2>1, <2>5 DEF FormsInv, Standing
    <3>. QED
      BY <3>1, <3>3, <2>5
  <2>. QED
    BY <2>3, <2>4, <2>5
<1>9. EnabledWhenDone'
  <2>. SUFFICES ASSUME NEW w \in disabled' PROVE \E g \in held' : Owner(g) = w
    BY <1>3 DEF EnabledWhenDone
  <2>1. w # Owner(f) /\ \E g \in held : Owner(g) = w
    BY <1>1 DEF FormsInv, EnabledWhenDone
  <2>. QED
    BY <2>1, <1>1
<1>. QED
  BY <1>4, <1>5, <1>6, <1>7, <1>8, <1>9 DEF FormsInv

LEMMA FormsInvariant == Spec => []FormsInv
<1>1. FormsInv /\ [Next]_vars => FormsInv'
  <2>. SUFFICES ASSUME FormsInv, [Next]_vars PROVE FormsInv'
    OBVIOUS
  <2>1. CASE Destroy \/ UNCHANGED vars
    <3>1. /\ UNCHANGED <<held, up, owners, disabled, contested>>
          /\ standing' \in BOOLEAN
      BY <2>1 DEF Destroy, vars, FormsInv, TypeOK
    <3>2. TypeOK'
      BY <3>1 DEF FormsInv, TypeOK
    <3>3. Chain' /\ OwnersMade' /\ Transitive'
      BY <3>1 DEF FormsInv, Chain, OwnersMade, Transitive, Made, Owner, IsOwned
    <3>4. Standing' /\ Twins' /\ ModalIsModal' /\ EnabledWhenDone'
      BY <3>1 DEF FormsInv, Standing, Twins, ModalIsModal, EnabledWhenDone,
                  Made, Owner, IsOwned
    <3>. QED
      BY <3>2, <3>3, <3>4 DEF FormsInv
  <2>. QED
    BY <2>1, CreateStep, DropStep DEF Next
<1>. QED
  BY <1>1, FormsInit, PTL DEF Spec

(* As long as a form is there its owner takes no input: no order in which  *)
(* forms are made and dropped enables it, except where the shell gave the  *)
(* owner to two forms at once.  The deleter of a form that went with its   *)
(* owner enables nobody else's, for that owner is gone, too (Standing).    *)
THEOREM OwnersStayDisabled == Spec => []ModalIsModal
<1>1. FormsInv => ModalIsModal
  BY DEF FormsInv
<1>. QED
  BY <1>1, FormsInvariant, PTL

(* No window stays disabled when the form it was disabled for is dropped:  *)
(* the last form's deleter leaves none behind, before or after ~factory.   *)
THEOREM NobodyStaysDisabled == Spec => []EnabledWhenDone
<1>1. FormsInv => EnabledWhenDone
  BY DEF FormsInv
<1>. QED
  BY <1>1, FormsInvariant, PTL

(* No window is there for a form the client has dropped: the deleter runs  *)
(* `delete p' once, and a form that went with its owner is not there twice.*)
THEOREM FormsKeepTypes == Spec => []TypeOK
<1>1. FormsInv => TypeOK
  BY DEF FormsInv
<1>. QED
  BY <1>1, FormsInvariant, PTL
==============================================================================
