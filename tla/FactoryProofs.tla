---------------------------- MODULE FactoryProofs ----------------------------
(***************************************************************************)
(* Theorems about Factory, for any number of panes, of ids and of calls.   *)
(***************************************************************************)
EXTENDS Factory, Integers, PanesProofs

(* What the client keeps is on the screen, or about to be told that it is  *)
(* not; with a shell that takes the listeners it is given.                 *)
Heard(p) ==
  /\ advised[p]
  /\ (p \in Open /\ ~Waits("close_pane", p)) \/ Waits("notify", p)

KeptInv == "unheard" \notin Disturbances => \A p \in kept : Heard(p)

(* The factory's client holds what has no destructor under way.            *)
ClientInv ==
  /\ PanesInv /\ OwnedInv(kept) /\ KeptInv
  /\ kept \subseteq Panes /\ Pending \subseteq PaneCalls

-----------------------------------------------------------------------------
(* Lemmas about dropped panes.                                             *)

DroppedPanes(ps) == {ps[i] : i \in DOMAIN ps}

LEMMA DestructionsOf ==
  ASSUME NoPane \notin Panes, kept \subseteq Panes, NEW p \in kept, NEW ps \in Dropped(p)
  PROVE  /\ p \in DroppedPanes(ps) /\ DroppedPanes(ps) \subseteq kept
         /\ Destructions(ps) \in Seq(Calls)
         /\ Elements(Destructions(ps)) = {Call("close_frame", q) : q \in DroppedPanes(ps)}
         /\ AllApart(Destructions(ps))
<1>1. ASSUME NEW q \in Panes
      PROVE  /\ Destruction(q) \in Seq(Calls) /\ AllApart(Destruction(q))
             /\ Elements(Destruction(q)) = {Call("close_frame", q)}
  BY <1>1, CallsOfPanes, ElementsOfEntry, ApartEntry DEF Destruction, OfAPane
<1>2. CASE ps = <<p>>
  <2>1. Len(ps) = 1 /\ ps[1] = p /\ DroppedPanes(ps) = {p}
    BY <1>2 DEF DroppedPanes
  <2>. QED
    BY <1>1, <2>1 DEF Destructions
<1>3. ASSUME NEW a \in kept, NEW b \in kept, a # b, ps = <<a, b>>
      PROVE  /\ DroppedPanes(ps) = {a, b}
             /\ Destructions(ps) \in Seq(Calls)
             /\ Elements(Destructions(ps)) = {Call("close_frame", q) : q \in DroppedPanes(ps)}
             /\ AllApart(Destructions(ps))
  <2>1. Len(ps) = 2 /\ ps[1] = a /\ ps[2] = b /\ DOMAIN ps = {1, 2}
    BY <1>3
  <2>2. DroppedPanes(ps) = {a, b}
    BY <2>1 DEF DroppedPanes
  <2>3. Destructions(ps) = Destruction(a) \o Destruction(b)
    BY <2>1 DEF Destructions
  <2>4. \A c \in Elements(Destruction(a)), d \in Elements(Destruction(b)) : Apart(c, d)
    BY <1>1, <1>3 DEF Apart, Call
  <2>. QED
    BY <1>1, <2>2, <2>3, <2>4, ElementsOfConcat, ApartConcat
<1>4. ps = <<p>> \/ \E q \in kept \ {p} : ps = <<p, q>> \/ ps = <<q, p>>
  BY DEF Dropped
<1>. QED
  BY <1>2, <1>3, <1>4

(* The windows stay as they are and the panes in D are dropped.            *)
LEMMA DropKeeps ==
  ASSUME FactoryAssumption, ClientInv, UNCHANGED <<objects, crashed>>,
         NEW D, D \subseteq kept, kept' = kept \ D,
         stack' \in Seq(Calls), Pending' \subseteq PaneCalls,
         \A at, q : /\ Waits(at, q)' => Waits(at, q) \/ (at = "close_frame" /\ q \in D)
                    /\ at = "close_frame" /\ q \in D => Waits(at, q)'
                    /\ Waits(at, q) /\ at \notin {"notify", "activated"} => Waits(at, q)',
         "unheard" \notin Disturbances
           => \A q \in kept \ D : Waits("notify", q) => Waits("notify", q)'
  PROVE  ClientInv'
<1>1. PICK S, T : S = kept /\ T = kept'
  OBVIOUS
<1>2. PanesInv /\ OwnedInv(S) /\ kept \subseteq Panes /\ S \ T = D /\ T \subseteq S
  BY <1>1 DEF ClientInv
<1>3. PanesTypeOK' /\ UNCHANGED <<window, view, impl, frame, advised>>
  BY DEF ClientInv, PanesInv, PanesTypeOK, objects
<1>4. \A q \in Panes : LeftIntact(q, S, T) /\ GoesOn(q, S, T)
  BY <1>2, <1>3 DEF LeftIntact, GoesOn
<1>5. PanesInv' /\ OwnedInv(T)'
  BY <1>2, <1>3, <1>4, ClientKeeps
<1>6. KeptInv'
  <2>1. SUFFICES ASSUME "unheard" \notin Disturbances, NEW q \in kept'
                 PROVE  Heard(q)'
    BY DEF KeptInv
  <2>2. Heard(q) /\ q \in kept /\ q \notin D
    BY <2>1 DEF ClientInv, KeptInv
  <2>3. Waits("close_pane", q)' => Waits("close_pane", q)
    OBVIOUS
  <2>4. Waits("notify", q) => Waits("notify", q)'
    BY <2>1, <2>2
  <2>. QED
    BY <1>3, <2>2, <2>3, <2>4 DEF Heard, Open
<1>. QED
  BY <1>1, <1>2, <1>5, <1>6 DEF ClientInv, OwnedInv

-----------------------------------------------------------------------------
(* The client's steps.                                                     *)

LEMMA DropPaneKeeps ==
  ASSUME FactoryAssumption, ClientInv, NEW p \in Panes, DropPane(p)
  PROVE  ClientInv'
<1>1. /\ kept \subseteq Panes /\ NoPane \notin Panes
  BY DEF ClientInv, FactoryAssumption
<1>2. /\ Idle /\ p \in kept /\ UNCHANGED <<objects, crashed>>
  BY DEF DropPane, Drop
<1>3. PICK ps \in Dropped(p) : /\ kept' = kept \ DroppedPanes(ps)
                               /\ stack' = Destructions(ps) \o <<>>
  BY DEF DropPane, Drop, DroppedPanes
<1>4. PICK D : D = DroppedPanes(ps)
  OBVIOUS
<1>5. /\ D \subseteq kept /\ Destructions(ps) \in Seq(Calls)
      /\ Elements(Destructions(ps)) = {Call("close_frame", q) : q \in D}
  BY <1>1, <1>2, <1>4, DestructionsOf
<1>6. stack' = Destructions(ps)
  <2>1. Destructions(ps) \o <<>> = Destructions(ps)
    BY <1>5
  <2>. QED
    BY <1>3, <2>1
<1>7. /\ stack' \in Seq(Calls) /\ \A at, q : ~Waits(at, q)
      /\ \A at, q : Waits(at, q)' <=> Call(at, q) \in Elements(Destructions(ps))
  BY <1>2, <1>5, <1>6, NothingWaits, Beginning
<1>8. \A at, q : Waits(at, q)' <=> at = "close_frame" /\ q \in D
  BY <1>5, <1>7, CallsAreDistinct
<1>9. Pending' \subseteq PaneCalls
  <2>1. Pending' = Elements(Destructions(ps))
    BY <1>6 DEF Pending, Elements
  <2>2. \A q \in D : Call("close_frame", q) \in PaneCalls
    BY <1>1, <1>5 DEF Call, PaneCalls, OfAPane
  <2>. QED
    BY <1>5, <2>1, <2>2
<1>. QED
  BY <1>2, <1>3, <1>4, <1>5, <1>7, <1>8, <1>9, DropKeeps

(* A slot of p's signal at may drop p and another pane; it drops p when it *)
(* is told that p closes.                                                  *)
LEMMA SignalGoesOn ==
  ASSUME FactoryAssumption, ClientInv, NEW at \in {"notify", "activated"},
         \/ OnShow("notify") /\ OnClose(Subject) /\ at = "notify"
         \/ OnShow("activated") /\ OnActivated(Subject) /\ at = "activated"
         \/ Unheard(at) /\ UNCHANGED kept
  PROVE  \E p \in Panes, D \in SUBSET kept, e \in Seq(Calls) :
           /\ stack # <<>> /\ Subject = p /\ Head(stack) = Call(at, p)
           /\ kept' = kept \ D /\ Continue(e) /\ AllApart(e)
           /\ Elements(e) = {Call("close_frame", q) : q \in D}
           /\ p \in D \/ (D = {} /\ (at = "notify" => p \notin kept \/ ~advised[p]))
<1>1. kept \subseteq Panes /\ NoPane \notin Panes /\ stack \in Seq(Calls)
  BY DEF ClientInv, PanesInv, FactoryAssumption
<1>2. Running(at)
  BY DEF OnShow, Unheard
<1>3. PICK p \in Panes : stack # <<>> /\ Subject = p /\ Head(stack) = Call(at, p)
  BY <1>1, <1>2, RunningCall DEF OfAPane
<1>4. \/ Drop(p, Tail(stack))
      \/ /\ Continue(<<>>) /\ kept' = kept
         /\ at = "notify" => p \notin kept \/ ~advised[p]
  BY <1>3 DEF OnClose, OnActivated, Unheard, Return
<1>5. CASE Drop(p, Tail(stack))
  <2>1. PICK ps \in Dropped(p) : /\ kept' = kept \ DroppedPanes(ps)
                                 /\ Continue(Destructions(ps))
    BY <1>5 DEF Drop, DroppedPanes, Continue
  <2>2. p \in kept
    BY <1>5 DEF Drop
  <2>3. /\ p \in DroppedPanes(ps) /\ DroppedPanes(ps) \subseteq kept
        /\ Destructions(ps) \in Seq(Calls) /\ AllApart(Destructions(ps))
        /\ Elements(Destructions(ps)) = {Call("close_frame", q) : q \in DroppedPanes(ps)}
    BY <1>1, <2>1, <2>2, DestructionsOf
  <2>. QED
    BY <1>3, <2>1, <2>3, Zenon
<1>6. CASE Continue(<<>>) /\ kept' = kept /\ (at = "notify" => p \notin kept \/ ~advised[p])
  <2>1. /\ Elements(<<>>) = {Call("close_frame", q) : q \in {}}
        /\ <<>> \in Seq(Calls) /\ AllApart(<<>>)
    BY NoElements
  <2>2. kept' = kept \ {}
    BY <1>6
  <2>3. {} \subseteq kept
    OBVIOUS
  <2>. QED
    BY <1>3, <1>6, <2>1, <2>2, <2>3, Zenon
<1>. QED
  BY <1>4, <1>5, <1>6

LEMMA SignalKeeps ==
  ASSUME FactoryAssumption, ClientInv, NEW at \in {"notify", "activated"},
         \/ OnShow("notify") /\ OnClose(Subject) /\ at = "notify"
         \/ OnShow("activated") /\ OnActivated(Subject) /\ at = "activated"
         \/ Unheard(at) /\ UNCHANGED kept
  PROVE  ClientInv'
<1>1. /\ kept \subseteq Panes /\ NoPane \notin Panes /\ Pending \subseteq PaneCalls
      /\ stack \in Seq(Calls)
  BY DEF ClientInv, PanesInv, FactoryAssumption
<1>2. UNCHANGED <<objects, crashed>>
  BY DEF OnShow, Unheard
<1>3. PICK p \in Panes, D \in SUBSET kept, e \in Seq(Calls) :
        /\ stack # <<>> /\ Head(stack) = Call(at, p)
        /\ kept' = kept \ D /\ Continue(e)
        /\ Elements(e) = {Call("close_frame", q) : q \in D}
        /\ p \in D \/ (at = "notify" => p \notin kept \/ ~advised[p])
  BY SignalGoesOn
<1>4. /\ stack' \in Seq(Calls)
      /\ \A bt, q : /\ Waits(bt, q)' => Waits(bt, q) \/ Call(bt, q) \in Elements(e)
                    /\ Call(bt, q) \in Elements(e) => Waits(bt, q)'
                    /\ Waits(bt, q) /\ Call(bt, q) # Head(stack) => Waits(bt, q)'
  BY <1>1, <1>3, Continuing
<1>5. \A bt, q : Call(bt, q) \in Elements(e) <=> bt = "close_frame" /\ q \in D
  BY <1>3, CallsAreDistinct
<1>6. \A bt, q : Call(bt, q) = Head(stack) => bt = at /\ q = p
  BY <1>3, CallsAreDistinct
<1>7. \A bt, q : /\ Waits(bt, q)' => Waits(bt, q) \/ (bt = "close_frame" /\ q \in D)
                 /\ bt = "close_frame" /\ q \in D => Waits(bt, q)'
                 /\ Waits(bt, q) /\ bt \notin {"notify", "activated"} => Waits(bt, q)'
  BY <1>4, <1>5, <1>6
<1>8. "unheard" \notin Disturbances
         => \A q \in kept \ D : Waits("notify", q) => Waits("notify", q)'
  <2>1. SUFFICES ASSUME "unheard" \notin Disturbances, NEW q \in kept \ D,
                        Waits("notify", q), Call("notify", q) = Head(stack)
                 PROVE  FALSE
    BY <1>4
  <2>2. q = p /\ at = "notify"
    BY <1>6, <2>1
  <2>3. p \in kept /\ p \notin D
    BY <2>1, <2>2
  <2>4. advised[p]
    BY <2>1, <2>3 DEF ClientInv, KeptInv, Heard
  <2>. QED
    BY <1>3, <2>2, <2>3, <2>4
<1>9. Pending' \subseteq PaneCalls
  <2>1. stack' = e \o Tail(stack)
    BY <1>3 DEF Continue
  <2>2. Tail(stack) \in Seq(Calls) /\ Elements(Tail(stack)) \subseteq Pending
    BY <1>1, <1>3, ElementsOfTail DEF Pending
  <2>3. Elements(stack') = Elements(e) \union Elements(Tail(stack))
    BY <2>1, <2>2, ElementsOfConcat
  <2>4. \A q \in D : Call("close_frame", q) \in PaneCalls
    BY <1>1, <1>3 DEF Call, PaneCalls, OfAPane
  <2>5. Pending' = Elements(stack')
    BY DEF Pending, Elements
  <2>. QED
    BY <1>1, <1>3, <2>2, <2>3, <2>4, <2>5
<1>. QED
  BY <1>2, <1>3, <1>4, <1>7, <1>8, <1>9, DropKeeps

LEMMA CreatePaneKeeps ==
  ASSUME FactoryAssumption, ClientInv, CreatePane
  PROVE  ClientInv'
<1>1. PICK S : S = kept
  OBVIOUS
<1>2. /\ PanesInv /\ OwnedInv(S) /\ PanesTypeOK /\ stack \in Seq(Calls) /\ kept \subseteq Panes
      /\ \A q \in Panes : InStep(q) /\ Accounted(q, S)
  BY <1>1 DEF ClientInv, PanesInv, OwnedInv
<1>3. /\ Idle /\ UNCHANGED <<stack, crashed>>
  BY DEF CreatePane
<1>4. /\ \A at, q : ~Waits(at, q) /\ ~Waits(at, q)'
      /\ stack' \in Seq(Calls) /\ Pending' = {}
  <2>1. Idle'
    BY <1>3 DEF Idle
  <2>. QED
    BY <1>2, <1>3, <2>1, NothingWaits, NoElements DEF Waits, Pending, Elements, Call, Idle
<1>5. CASE UNCHANGED <<objects, kept>>
  <2>1. kept' = kept \ {} /\ UNCHANGED <<objects, crashed>>
    BY <1>3, <1>5
  <2>. QED
    BY <1>4, <2>1, DropKeeps
<1>6. ASSUME NEW p \in Unused, Create(p), kept' = kept \union {p}
      PROVE  ClientInv'
  <2>1. PICK T : T = S \union {p}
    OBVIOUS
  <2>2. /\ PanesTypeOK'
        /\ \A q \in Panes : q # p => /\ window'[q] = window[q] /\ impl'[q] = impl[q]
                                     /\ frame'[q] = frame[q] /\ advised'[q] = advised[q]
                                     /\ view'[q] = view[q]
        /\ window'[p] = "hidden" /\ impl'[p] = "alive" /\ frame'[p] = "alive"
    BY <1>2, <1>3, <1>6, PaneMade
  <2>3. p \in Panes /\ window[p] = "none" /\ p \in T /\ (S \ T) = {}
    BY <1>6, <2>1 DEF Unused
  <2>4. \A q \in Panes : LeftIntact(q, S, T) \/ JustMade(q, T)
    BY <2>1, <2>2, <2>3 DEF LeftIntact, JustMade
  <2>5. \A q \in Panes : GoesOn(q, S, T)
    BY <1>4 DEF GoesOn
  <2>6. PanesInv' /\ OwnedInv(T)'
    BY <1>2, <1>4, <2>2, <2>4, <2>5, ClientKeeps
  <2>7. KeptInv'
    <3>1. SUFFICES ASSUME "unheard" \notin Disturbances, NEW q \in kept'
                   PROVE  Heard(q)'
      BY DEF KeptInv
    <3>2. CASE q = p
      <4>1. advised'[p]
        BY <1>2, <1>6, <2>3, <3>1 DEF Create, Advised, PanesTypeOK
      <4>. QED
        BY <1>4, <2>2, <2>3, <3>2, <4>1 DEF Heard, Open
    <3>3. CASE q # p
      <4>1. q \in kept /\ q \in Panes
        BY <1>2, <1>6, <3>1, <3>3
      <4>2. Heard(q)
        BY <3>1, <4>1 DEF ClientInv, KeptInv
      <4>. QED
        BY <1>4, <2>2, <3>3, <4>1, <4>2 DEF Heard, Open
    <3>. QED
      BY <3>2, <3>3
  <2>8. kept' = T /\ kept' \subseteq Panes
    BY <1>1, <1>2, <1>6, <2>1, <2>3
  <2>9. OwnedInv(kept)'
    BY <2>6, <2>8 DEF OwnedInv
  <2>. QED
    BY <1>4, <2>6, <2>7, <2>8, <2>9 DEF ClientInv
<1>. QED
  BY <1>5, <1>6 DEF CreatePane

(* A pane is used, shown or hidden by the client that keeps it.            *)
LEMMA LooksKeep ==
  ASSUME FactoryAssumption, ClientInv, NEW p \in Panes, Idle, p \in kept,
         UNCHANGED <<impl, frame, advised, kept>>, PanesTypeOK',
         stack' \in {<<>>, Entry("activated", p)},
         \/ UNCHANGED window
         \/ /\ p \in Open
            /\ \E w \in {"hidden", "shown"} : window' = [window EXCEPT ![p] = w],
         UNCHANGED view \/ (p \in Open /\ view' = CreatePaneWindow(p)),
         stack' # <<>> => p \in Open
  PROVE  ClientInv'
<1>1. PICK S : S = kept
  OBVIOUS
<1>2. /\ PanesInv /\ OwnedInv(S) /\ PanesTypeOK /\ kept \subseteq Panes /\ S \subseteq Panes
  BY <1>1 DEF ClientInv, PanesInv
<1>3. \A at, q : ~Waits(at, q)
  BY NothingWaits
<1>4. /\ Entry("activated", p) \in Seq(Calls)
      /\ Elements(Entry("activated", p)) = {Call("activated", p)}
  BY CallsOfPanes, ElementsOfEntry DEF OfAPane
<1>5. /\ stack' \in Seq(Calls)
      /\ \A at, q : Waits(at, q)' => at = "activated" /\ q = p /\ p \in Open
      /\ Pending' \subseteq PaneCalls
  <2>1. CASE stack' = <<>>
    <3>1. Pending' = {} /\ stack' \in Seq(Calls)
      BY <2>1, NoElements DEF Pending, Elements
    <3>. QED
      BY <3>1 DEF Waits
  <2>2. CASE stack' = Entry("activated", p) /\ p \in Open
    <3>1. Pending' = {Call("activated", p)}
      BY <1>4, <2>2 DEF Pending, Elements
    <3>2. Call("activated", p) \in PaneCalls
      BY DEF Call, PaneCalls, OfAPane
    <3>3. \A at, q : Waits(at, q)' => Call(at, q) = Call("activated", p)
      BY <3>1 DEF Waits, Call
    <3>. QED
      BY <1>4, <2>2, <3>1, <3>2, <3>3, CallsAreDistinct
  <2>. QED
    BY <2>1, <2>2
<1>6. \A q \in Panes : /\ \/ window'[q] = window[q]
                          \/ q \in Open /\ window'[q] \in {"hidden", "shown"}
                       /\ view'[q] => view[q] \/ q \in Open
  BY <1>2 DEF PanesTypeOK, CreatePaneWindow
<1>7. \A q \in Panes : LeftIntact(q, S, S) /\ GoesOn(q, S, S)
  BY <1>3, <1>5, <1>6 DEF LeftIntact, GoesOn
<1>8. PanesInv' /\ OwnedInv(S)'
  BY <1>2, <1>5, <1>7, ClientKeeps
<1>9. KeptInv'
  <2>1. SUFFICES ASSUME "unheard" \notin Disturbances, NEW q \in kept'
                 PROVE  Heard(q)'
    BY DEF KeptInv
  <2>2. Heard(q) /\ q \in Panes
    BY <1>2, <2>1 DEF ClientInv, KeptInv
  <2>3. advised[q] /\ q \in Open
    BY <1>3, <2>2 DEF Heard
  <2>4. ~Waits("close_pane", q)'
    BY <1>5
  <2>. QED
    BY <1>6, <2>2, <2>3, <2>4 DEF Heard, Open
<1>10. OwnedInv(kept)'
  BY <1>1, <1>8 DEF OwnedInv
<1>. QED
  BY <1>2, <1>5, <1>8, <1>9, <1>10 DEF ClientInv

LEMMA UsersOfPanesKeep ==
  ASSUME FactoryAssumption, ClientInv, NEW p \in Panes, UsePane(p) \/ Show(p) \/ Hide(p)
  PROVE  ClientInv'
<1>1. PanesTypeOK
  BY DEF ClientInv, PanesInv
<1>2. CASE UsePane(p) /\ UNCHANGED panes
  BY <1>1, <1>2, LooksKeep DEF UsePane, Idle, panes, objects, PanesTypeOK
<1>3. CASE UsePane(p) /\ Crash
  <2>1. PanesTypeOK' /\ UNCHANGED <<window, view, impl, frame, advised, stack, kept>>
    BY <1>1, <1>3 DEF PanesTypeOK, Crash, objects, UsePane
  <2>. QED
    BY <1>3, <2>1, LooksKeep DEF UsePane, Idle
<1>4. CASE Show(p)
  <2>1. PanesTypeOK'
    BY <1>1, <1>4 DEF PanesTypeOK, Show, Shown, CreatePaneWindow
  <2>. QED
    BY <1>4, <2>1, LooksKeep DEF Show, Shown
<1>5. CASE Hide(p)
  <2>1. PanesTypeOK'
    BY <1>1, <1>5 DEF PanesTypeOK, Hide
  <2>. QED
    BY <1>5, <2>1, LooksKeep DEF Hide, Idle
<1>. QED
  BY <1>2, <1>3, <1>4, <1>5 DEF UsePane

LEMMA UserClosesKeepsKept ==
  ASSUME FactoryAssumption, ClientInv, NEW p \in Panes, UserCloses(p), UNCHANGED kept
  PROVE  ClientInv'
<1>1. PICK S : S = kept
  OBVIOUS
<1>2. PanesInv /\ OwnedInv(S) /\ PanesTypeOK /\ kept \subseteq Panes
  BY <1>1 DEF ClientInv, PanesInv
<1>3. PanesInv' /\ OwnedInv(S)'
  BY <1>2, UserClosesKeeps
<1>4. PICK e \in Closings(p) : stack' = e
  BY DEF UserCloses
<1>5. /\ Pending' \subseteq PaneCalls
      /\ \A at, q : ~Waits(at, q)
      /\ \A at, q : Waits(at, q)' <=> at \in {"notify", "close_pane"} /\ q = p
  <2>1. e \in Seq(Calls) /\ Elements(e) = {Call("notify", p), Call("close_pane", p)}
    BY ElementsOfClosing
  <2>2. Elements(e) \subseteq PaneCalls /\ Pending' = Elements(e)
    BY <1>4, <2>1 DEF PaneCalls, Call, OfAPane, Pending, Elements
  <2>3. \A at, q : ~Waits(at, q)
    BY NothingWaits DEF UserCloses
  <2>4. \A at, q : Waits(at, q)' <=> Call(at, q) \in Elements(e)
    BY <1>4, <2>1, Beginning
  <2>. QED
    BY <2>1, <2>2, <2>3, <2>4, CallsAreDistinct
<1>6. window' = [window EXCEPT ![p] = "closing"] /\ UNCHANGED advised
  BY DEF UserCloses, BeginClosing
<1>7. KeptInv'
  <2>1. SUFFICES ASSUME "unheard" \notin Disturbances, NEW q \in kept'
                 PROVE  Heard(q)'
    BY DEF KeptInv
  <2>2. Heard(q) /\ q \in Panes
    BY <1>2, <2>1 DEF ClientInv, KeptInv
  <2>3. q # p => window'[q] = window[q]
    BY <1>2, <1>6, <2>2 DEF PanesTypeOK
  <2>. QED
    BY <1>5, <1>6, <2>2, <2>3 DEF Heard, Open
<1>8. OwnedInv(kept)'
  BY <1>1, <1>3 DEF OwnedInv
<1>. QED
  BY <1>2, <1>3, <1>5, <1>7, <1>8 DEF ClientInv

LEMMA NotifiesLateKeepsKept ==
  ASSUME FactoryAssumption, ClientInv, NEW p \in Panes, NotifiesLate(p), UNCHANGED kept
  PROVE  ClientInv'
<1>1. PICK S : S = kept
  OBVIOUS
<1>2. PanesInv /\ OwnedInv(S) /\ kept \subseteq Panes
  BY <1>1 DEF ClientInv
<1>3. /\ PanesInv' /\ OwnedInv(S)'
      /\ Elements(stack') = {Call("notify", p)}
  BY <1>2, NotifiesLateKeeps
<1>4. /\ Pending' \subseteq PaneCalls /\ \A at, q : ~Waits(at, q)
      /\ \A at, q : Waits(at, q)' => at = "notify"
      /\ UNCHANGED <<window, advised>>
  <2>1. \A at, q : ~Waits(at, q)
    BY NothingWaits DEF NotifiesLate
  <2>2. Pending' = {Call("notify", p)}
    BY <1>3 DEF Pending, Elements
  <2>3. Call("notify", p) \in PaneCalls
    BY DEF Call, PaneCalls, OfAPane
  <2>. QED
    BY <2>1, <2>2, <2>3, CallsAreDistinct DEF Waits, Call, NotifiesLate, objects
<1>5. KeptInv'
  BY <1>4 DEF ClientInv, KeptInv, Heard, Open
<1>6. OwnedInv(kept)'
  BY <1>1, <1>3 DEF OwnedInv
<1>. QED
  BY <1>2, <1>3, <1>4, <1>5, <1>6 DEF ClientInv

LEMMA ShellKeepsKept ==
  ASSUME FactoryAssumption, ClientInv, Shell, UNCHANGED kept
  PROVE  ClientInv'
<1>1. PICK S : S = kept
  OBVIOUS
<1>2. PanesInv /\ OwnedInv(S) /\ stack \in Seq(Calls) /\ kept \subseteq Panes
      /\ Pending \subseteq PaneCalls
  BY <1>1 DEF ClientInv, PanesInv
<1>3. PanesInv' /\ OwnedInv(S)'
  BY <1>2, ShellKeeps
<1>4. GoesOnWithin /\ \A p \in Panes : SeenOf(p, S)
  BY <1>2, ShellSeen
<1>5. Pending' \subseteq PaneCalls
  <2>0. CASE UNCHANGED <<stack, window>>
    BY <1>2, <2>0 DEF Pending, Elements
  <2>5. SUFFICES ASSUME stack # <<>>,
                        \E e \in Seq(Calls) : Continue(e) /\ Elements(e) \subseteq PaneCalls
                 PROVE  Pending' \subseteq PaneCalls
    BY <1>4, <2>0 DEF GoesOnWithin
  <2>1. PICK e \in Seq(Calls) : stack # <<>> /\ Continue(e) /\ Elements(e) \subseteq PaneCalls
    BY <2>5
  <2>2. Tail(stack) \in Seq(Calls) /\ Elements(Tail(stack)) \subseteq Pending
    BY <1>2, <2>1, ElementsOfTail DEF Pending
  <2>3. Elements(stack') = Elements(e) \union Elements(Tail(stack))
    BY <2>1, <2>2, ElementsOfConcat DEF Continue
  <2>4. Pending' = Elements(stack')
    BY DEF Pending, Elements
  <2>. QED
    BY <1>2, <2>1, <2>2, <2>3, <2>4
<1>6. KeptInv'
  <2>1. SUFFICES ASSUME "unheard" \notin Disturbances, NEW q \in kept'
                 PROVE  Heard(q)'
    BY DEF KeptInv
  <2>2. Heard(q) /\ SeenOf(q, S) /\ q \in S
    BY <1>1, <1>2, <1>4, <2>1 DEF ClientInv, KeptInv
  <2>. QED
    BY <2>2 DEF Heard, SeenOf, Open
<1>7. OwnedInv(kept)'
  BY <1>1, <1>3 DEF OwnedInv
<1>. QED
  BY <1>2, <1>3, <1>5, <1>6, <1>7 DEF ClientInv

-----------------------------------------------------------------------------
(* What the client may count on.                                           *)

LEMMA ClientCrashKeeps ==
  ASSUME ClientInv, UNCHANGED <<objects, stack, kept>>, crashed' \in BOOLEAN
  PROVE  ClientInv'
BY DEF ClientInv, PanesInv, PanesTypeOK, InStep, OwnedInv, Accounted, KeptInv, Heard, Open,
       Waits, Pending, Elements, Call, objects

LEMMA ClientStart ==
  ASSUME FactoryAssumption, Init
  PROVE  ClientInv
<1>1. PanesInit /\ kept = {}
  BY DEF Init
<1>2. PanesInv /\ OwnedInv({})
  BY <1>1, InitKeeps
<1>3. Pending = {}
  BY <1>1, NoElements DEF PanesInit, Pending
<1>. QED
  BY <1>1, <1>2, <1>3 DEF ClientInv, KeptInv

LEMMA ClientStep ==
  ASSUME FactoryAssumption, ClientInv, [Next]_vars
  PROVE  ClientInv'
<1>1. CASE UNCHANGED vars
  <2>1. UNCHANGED <<objects, stack, kept>> /\ crashed' \in BOOLEAN
    BY <1>1 DEF vars, panes, ClientInv, PanesInv, PanesTypeOK
  <2>. QED
    BY <2>1, ClientCrashKeeps
<1>2. CASE CreatePane
  BY <1>2, CreatePaneKeeps
<1>3. ASSUME NEW p \in Panes,
             \/ UsePane(p) \/ Show(p) \/ Hide(p) \/ DropPane(p)
             \/ (UserCloses(p) \/ NotifiesLate(p)) /\ UNCHANGED <<ids, kept>>
      PROVE  ClientInv'
  BY <1>3, UsersOfPanesKeep, DropPaneKeeps, UserClosesKeepsKept, NotifiesLateKeepsKept
<1>4. CASE Resume
  <2>2. CASE OnShow("notify") /\ OnClose(Subject)
    BY <2>2, SignalKeeps
  <2>3. CASE OnShow("activated") /\ OnActivated(Subject)
    BY <2>3, SignalKeeps
  <2>4. CASE \E at \in Signals : Unheard(at) /\ UNCHANGED kept
    BY <2>4, SignalKeeps DEF Signals
  <2>5. CASE Shell /\ UNCHANGED kept
    BY <2>5, ShellKeepsKept
  <2>. QED
    BY <1>4, <2>2, <2>3, <2>4, <2>5 DEF Resume
<1>. QED
  BY <1>1, <1>2, <1>3, <1>4 DEF Next

LEMMA ClientAlways == Spec => []ClientInv
<1>1. Init => ClientInv
  BY FactoryAssumption, ClientStart
<1>2. ClientInv /\ [Next]_vars => ClientInv'
  BY FactoryAssumption, ClientStep
<1>. QED
  BY <1>1, <1>2, PTL DEF Spec

LEMMA KeptAreUsable ==
  ASSUME "unheard" \notin Disturbances, ClientInv, Idle
  PROVE  kept = Open /\ kept \subseteq Usable
<1>1. \A at, p : ~Waits(at, p)
  BY NothingWaits
<1>2. /\ kept \subseteq Panes /\ \A p \in kept : Heard(p)
      /\ \A p \in Panes : InStep(p) /\ Accounted(p, kept)
  BY DEF ClientInv, KeptInv, PanesInv, OwnedInv
<1>. QED
  BY <1>1, <1>2 DEF Heard, InStep, Accounted, Open, Usable

(* Between calls a client has exactly the windows that are open, and every *)
(* pane it has can be used, whatever it dropped in whichever slot, unless  *)
(* the shell refused one of its listeners.                                 *)
THEOREM ClientHasWhatIsOpen ==
  ASSUME "unheard" \notin Disturbances
  PROVE  Spec => []KeptAreOpen
<1>1. ClientInv => KeptAreOpen
  BY KeptAreUsable DEF KeptAreOpen
<1>. QED
  BY <1>1, ClientAlways, PTL

-----------------------------------------------------------------------------
(* The ids of tool windows.                                                *)

(* Every call of create_pane since the one that made p has counted, modulo *)
(* the ids there are.                                                      *)
Counted(p) ==
  \E w \in Nat : next_tool_id + w * Modulus = tool_id[p] + (calls + 1 - made_by[p])

IdsInv ==
  /\ next_tool_id \in 0 .. Modulus - 1 /\ calls \in 0 .. MaxCalls
  /\ tool_id \in [Panes -> 0 .. Modulus - 1] /\ made_by \in [Panes -> 0 .. MaxCalls]
  /\ \A p \in Panes : window[p] # "none" => made_by[p] \in 1 .. calls /\ Counted(p)

LEMMA Multiples ==
  ASSUME NEW d \in Int, NEW m \in Nat, d * m > 0
  PROVE  d * m >= m
OBVIOUS

LEMMA NextId ==
  ASSUME NEW m \in Nat \ {0}, NEW i \in 0 .. m - 1
  PROVE  (i + 1) % m = IF i + 1 = m THEN 0 ELSE i + 1
OBVIOUS

(* Only create_pane makes a window.                                        *)
LEMMA NothingAppears ==
  ASSUME FactoryAssumption, ClientInv, [Next]_vars, ~CreatePane
  PROVE  UNCHANGED ids /\ \A p \in Panes : window[p] = "none" => window'[p] = "none"
<1>1. /\ PanesTypeOK /\ stack \in Seq(Calls) /\ kept \subseteq Panes
      /\ \A q \in Panes : InStep(q)
  BY DEF ClientInv, PanesInv
<1>2. UNCHANGED ids
  BY DEF Next, vars, UsePane, Show, Hide, DropPane, Resume
<1>3. SUFFICES \A p \in Panes : window[p] = "none" => window'[p] = "none"
  BY <1>2
<1>4. CASE UNCHANGED window
  BY <1>4
<1>5. ASSUME NEW p \in Panes, UsePane(p) \/ DropPane(p) \/ NotifiesLate(p) PROVE UNCHANGED window
  BY <1>5 DEF UsePane, DropPane, NotifiesLate, Crash, objects, panes
<1>6. ASSUME NEW p \in Panes, NEW w, w # "none", window[p] # "none",
             window' = [window EXCEPT ![p] = w]
      PROVE  \A q \in Panes : window[q] = "none" => window'[q] = "none"
  BY <1>1, <1>6 DEF PanesTypeOK
<1>7. ASSUME NEW p \in Panes, Show(p) \/ Hide(p) \/ UserCloses(p)
      PROVE  \A q \in Panes : window[q] = "none" => window'[q] = "none"
  BY <1>6, <1>7 DEF Show, Shown, Hide, UserCloses, BeginClosing, Open
<1>8. CASE Resume
  <2>1. CASE Shell
    <3>1. CASE CloseFrame \/ ClosePane
      <4>1. PICK p \in Panes : /\ Subject = p
                               /\ \E at \in OfAPane : Waits(at, p)
        BY <1>1, <3>1, RunningCall DEF CloseFrame, ClosePane, OfAPane
      <4>2. window[p] # "none"
        BY <1>1, <4>1 DEF InStep
      <4>3. \/ UNCHANGED window
            \/ \E w \in {"closing", "closed"} : window' = [window EXCEPT ![p] = w]
        BY <3>1, <4>1 DEF CloseFrame, ClosePane, BeginClosing, objects
      <4>. QED
        BY <1>4, <1>6, <4>2, <4>3
    <3>2. CASE Unadvise \/ EndMembers \/ OnTheDestroyed
      BY <1>4, <3>2 DEF Unadvise, EndMembers, OnTheDestroyed, Crash, objects
    <3>. QED
      BY <2>1, <3>1, <3>2 DEF Shell
  <2>2. CASE ~Shell
    BY <1>8, <2>2 DEF Resume, OnShow, Unheard, objects
  <2>. QED
    BY <1>8, <2>1, <2>2 DEF Resume
<1>. QED
  BY <1>4, <1>5, <1>7, <1>8 DEF Next, vars, panes, objects

LEMMA IdsStep ==
  ASSUME FactoryAssumption, ClientInv, IdsInv, [Next]_vars
  PROVE  IdsInv'
<1>1. /\ Modulus \in Nat \ {0} /\ MaxCalls \in Nat /\ PanesTypeOK
      /\ next_tool_id \in 0 .. Modulus - 1 /\ calls \in 0 .. MaxCalls
      /\ tool_id \in [Panes -> 0 .. Modulus - 1] /\ made_by \in [Panes -> 0 .. MaxCalls]
  BY DEF IdsInv, FactoryAssumption, ClientInv, PanesInv
<1>2. CASE ~CreatePane
  BY <1>2, NothingAppears DEF IdsInv, Counted, ids
<1>3. CASE CreatePane
  <2>1. /\ calls < MaxCalls /\ calls' = calls + 1
        /\ next_tool_id' = (next_tool_id + 1) % Modulus
    BY <1>3 DEF CreatePane, NextToolId
  <2>2. /\ calls' \in 0 .. MaxCalls /\ calls' \in 1 .. calls' /\ next_tool_id' \in 0 .. Modulus - 1
    BY <1>1, <2>1, NextId
  <2>3. PICK b \in {0, 1} : next_tool_id' + b * Modulus = next_tool_id + 1
    <3>1. CASE next_tool_id + 1 = Modulus
      BY <1>1, <2>1, <3>1, NextId
    <3>2. CASE next_tool_id + 1 # Modulus
      BY <1>1, <2>1, <3>2, NextId
    <3>. QED
      BY <3>1, <3>2
  <2>4. ASSUME NEW q \in Panes, window[q] # "none",
               tool_id'[q] = tool_id[q], made_by'[q] = made_by[q]
        PROVE  made_by'[q] \in 1 .. calls' /\ Counted(q)'
    <3>1. made_by[q] \in 1 .. calls /\ Counted(q)
      BY <2>4 DEF IdsInv
    <3>2. PICK w \in Nat : next_tool_id + w * Modulus = tool_id[q] + (calls + 1 - made_by[q])
      BY <3>1 DEF Counted
    <3>3. PICK v \in Nat : v = w + b
      OBVIOUS
    <3>4. v * Modulus = w * Modulus + b * Modulus
      BY <1>1, <3>3
    <3>5. w * Modulus \in Nat /\ b * Modulus \in Nat /\ tool_id[q] \in Nat /\ made_by[q] \in Nat
      BY <1>1
    <3>6. ASSUME NEW n \in Int, NEW m \in Int, NEW x \in Int, NEW y \in Int,
                 NEW t \in Int, NEW c \in Int, NEW k \in Int,
                 n + x = t + (c + 1 - k), m + y = n + 1
          PROVE  m + (x + y) = t + (c + 1 + 1 - k)
      BY <3>6
    <3>7. next_tool_id' + v * Modulus = tool_id[q] + (calls' + 1 - made_by[q])
      BY <1>1, <2>1, <2>2, <2>3, <3>2, <3>4, <3>5, <3>6
    <3>8. made_by'[q] \in 1 .. calls'
      BY <1>1, <2>1, <2>4, <3>1
    <3>. QED
      BY <2>4, <3>7, <3>8 DEF Counted
  <2>5. CASE UNCHANGED <<objects, tool_id, made_by>>
    BY <1>1, <2>2, <2>4, <2>5 DEF IdsInv, objects
  <2>6. ASSUME NEW p \in Unused, Create(p),
               tool_id' = [tool_id EXCEPT ![p] = next_tool_id],
               made_by' = [made_by EXCEPT ![p] = calls']
        PROVE  IdsInv'
    <3>1. p \in Panes /\ UNCHANGED crashed
      BY <1>3 DEF Unused, CreatePane
    <3>2. /\ tool_id' \in [Panes -> 0 .. Modulus - 1] /\ made_by' \in [Panes -> 0 .. MaxCalls]
          /\ tool_id'[p] = next_tool_id /\ made_by'[p] = calls'
      BY <1>1, <2>2, <2>6, <3>1
    <3>3. made_by'[p] \in 1 .. calls' /\ Counted(p)'
      <4>1. calls' + 1 - calls' = 1
        <5>1. calls' \in Nat
          BY <1>1, <2>1
        <5>2. \A c \in Nat : c + 1 - c = 1
          OBVIOUS
        <5>. QED
          BY <5>1, <5>2
      <4>2. next_tool_id' + b * Modulus = tool_id'[p] + (calls' + 1 - made_by'[p])
        BY <2>3, <3>2, <4>1
      <4>. QED
        BY <2>2, <3>2, <4>2 DEF Counted
    <3>4. \A q \in Panes : q # p => /\ window'[q] = window[q]
                                    /\ tool_id'[q] = tool_id[q] /\ made_by'[q] = made_by[q]
      BY <1>1, <2>6, <3>1, PaneMade
    <3>. QED
      BY <2>2, <2>4, <3>2, <3>3, <3>4 DEF IdsInv
  <2>. QED
    BY <1>3, <2>5, <2>6 DEF CreatePane
<1>. QED
  BY <1>2, <1>3

LEMMA IdsAlways == Spec => []IdsInv
<1>1. Init => IdsInv
  BY FactoryAssumption DEF Init, PanesInit, IdsInv, FactoryAssumption
<1>2. ClientInv /\ IdsInv /\ [Next]_vars => IdsInv'
  BY FactoryAssumption, IdsStep
<1>. QED
  BY <1>1, <1>2, ClientAlways, PTL DEF Spec

(* Two windows that are open have the same id only if at least as many     *)
(* panes as there are ids were asked for between them.                     *)
THEOREM IdsRepeatLate == Spec => []DistinctToolIds
<1>1. ASSUME IdsInv, NEW p \in Open, NEW q \in Open,
             made_by[p] < made_by[q], made_by[q] - made_by[p] < Modulus,
             tool_id[p] = tool_id[q]
      PROVE  FALSE
  <2>1. /\ Modulus \in Nat \ {0} /\ next_tool_id \in Nat /\ calls \in Nat
        /\ tool_id[p] \in Nat /\ made_by[p] \in Nat /\ made_by[q] \in Nat
        /\ Counted(p) /\ Counted(q)
    BY <1>1, FactoryAssumption DEF IdsInv, FactoryAssumption, Open
  <2>2. PICK v \in Nat : next_tool_id + v * Modulus = tool_id[p] + (calls + 1 - made_by[p])
    BY <2>1 DEF Counted
  <2>3. PICK w \in Nat : next_tool_id + w * Modulus = tool_id[q] + (calls + 1 - made_by[q])
    BY <2>1 DEF Counted
  <2>4. (v - w) * Modulus = v * Modulus - w * Modulus
    BY <2>1
  <2>5. v * Modulus \in Nat /\ w * Modulus \in Nat
    BY <2>1
  <2>6. v * Modulus - w * Modulus = made_by[q] - made_by[p]
    BY <1>1, <2>1, <2>2, <2>3, <2>5
  <2>7. (v - w) * Modulus > 0 /\ (v - w) * Modulus < Modulus
    BY <1>1, <2>1, <2>4, <2>6
  <2>8. (v - w) * Modulus >= Modulus
    BY <2>1, <2>7, Multiples
  <2>. QED
    BY <2>1, <2>4, <2>5, <2>7, <2>8
<1>2. IdsInv => DistinctToolIds
  BY <1>1 DEF DistinctToolIds
<1>. QED
  BY <1>2, IdsAlways, PTL

(* What factory, client and shell keep has its type.                       *)
THEOREM FactoryKeepsTypes == Spec => []TypeOK
<1>1. ASSUME ClientInv, IdsInv PROVE TypeOK
  <2>1. stack \in Seq(PaneCalls)
    <3>1. stack \in Seq(Calls) /\ \A i \in DOMAIN stack : stack[i] \in PaneCalls
      BY <1>1 DEF ClientInv, PanesInv, Pending, Elements
    <3>. QED
      BY <3>1
  <2>. QED
    BY <1>1, <2>1 DEF ClientInv, PanesInv, IdsInv, TypeOK, PaneCalls
<1>2. ClientInv /\ IdsInv => TypeOK
  BY <1>1
<1>. QED
  BY <1>2, ClientAlways, IdsAlways, PTL

-----------------------------------------------------------------------------
(* The depth of re-entered calls.                                          *)

(* The client drops panes from outside of any call.                        *)
LEMMA DropReenters ==
  ASSUME FactoryAssumption, ClientInv, NEW p \in Panes, DropPane(p)
  PROVE  ReentryInv(kept)'
<1>1. PICK S, T : S = kept /\ T = kept'
  OBVIOUS
<1>2. S \subseteq Panes /\ NoPane \notin Panes /\ \A q \in Panes : Accounted(q, S)
  BY <1>1 DEF ClientInv, OwnedInv, FactoryAssumption
<1>3. PICK ps \in Dropped(p) : /\ T = kept \ DroppedPanes(ps)
                               /\ stack' = Destructions(ps) \o <<>>
  BY <1>1 DEF DropPane, Drop, DroppedPanes
<1>4. p \in kept /\ frame' = frame
  BY DEF DropPane, Drop, objects
<1>5. /\ DroppedPanes(ps) \subseteq S
      /\ Destructions(ps) \in Seq(Calls) /\ AllApart(Destructions(ps))
      /\ Elements(Destructions(ps)) = {Call("close_frame", q) : q \in DroppedPanes(ps)}
  BY <1>1, <1>2, <1>4, DestructionsOf
<1>6. stack' = Destructions(ps)
  <2>1. Destructions(ps) \o <<>> = Destructions(ps)
    BY <1>5
  <2>. QED
    BY <1>3, <2>1
<1>7. \A at, q : Call(at, q) \in Elements(Destructions(ps))
                   => at = "close_frame" /\ q \in S /\ frame'[q] = "alive"
  BY <1>2, <1>4, <1>5, CallsAreDistinct DEF Accounted
<1>8. T \in SUBSET Panes
  BY <1>1, <1>2, <1>3
<1>9. ReentryInv(T)'
  BY <1>5, <1>6, <1>7, <1>8, ClientBegins DEF Signals
<1>. QED
  BY <1>1, <1>9 DEF ReentryInv

LEMMA SignalReenters ==
  ASSUME FactoryAssumption, ClientInv, ReentryInv(kept), NEW at \in {"notify", "activated"},
         \/ OnShow("notify") /\ OnClose(Subject) /\ at = "notify"
         \/ OnShow("activated") /\ OnActivated(Subject) /\ at = "activated"
         \/ Unheard(at) /\ UNCHANGED kept
  PROVE  ReentryInv(kept)'
<1>1. PICK S, T : S = kept /\ T = kept'
  OBVIOUS
<1>2. /\ S \in SUBSET Panes /\ NoPane \notin Panes /\ PanesInv /\ OwnedInv(S) /\ ReentryInv(S)
  BY <1>1 DEF ClientInv, FactoryAssumption
<1>3. PICK p \in Panes, D \in SUBSET kept, e \in Seq(Calls) :
        /\ stack # <<>> /\ Subject = p /\ Head(stack) = Call(at, p)
        /\ kept' = kept \ D /\ Continue(e) /\ AllApart(e)
        /\ Elements(e) = {Call("close_frame", q) : q \in D}
        /\ p \in D \/ D = {}
  BY SignalGoesOn
<1>4. UNCHANGED <<frame, impl>>
  BY DEF OnShow, Unheard, objects
<1>5. /\ D \in SUBSET S /\ T \in SUBSET Panes /\ T = S \ D
      /\ Head(stack).at \in Signals
  BY <1>1, <1>2, <1>3 DEF Call, Signals
<1>6. \A c \in Elements(e) : \E q \in D : c = Call("close_frame", q)
  BY <1>3
<1>7. \A q \in T : q \in S \ D /\ (D = {} \/ Subject \in D)
  BY <1>3, <1>5
<1>8. ReentryInv(T)'
  BY <1>2, <1>3, <1>4, <1>5, <1>6, <1>7, ClientReenters
<1>. QED
  BY <1>1, <1>8 DEF ReentryInv

LEMMA ReentryStep ==
  ASSUME FactoryAssumption, ClientInv, ReentryInv(kept) \/ Late, [Next]_vars
  PROVE  ReentryInv(kept)' \/ Late'
<1>1. /\ NoPane \notin Panes /\ PanesInv /\ OwnedInv(kept) /\ kept \in SUBSET Panes
      /\ PanesTypeOK /\ stack \in Seq(Calls) /\ \A q \in Panes : Accounted(q, kept)
  BY DEF ClientInv, FactoryAssumption, PanesInv, OwnedInv
<1>2. CASE UNCHANGED <<stack, objects, kept>>
  BY <1>2 DEF ReentryInv, AllApart, Waits, Pending, Elements, objects, Late, Entry
<1>3. ASSUME stack' = <<>>, kept' \in SUBSET Panes PROVE ReentryInv(kept)'
  <2>1. PICK T \in SUBSET Panes : T = kept'
    BY <1>3
  <2>2. ReentryInv(T)'
    BY <1>3, NothingBegun
  <2>. QED
    BY <2>1, <2>2 DEF ReentryInv
<1>10. CASE Late
  <2>1. /\ stack # <<>> /\ Head(stack).at = "notify" /\ Tail(stack) = <<>>
        /\ Subject \in Panes /\ ~advised[Subject]
    BY <1>1, <1>10, LateIsUnheard
  <2>2. CASE \E at \in Signals : Unheard(at) /\ UNCHANGED kept
    <3>1. stack' = <<>>
      BY <2>1, <2>2 DEF Unheard, Return, Continue
    <3>. QED
      BY <1>1, <1>3, <2>2, <3>1
  <2>3. CASE OnTheDestroyed /\ UNCHANGED kept
    BY <1>2, <2>3 DEF OnTheDestroyed, Crash
  <2>. QED
    BY <1>2, <2>1, <2>2, <2>3
       DEF Next, CreatePane, UsePane, Show, Hide, DropPane, UserCloses, NotifiesLate, Resume,
           OnShow, Shell, CloseFrame, Unadvise, EndMembers, ClosePane, Idle, Running, vars, panes
<1>12. SUFFICES ASSUME ReentryInv(kept) PROVE ReentryInv(kept)' \/ Late'
  BY <1>10
<1>4. CASE CreatePane
  <2>1. stack' = <<>> /\ kept' \in SUBSET Panes
    BY <1>1, <1>4 DEF CreatePane, Idle, Unused
  <2>. QED
    BY <1>3, <2>1
<1>5. ASSUME NEW p \in Panes, UsePane(p) PROVE ReentryInv(kept)'
  <2>1. UNCHANGED kept /\ UNCHANGED stack /\ Idle
    BY <1>5 DEF UsePane, Crash, panes
  <2>. QED
    BY <1>1, <1>3, <2>1 DEF Idle
<1>6. ASSUME NEW p \in Panes, Hide(p) PROVE ReentryInv(kept)'
  BY <1>1, <1>3, <1>6 DEF Hide, Idle
<1>7. ASSUME NEW p \in Panes, Show(p) PROVE ReentryInv(kept)'
  <2>1. PICK S : S = kept
    OBVIOUS
  <2>2. kept' = S /\ frame' = frame /\ p \in S /\ S \in SUBSET Panes
    BY <1>1, <1>7, <2>1 DEF Show, Shown
  <2>3. CASE stack' = <<>>
    BY <1>3, <2>2, <2>3
  <2>4. CASE stack' = Entry("activated", p)
    <3>1. /\ Entry("activated", p) \in Seq(Calls) /\ AllApart(Entry("activated", p))
          /\ Elements(Entry("activated", p)) = {Call("activated", p)}
      BY CallsOfPanes, ElementsOfEntry, ApartEntry DEF OfAPane
    <3>2. frame'[p] = "alive"
      BY <1>1, <2>1, <2>2 DEF Accounted
    <3>3. \A at, q : Call(at, q) \in Elements(Entry("activated", p)) => at = "activated" /\ q = p
      BY <3>1, CallsAreDistinct
    <3>4. \A c \in Elements(Entry("activated", p)) : c.pane = p
      BY <3>1 DEF Call
    <3>5. ReentryInv(S)'
      BY <2>2, <2>4, <3>1, <3>2, <3>3, <3>4, ClientBegins
    <3>. QED
      BY <2>2, <3>5 DEF ReentryInv
  <2>. QED
    BY <1>7, <2>3, <2>4 DEF Show
<1>8. ASSUME NEW p \in Panes, UserCloses(p), UNCHANGED kept PROVE ReentryInv(kept)'
  <2>1. PICK S : S = kept
    OBVIOUS
  <2>2. ReentryInv(S)'
    BY <1>1, <1>8, <2>1, UserReenters
  <2>. QED
    BY <1>8, <2>1, <2>2 DEF ReentryInv
<1>9. CASE Shell /\ UNCHANGED kept
  <2>1. PICK S : S = kept
    OBVIOUS
  <2>2. ReentryInv(S)'
    BY <1>1, <1>9, <1>12, <2>1, ShellReenters
  <2>. QED
    BY <1>9, <2>1, <2>2 DEF ReentryInv
<1>13. ASSUME NEW p \in Panes, NotifiesLate(p), UNCHANGED kept PROVE ReentryInv(kept)' \/ Late'
  <2>1. PICK S : S = kept
    OBVIOUS
  <2>2. ReentryInv(S)' \/ Late'
    BY <1>1, <1>13, <2>1, LateReenters
  <2>. QED
    BY <1>13, <2>1, <2>2 DEF ReentryInv
<1>11. CASE Resume
  BY <1>9, <1>11, <1>12, SignalReenters DEF Resume, Signals
<1>. QED
  BY <1>2, <1>4, <1>5, <1>6, <1>7, <1>8, <1>11, <1>13, DropReenters DEF Next, vars, panes

LEMMA ReentryAlways == Spec => [](ReentryInv(kept) \/ Late)
<1>1. ASSUME Init PROVE ReentryInv(kept)
  BY <1>1, NoElements DEF Init, PanesInit, ReentryInv, Waits, Pending
<1>2. Init => ReentryInv(kept) \/ Late
  BY <1>1
<1>3. ClientInv /\ (ReentryInv(kept) \/ Late) /\ [Next]_vars => (ReentryInv(kept) \/ Late)'
  BY FactoryAssumption, ReentryStep
<1>. QED
  BY <1>2, <1>3, ClientAlways, PTL DEF Spec

(* However many panes are made and closed, calls re-enter each other no    *)
(* deeper than the panes that are left allow.                              *)
THEOREM DepthIsBounded == Spec => []BoundedReentry
<1>1. ClientInv /\ (ReentryInv(kept) \/ Late) => BoundedReentry
  BY FactoryAssumption, FewCalls DEF ClientInv, FactoryAssumption
<1>. QED
  BY <1>1, ClientAlways, ReentryAlways, PTL

(* Whichever panes a client drops in whichever slot, no frame is destroyed *)
(* twice, no call of the shell's, however late, reaches a frame or a       *)
(* pane_impl that is gone, and no pane the client has lacks its pane_impl. *)
THEOREM DroppingIsSafe ==
  ASSUME "unheard" \notin Disturbances
  PROVE  Spec => []NothingDangling
<1>1. Init => ~crashed
  BY DEF Init, PanesInit
<1>2. ASSUME ClientInv, ReentryInv(kept) \/ Late, ~crashed, [Next]_vars
      PROVE  ~crashed'
  <2>1. CASE UNCHANGED vars
    BY <1>2, <2>1 DEF vars, panes
  <2>2. CASE CreatePane
    BY <1>2, <2>2 DEF CreatePane
  <2>3. ASSUME NEW p \in Panes,
               \/ UsePane(p) \/ Show(p) \/ Hide(p) \/ DropPane(p)
               \/ UserCloses(p) \/ NotifiesLate(p)
        PROVE  ~crashed'
    <3>1. Idle /\ p \in kept => p \in Usable
      BY <1>2, KeptAreUsable
    <3>. QED
      BY <1>2, <2>3, <3>1
         DEF UsePane, Show, Hide, DropPane, UserCloses, NotifiesLate, BeginClosing, panes
  <2>4. CASE Resume
    <3>1. ~OnTheDestroyed
      BY <1>2, NothingOfTheDestroyed DEF ClientInv
    <3>. QED
      BY <1>2, <2>4, <3>1 DEF Resume, OnShow, Unheard, Shell, CloseFrame, Unadvise, EndMembers,
                              ClosePane, BeginClosing
  <2>. QED
    BY <1>2, <2>1, <2>2, <2>3, <2>4 DEF Next
<1>3. ClientInv /\ (ReentryInv(kept) \/ Late) /\ ~crashed /\ [Next]_vars => ~crashed'
  BY <1>2
<1>. QED
  BY <1>1, <1>3, ClientAlways, ReentryAlways, PTL DEF Spec, NothingDangling

==============================================================================
