----------------------------- MODULE StylesProofs -----------------------------
(***************************************************************************)
(* Theorems about StylesDiscover, for any number of windows.               *)
(***************************************************************************)
EXTENDS StylesDiscover, PanesProofs

(* The pane the sample holds.                                              *)
Held == {active} \ {NoPane}

(* What goes wrong or is called off in Furnish and in the slot.            *)
StylesInv ==
  /\ active \in Panes \union {NoPane} /\ connected \in Panes \union {NoPane}
  /\ terminated \in BOOLEAN
  /\ connected \in Panes => window[connected] # "none"
  /\ terminated => active = NoPane /\ ~Waits("create", NoPane) /\ ~Waits("furnish", NoPane)
  /\ active \in Panes /\ connected = active /\ advised[active]
       => window[active] = "shown" \/ Waits("notify", active)

(* Making a pane is the client's outermost call.                           *)
Outermost ==
  \A i \in DOMAIN stack : stack[i].at \in {"create", "furnish"} => i = Len(stack)

(* With a shell that makes windows, and a command run only when enabled:   *)
(* nothing happens between the command and the end of Furnish.             *)
Begun == Waits("create", NoPane) \/ Waits("furnish", NoPane)

ReadyInv ==
  /\ Begun => Len(stack) = 1
  /\ Waits("create", NoPane) => active = NoPane
  /\ Waits("furnish", NoPane) => active \in Usable

(* What holds whatever goes wrong.                                         *)
SampleInv == PanesInv /\ OwnedInv(Held) /\ StylesInv /\ Outermost

-----------------------------------------------------------------------------
(* The outermost call.                                                     *)

(* Calls of panes begun from within leave it where it is.                  *)
LEMMA OutermostStays ==
  ASSUME stack \in Seq(Calls), stack # <<>>, Outermost, NEW e \in Seq(Calls),
         Elements(e) \subseteq PaneCalls, Continue(e)
  PROVE  Outermost'
<1>. DEFINE t == Tail(stack)
<1>1. t \in Seq(Calls) /\ Len(stack) = Len(t) + 1 /\ Len(stack) \in Nat
  OBVIOUS
<1>2. \A i \in DOMAIN t : i + 1 \in DOMAIN stack /\ t[i] = stack[i + 1]
  OBVIOUS
<1>3. stack' = e \o t
  BY DEF Continue
<1>. HIDE DEF t
<1>4. Len(stack') = Len(e) + Len(t) /\ DOMAIN stack' = 1 .. Len(e) + Len(t)
  BY <1>1, <1>3
<1>5. ASSUME NEW i \in DOMAIN stack', stack'[i].at \in {"create", "furnish"}
      PROVE  i = Len(stack')
  <2>1. i \in DOMAIN e => stack'[i] = e[i]
    BY <1>1, <1>3
  <2>2. i \notin DOMAIN e => i - Len(e) \in DOMAIN t /\ stack'[i] = t[i - Len(e)]
    BY <1>1, <1>3, <1>4
  <2>3. i \notin DOMAIN e
    BY <1>5, <2>1 DEF Elements, PaneCalls, OfAPane
  <2>4. i - Len(e) + 1 \in DOMAIN stack /\ stack[i - Len(e) + 1].at \in {"create", "furnish"}
    BY <1>2, <1>5, <2>2, <2>3
  <2>5. i - Len(e) + 1 = Len(stack)
    BY <2>4 DEF Outermost
  <2>. QED
    BY <1>1, <1>4, <2>5
<1>. QED
  BY <1>5 DEF Outermost

(* When the outermost call runs it is the only one.                        *)
LEMMA RunsAlone ==
  ASSUME stack \in Seq(Calls), Outermost, NEW at \in {"create", "furnish"}, Running(at)
  PROVE  /\ stack # <<>> /\ Tail(stack) = <<>> /\ Len(stack) = 1
         /\ \A bt, p : Waits(bt, p) <=> bt = at /\ p = NoPane
<1>1. stack # <<>> /\ Head(stack).at = at
  BY DEF Running
<1>2. Len(stack) = 1
  <2>1. 1 \in DOMAIN stack /\ Head(stack) = stack[1]
    BY <1>1
  <2>. QED
    BY <1>1, <2>1 DEF Outermost
<1>3. Tail(stack) = <<>>
  <2>1. Tail(stack) \in Seq(Calls) /\ Len(Tail(stack)) = 0
    BY <1>1, <1>2
  <2>2. \A s \in Seq(Calls) : Len(s) = 0 => s = <<>>
    OBVIOUS
  <2>. QED
    BY <2>1, <2>2
<1>4. Head(stack) \in Calls /\ Pending = {Head(stack)}
  BY <1>1, <1>3, ElementsOfTail, NoElements DEF Pending
<1>5. Head(stack) = Call(at, NoPane)
  <2>1. Head(stack) \notin PaneCalls
    BY <1>1 DEF PaneCalls, OfAPane
  <2>. QED
    BY <1>1, <1>4, <2>1 DEF Calls, Call
<1>. QED
  BY <1>1, <1>2, <1>3, <1>4, <1>5, CallsAreDistinct DEF Waits

LEMMA RunningClient ==
  ASSUME stack \in Seq(Calls), NEW at \in {"create", "furnish"}, Running(at)
  PROVE  Waits(at, NoPane)
<1>1. stack # <<>> /\ Head(stack).at = at
  BY DEF Running
<1>2. Head(stack) \in Calls /\ Head(stack) \in Pending
  BY <1>1, ElementsOfTail DEF Pending
<1>3. Head(stack) \notin PaneCalls
  BY <1>1 DEF PaneCalls, OfAPane
<1>. QED
  BY <1>1, <1>2, <1>3 DEF Calls, Call, Waits

-----------------------------------------------------------------------------
(* The steps of the client.                                                *)

(* Steps that leave the windows alone: some calls of the client's are done *)
(* with or begun, and what it held, S, becomes T.                          *)
LEMMA ObjectsStay ==
  ASSUME PanesInv, stack' \in Seq(Calls), UNCHANGED <<objects, crashed>>,
         NEW S, NEW T, OwnedInv(S), T \subseteq S,
         \A p \in Panes : /\ GoesOn(p, S, T)
                          /\ p \in S \ T => Waits("close_frame", p)'
  PROVE  PanesInv' /\ OwnedInv(T)'
<1>1. PanesTypeOK'
  BY DEF PanesInv, PanesTypeOK, objects
<1>2. \A p \in Panes : LeftIntact(p, S, T) /\ GoesOn(p, S, T)
  BY DEF LeftIntact, objects
<1>. QED
  BY <1>1, <1>2, ClientKeeps

LEMMA ShowStylesKeeps ==
  ASSUME SampleAssumption, SampleInv, ShowStyles
  PROVE  SampleInv'
<1>1. PICK S : S = Held
  OBVIOUS
<1>2. /\ PanesInv /\ OwnedInv(S) /\ StylesInv
  BY <1>1 DEF SampleInv
<1>3. /\ Idle /\ ~terminated /\ stack' = Entry("create", NoPane)
      /\ UNCHANGED <<objects, crashed, client>>
  BY DEF ShowStyles
<1>4. /\ stack' \in Seq(Calls)
      /\ \A at, q : ~Waits(at, q)
      /\ \A at, q : Waits(at, q)' => at = "create" /\ q = NoPane
  <2>1. /\ Entry("create", NoPane) \in Seq(Calls)
        /\ Elements(Entry("create", NoPane)) = {Call("create", NoPane)}
    BY ElementsOfEntry DEF Calls, Call
  <2>. QED
    BY <1>3, <2>1, NothingWaits, Beginning, CallsAreDistinct
<1>5. \A p \in Panes : GoesOn(p, S, S)
  BY <1>4 DEF GoesOn, OfAPane
<1>6. PanesInv' /\ OwnedInv(S)'
  BY <1>2, <1>3, <1>4, <1>5, ObjectsStay
<1>7. OwnedInv(Held)'
  BY <1>1, <1>3, <1>6 DEF OwnedInv, Held, client
<1>8. StylesInv'
  BY <1>2, <1>3, <1>4 DEF StylesInv, client, objects
<1>9. Outermost'
  <2>1. Len(stack') = 1 /\ DOMAIN stack' = {1}
    BY <1>3 DEF Entry
  <2>. QED
    BY <2>1 DEF Outermost
<1>. QED
  BY <1>6, <1>7, <1>8, <1>9 DEF SampleInv

LEMMA TerminateKeeps ==
  ASSUME SampleAssumption, SampleInv, Terminate
  PROVE  SampleInv'
<1>1. PICK S : S = Held
  OBVIOUS
<1>2. /\ PanesInv /\ OwnedInv(S) /\ StylesInv
  BY <1>1 DEF SampleInv
<1>3. /\ Idle /\ terminated' = TRUE /\ stack' = Destruction(active) /\ active' = NoPane
      /\ UNCHANGED <<connected, objects, crashed>>
  BY DEF Terminate, DropPane
<1>4. /\ active \in Panes \union {NoPane}
      /\ NoPane \notin Panes
  BY <1>2 DEF StylesInv, SampleAssumption
<1>5. /\ stack' \in Seq(Calls)
      /\ Elements(Destruction(active)) \subseteq PaneCalls
      /\ \A at, q : ~Waits(at, q)
      /\ \A at, q : Waits(at, q)' <=> q \in Panes /\ q = active /\ at = "close_frame"
  BY <1>3, <1>4, ElementsOfDestruction, NothingWaits, Beginning
<1>6. \A p \in Panes : /\ GoesOn(p, S, {})
                       /\ p \in S => Waits("close_frame", p)'
  BY <1>1, <1>5 DEF GoesOn, OfAPane, Held
<1>7. PanesInv' /\ OwnedInv({})'
  BY <1>2, <1>3, <1>5, <1>6, ObjectsStay
<1>8. Held' = {}
  BY <1>3 DEF Held
<1>9. OwnedInv(Held)'
  BY <1>7, <1>8 DEF OwnedInv
<1>10. StylesInv'
  BY <1>2, <1>3, <1>4, <1>5 DEF StylesInv, objects
<1>11. Outermost'
  <2>1. \A i \in DOMAIN stack' : stack'[i].at \notin {"create", "furnish"}
    BY <1>3, <1>5 DEF Elements, PaneCalls, OfAPane
  <2>. QED
    BY <2>1 DEF Outermost
<1>. QED
  BY <1>7, <1>9, <1>10, <1>11 DEF SampleInv

LEMMA UserClosesKeepsSample ==
  ASSUME SampleAssumption, SampleInv, NEW p \in Panes, UserCloses(p), UNCHANGED client
  PROVE  SampleInv'
<1>1. PICK S : S = Held
  OBVIOUS
<1>2. PanesInv /\ OwnedInv(S) /\ StylesInv /\ PanesTypeOK
  BY <1>1 DEF SampleInv, PanesInv
<1>3. PanesInv' /\ OwnedInv(S)'
  BY <1>2, UserClosesKeeps
<1>4. OwnedInv(Held)'
  BY <1>1, <1>3 DEF OwnedInv, Held, client
<1>5. PICK e \in Closings(p) : stack' = e
  BY DEF UserCloses
<1>6. /\ Elements(e) \subseteq PaneCalls
      /\ \A at, q : ~Waits(at, q)
      /\ \A at, q : Waits(at, q)' <=> at \in {"notify", "close_pane"} /\ q = p
  <2>1. e \in Seq(Calls) /\ Elements(e) = {Call("notify", p), Call("close_pane", p)}
    BY ElementsOfClosing
  <2>2. Elements(e) \subseteq PaneCalls
    BY <2>1 DEF PaneCalls, Call, OfAPane
  <2>3. \A at, q : ~Waits(at, q)
    BY NothingWaits DEF UserCloses
  <2>4. \A at, q : Waits(at, q)' <=> Call(at, q) \in Elements(e)
    BY <1>5, <2>1, Beginning
  <2>. QED
    BY <2>1, <2>2, <2>3, <2>4, CallsAreDistinct
<1>7. window' = [window EXCEPT ![p] = "closing"] /\ UNCHANGED <<advised, client>>
  BY DEF UserCloses, BeginClosing
<1>8. StylesInv'
  BY <1>2, <1>6, <1>7 DEF StylesInv, PanesTypeOK, client
<1>9. Outermost'
  <2>1. \A i \in DOMAIN stack' : stack'[i].at \notin {"create", "furnish"}
    BY <1>5, <1>6 DEF Elements, PaneCalls, OfAPane
  <2>. QED
    BY <2>1 DEF Outermost
<1>. QED
  BY <1>3, <1>4, <1>8, <1>9 DEF SampleInv

LEMMA NotifiesLateKeepsSample ==
  ASSUME SampleAssumption, SampleInv, NEW p \in Panes, NotifiesLate(p), UNCHANGED client
  PROVE  SampleInv'
<1>1. PICK S : S = Held
  OBVIOUS
<1>2. PanesInv /\ OwnedInv(S) /\ StylesInv
  BY <1>1 DEF SampleInv
<1>3. /\ PanesInv' /\ OwnedInv(S)'
      /\ stack' \in Seq(Calls) /\ Elements(stack') = {Call("notify", p)}
  BY <1>2, NotifiesLateKeeps
<1>4. OwnedInv(Held)'
  BY <1>1, <1>3 DEF OwnedInv, Held, client
<1>5. /\ \A at, q : ~Waits(at, q)
      /\ \A at, q : Waits(at, q)' => at = "notify"
      /\ UNCHANGED <<window, advised, client>>
  <2>1. \A at, q : ~Waits(at, q)
    BY NothingWaits DEF NotifiesLate
  <2>2. Pending' = {Call("notify", p)}
    BY <1>3 DEF Pending, Elements
  <2>. QED
    BY <2>1, <2>2, CallsAreDistinct DEF Waits, Call, NotifiesLate, objects
<1>6. StylesInv'
  BY <1>2, <1>5 DEF StylesInv, client
<1>7. Outermost'
  <2>1. \A i \in DOMAIN stack' : stack'[i].at \notin {"create", "furnish"}
    BY <1>3 DEF Elements, Call
  <2>. QED
    BY <2>1 DEF Outermost
<1>. QED
  BY <1>3, <1>4, <1>6, <1>7 DEF SampleInv

LEMMA ShellKeepsSample ==
  ASSUME SampleAssumption, SampleInv, Shell, UNCHANGED client
  PROVE  SampleInv'
<1>1. PICK S : S = Held
  OBVIOUS
<1>2. PanesInv /\ OwnedInv(S) /\ StylesInv /\ Outermost /\ stack \in Seq(Calls)
  BY <1>1 DEF SampleInv, PanesInv
<1>3. PanesInv' /\ OwnedInv(S)'
  BY <1>2, ShellKeeps
<1>4. OwnedInv(Held)'
  BY <1>1, <1>3 DEF OwnedInv, Held, client
<1>5. GoesOnWithin /\ \A p \in Panes : SeenOf(p, S)
  BY <1>2, ShellSeen
<1>6. Outermost' /\ \A at \in {"create", "furnish"} : Waits(at, NoPane)' => Waits(at, NoPane)
  <2>1. CASE UNCHANGED <<stack, window>>
    BY <1>2, <2>1 DEF Outermost, Waits, Pending, Elements, Call
  <2>2. CASE stack # <<>> /\ \E e \in Seq(Calls) : Continue(e) /\ Elements(e) \subseteq PaneCalls
    <3>1. PICK e \in Seq(Calls) : Continue(e) /\ Elements(e) \subseteq PaneCalls
      BY <2>2
    <3>2. \A at \in {"create", "furnish"} : Call(at, NoPane) \notin PaneCalls
      BY DEF Call, PaneCalls, OfAPane
    <3>. QED
      BY <1>2, <2>2, <3>1, <3>2, OutermostStays, Continuing
  <2>. QED
    BY <1>5, <2>1, <2>2 DEF GoesOnWithin
<1>7. StylesInv'
  <2>1. PICK a : a = active
    OBVIOUS
  <2>2. a \in Panes => /\ window[a] = "shown" => window'[a] = "shown"
                       /\ advised'[a] => advised[a]
                       /\ Waits("notify", a) => Waits("notify", a)'
    BY <1>1, <1>5, <2>1 DEF SeenOf, Open, Held, SampleAssumption
  <2>3. connected \in Panes => window'[connected] # "none"
    BY <1>2, <1>5 DEF SeenOf, StylesInv
  <2>. QED
    BY <1>2, <1>6, <2>1, <2>2, <2>3 DEF StylesInv, client
<1>. QED
  BY <1>3, <1>4, <1>6, <1>7 DEF SampleInv

(* What waits when the outermost call goes on with e.                      *)
LEMMA GoingOnAlone ==
  ASSUME stack \in Seq(Calls), stack # <<>>, Tail(stack) = <<>>,
         NEW e \in Seq(Calls), Continue(e)
  PROVE  /\ stack' \in Seq(Calls) /\ stack' = e
         /\ \A at, q : Waits(at, q)' <=> Call(at, q) \in Elements(e)
<1>1. stack' = e \o <<>>
  BY DEF Continue
<1>2. e \o <<>> = e
  OBVIOUS
<1>. QED
  BY <1>1, <1>2, Beginning

LEMMA CreatePaneKeeps ==
  ASSUME SampleAssumption, SampleInv, CreatePane
  PROVE  SampleInv'
<1>1. PICK S, a : S = Held /\ a = active
  OBVIOUS
<1>2. /\ PanesInv /\ OwnedInv(S) /\ StylesInv /\ Outermost
      /\ stack \in Seq(Calls) /\ PanesTypeOK
      /\ \A q \in Panes : InStep(q) /\ Accounted(q, S)
  BY <1>1 DEF SampleInv, PanesInv, OwnedInv
<1>3. a \in Panes \union {NoPane} /\ NoPane \notin Panes
  BY <1>1, <1>2 DEF StylesInv, SampleAssumption
<1>4. PICK n \in Panes \union {NoPane} :
        /\ Continue(Destruction(a) \o Entry("furnish", NoPane))
        /\ active' = n
        /\ \/ n \in Unused /\ Create(n)
           \/ n = NoPane /\ UNCHANGED objects
  <2>1. CASE \E p \in Unused : Create(p) /\ AssignPane(p)
    BY <1>1, <2>1 DEF AssignPane, Unused
  <2>2. CASE AssignPane(NoPane) /\ UNCHANGED objects
    BY <1>1, <2>2 DEF AssignPane
  <2>. QED
    BY <2>1, <2>2 DEF CreatePane
<1>5. Running("create") /\ UNCHANGED <<connected, terminated, crashed>>
  BY DEF CreatePane
<1>6. /\ stack # <<>> /\ Tail(stack) = <<>>
      /\ \A at, q : Waits(at, q) <=> at = "create" /\ q = NoPane
  BY <1>2, <1>5, RunsAlone
<1>. DEFINE d == Destruction(a)
            f == Entry("furnish", NoPane)
<1>7. /\ d \in Seq(Calls) /\ Elements(d) \subseteq PaneCalls
      /\ \A at, q : Call(at, q) \in Elements(d) <=> q \in Panes /\ q = a /\ at = "close_frame"
  BY <1>3, ElementsOfDestruction
<1>8. f \in Seq(Calls) /\ Elements(f) = {Call("furnish", NoPane)}
  BY ElementsOfEntry DEF Calls, Call
<1>9. f = <<Call("furnish", NoPane)>>
  BY DEF Entry, Call
<1>10. Continue(d \o f)
  BY <1>4
<1>. HIDE DEF d, f
<1>11. d \o f \in Seq(Calls) /\ Elements(d \o f) = Elements(d) \union Elements(f)
  BY <1>7, <1>8, ElementsOfConcat
<1>12. /\ stack' \in Seq(Calls) /\ stack' = d \o f
       /\ \A at, q : Waits(at, q)' <=> \/ at = "furnish" /\ q = NoPane
                                       \/ at = "close_frame" /\ q \in Panes /\ q = a
  <2>1. /\ stack' \in Seq(Calls) /\ stack' = d \o f
        /\ \A at, q : Waits(at, q)' <=> Call(at, q) \in Elements(d \o f)
    BY <1>2, <1>6, <1>10, <1>11, GoingOnAlone
  <2>. QED
    BY <2>1, <1>7, <1>8, <1>11, CallsAreDistinct
<1>13. PICK T : T = {n} \ {NoPane}
  OBVIOUS
<1>14. \A q \in Panes : GoesOn(q, S, T)
  <2>1. n \in Unused => n # a
    <3>1. a \in Panes => window[a] # "none"
      BY <1>1, <1>2, <1>3 DEF InStep, Accounted, Held
    <3>. QED
      BY <1>3, <3>1 DEF Unused
  <2>2. a \in Panes => a \in S \ T
    BY <1>1, <1>3, <1>4, <1>13, <2>1 DEF Held
  <2>. QED
    BY <1>6, <1>12, <2>2 DEF GoesOn, OfAPane
<1>15. /\ PanesTypeOK'
       /\ \A q \in Panes : LeftIntact(q, S, T) \/ JustMade(q, T)
  <2>1. \A q \in Panes : q \in S => Waits("close_frame", q)'
    BY <1>1, <1>12 DEF Held
  <2>2. CASE n \in Unused /\ Create(n)
    <3>1. /\ PanesTypeOK'
          /\ \A q \in Panes : q # n => /\ window'[q] = window[q] /\ impl'[q] = impl[q]
                                       /\ frame'[q] = frame[q] /\ advised'[q] = advised[q]
                                       /\ view'[q] = view[q]
          /\ window'[n] = "hidden" /\ impl'[n] = "alive" /\ frame'[n] = "alive"
      BY <1>2, <1>3, <1>5, <2>2, PaneMade
    <3>2. JustMade(n, T)
      BY <1>3, <1>13, <2>2, <3>1 DEF JustMade, Unused
    <3>3. \A q \in Panes : q # n => LeftIntact(q, S, T)
      BY <1>13, <2>1, <3>1 DEF LeftIntact
    <3>. QED
      BY <3>1, <3>2, <3>3
  <2>3. CASE n = NoPane /\ UNCHANGED objects
    BY <1>2, <1>3, <1>5, <1>13, <2>1, <2>3 DEF LeftIntact, PanesTypeOK, objects
  <2>. QED
    BY <1>4, <2>2, <2>3
<1>16. PanesInv' /\ OwnedInv(T)'
  BY <1>2, <1>12, <1>14, <1>15, ClientKeeps
<1>17. OwnedInv(Held)'
  BY <1>4, <1>13, <1>16 DEF OwnedInv, Held
<1>18. StylesInv'
  <2>1. Waits("create", NoPane)
    BY <1>6
  <2>2. ~terminated
    BY <1>2, <2>1 DEF StylesInv
  <2>3. connected \in Panes => /\ connected # n
                               /\ window'[connected] # "none"
    <3>1. connected \in Panes => window[connected] # "none"
      BY <1>2 DEF StylesInv
    <3>2. CASE n \in Unused /\ Create(n)
      BY <1>2, <1>3, <1>5, <3>1, <3>2, PaneMade DEF Unused
    <3>3. CASE n = NoPane /\ UNCHANGED objects
      BY <1>3, <3>1, <3>3 DEF objects
    <3>. QED
      BY <1>4, <3>2, <3>3
  <2>. QED
    BY <1>2, <1>4, <1>5, <2>2, <2>3 DEF StylesInv
<1>19. Outermost'
  <2>1. stack' = d \o <<Call("furnish", NoPane)>>
    BY <1>9, <1>12
  <2>2. Len(stack') = Len(d) + 1 /\ DOMAIN stack' = 1 .. Len(d) + 1
    BY <1>7, <2>1
  <2>3. \A i \in DOMAIN d : stack'[i] = d[i] /\ d[i].at \notin {"create", "furnish"}
    BY <1>7, <2>1 DEF Elements, PaneCalls, OfAPane
  <2>4. ASSUME NEW i \in DOMAIN stack', stack'[i].at \in {"create", "furnish"}
        PROVE  i = Len(stack')
    <3>1. i \notin DOMAIN d
      BY <2>3, <2>4
    <3>. QED
      BY <1>7, <2>2, <3>1
  <2>. QED
    BY <2>4 DEF Outermost
<1>. QED
  BY <1>16, <1>17, <1>18, <1>19 DEF SampleInv

(* The outermost call runs when nothing is closing.                        *)
LEMMA FurnishRuns ==
  ASSUME SampleInv, Running("furnish"), active \in Usable
  PROVE  /\ active \in Panes /\ active \in Open
         /\ stack # <<>> /\ Tail(stack) = <<>>
         /\ \A at, q : Waits(at, q) <=> at = "furnish" /\ q = NoPane
<1>1. /\ stack \in Seq(Calls) /\ Outermost /\ PanesTypeOK /\ \A q \in Panes : InStep(q)
  BY DEF SampleInv, PanesInv
<1>2. /\ stack # <<>> /\ Tail(stack) = <<>>
      /\ \A at, q : Waits(at, q) <=> at = "furnish" /\ q = NoPane
  BY <1>1, RunsAlone
<1>3. PICK a \in Panes : a = active /\ impl[a] = "alive"
  BY DEF Usable
<1>4. ~Waits("close_pane", a)
  BY <1>2
<1>5. a \in Open
  BY <1>1, <1>3, <1>4 DEF InStep, Open
<1>. QED
  BY <1>2, <1>3, <1>5

LEMMA FurnishKeeps ==
  ASSUME SampleAssumption, SampleInv, Furnish
  PROVE  SampleInv'
<1>1. PICK S, a : S = Held /\ a = active
  OBVIOUS
<1>2. /\ PanesInv /\ OwnedInv(S) /\ StylesInv /\ PanesTypeOK /\ stack \in Seq(Calls)
  BY <1>1 DEF SampleInv, PanesInv
<1>3. /\ a \in Panes /\ a \in Open
      /\ stack # <<>> /\ Tail(stack) = <<>>
      /\ \A at, q : Waits(at, q) <=> at = "furnish" /\ q = NoPane
  BY <1>1, FurnishRuns DEF Furnish
<1>4. /\ window' = [window EXCEPT ![a] = "shown"]
      /\ view' = [view EXCEPT ![a] = TRUE]
      /\ connected' = a /\ Continue(<<>>)
      /\ UNCHANGED <<impl, frame, advised, active, terminated, crashed>>
  BY <1>1 DEF Furnish, Shown, CreatePaneWindow, Return
<1>5. stack' = <<>> /\ stack' \in Seq(Calls) /\ \A at, q : ~Waits(at, q)'
  BY <1>2, <1>3, <1>4, NoElements, GoingOnAlone
<1>6. PanesTypeOK'
  BY <1>2, <1>4 DEF PanesTypeOK
<1>7. \A q \in Panes : LeftIntact(q, S, S) /\ GoesOn(q, S, S)
  <2>1. \A q \in Panes : /\ window'[q] = window[q] \/ (q \in Open /\ window'[q] = "shown")
                         /\ view'[q] => view[q] \/ q \in Open
    BY <1>2, <1>3, <1>4 DEF PanesTypeOK
  <2>. QED
    BY <1>3, <1>4, <1>5, <2>1 DEF LeftIntact, GoesOn, OfAPane
<1>8. PanesInv' /\ OwnedInv(S)'
  BY <1>2, <1>5, <1>6, <1>7, ClientKeeps
<1>9. OwnedInv(Held)'
  BY <1>1, <1>4, <1>8 DEF OwnedInv, Held
<1>10. StylesInv'
  <2>1. window'[a] = "shown"
    BY <1>2, <1>3, <1>4 DEF PanesTypeOK
  <2>. QED
    BY <1>1, <1>2, <1>3, <1>4, <1>5, <2>1 DEF StylesInv
<1>11. Outermost'
  BY <1>5 DEF Outermost
<1>. QED
  BY <1>8, <1>9, <1>10, <1>11 DEF SampleInv

LEMMA FurnishThrowsKeeps ==
  ASSUME SampleAssumption, SampleInv, FurnishThrows
  PROVE  SampleInv'
<1>1. PICK S : S = Held
  OBVIOUS
<1>2. /\ PanesInv /\ OwnedInv(S) /\ StylesInv /\ stack \in Seq(Calls)
  BY <1>1 DEF SampleInv, PanesInv
<1>3. /\ Continue(<<>>) /\ UNCHANGED <<objects, crashed, client>>
  BY DEF FurnishThrows, Return
<1>4. /\ stack # <<>> /\ Tail(stack) = <<>>
      /\ \A at, q : Waits(at, q) <=> at = "furnish" /\ q = NoPane
  BY FurnishRuns DEF FurnishThrows
<1>5. stack' = <<>> /\ stack' \in Seq(Calls) /\ \A at, q : ~Waits(at, q)'
  BY <1>2, <1>3, <1>4, NoElements, GoingOnAlone
<1>6. \A p \in Panes : GoesOn(p, S, S)
  BY <1>4, <1>5 DEF GoesOn, OfAPane
<1>7. PanesInv' /\ OwnedInv(S)'
  BY <1>2, <1>3, <1>5, <1>6, ObjectsStay
<1>8. OwnedInv(Held)'
  BY <1>1, <1>3, <1>7 DEF OwnedInv, Held, client
<1>9. StylesInv'
  BY <1>2, <1>3, <1>4, <1>5 DEF StylesInv, client, objects
<1>10. Outermost'
  BY <1>5 DEF Outermost
<1>. QED
  BY <1>7, <1>8, <1>9, <1>10 DEF SampleInv

LEMMA NotifyKeeps ==
  ASSUME SampleAssumption, SampleInv,
         \/ OnShow("notify") /\ OnClose(Subject)
         \/ Unheard("notify") /\ UNCHANGED client
  PROVE  SampleInv'
<1>1. PICK S, a : S = Held /\ a = active
  OBVIOUS
<1>2. /\ PanesInv /\ OwnedInv(S) /\ StylesInv /\ Outermost /\ stack \in Seq(Calls)
      /\ a \in Panes \union {NoPane} /\ NoPane \notin Panes
  BY <1>1 DEF SampleInv, PanesInv, StylesInv, SampleAssumption
<1>3. Running("notify") /\ UNCHANGED <<objects, crashed, connected, terminated>>
  BY DEF OnShow, Unheard, OnClose, client
<1>4. PICK p \in Panes : stack # <<>> /\ Subject = p /\ Head(stack) = Call("notify", p)
  BY <1>2, <1>3, RunningCall DEF OfAPane
<1>5. \/ connected = p /\ Continue(Destruction(a)) /\ active' = NoPane
      \/ connected # p /\ Continue(<<>>) /\ active' = a
      \/ ~advised[p] /\ Continue(<<>>) /\ active' = a
  BY <1>1, <1>4 DEF OnClose, Slot, Unheard, Return, client
<1>6. PICK T : T = IF active' = NoPane THEN {} ELSE S
  OBVIOUS
<1>7. PICK e \in Seq(Calls) :
        /\ Continue(e) /\ Elements(e) \subseteq PaneCalls
        /\ \A at, q : Call(at, q) \in Elements(e) => at = "close_frame" /\ q \in S \ T
        /\ \A q \in S \ T : Call("close_frame", q) \in Elements(e)
  <2>1. CASE Continue(Destruction(a)) /\ active' = NoPane
    <3>1. /\ Destruction(a) \in Seq(Calls)
          /\ Elements(Destruction(a)) \subseteq PaneCalls
          /\ \A at, q : Call(at, q) \in Elements(Destruction(a))
                          <=> q \in Panes /\ q = a /\ at = "close_frame"
      BY <1>2, ElementsOfDestruction
    <3>2. \A q : q \in S \ T <=> q \in Panes /\ q = a
      BY <1>1, <1>2, <1>6, <2>1 DEF Held
    <3>. QED
      BY <2>1, <3>1, <3>2
  <2>2. CASE Continue(<<>>) /\ active' = a
    <3>1. S \ T = {}
      BY <1>1, <1>6, <2>2 DEF Held
    <3>. QED
      BY <2>2, <3>1, NoElements
  <2>. QED
    BY <1>5, <2>1, <2>2
<1>8. /\ stack' \in Seq(Calls)
      /\ \A at, q : /\ Waits(at, q)' => Waits(at, q) \/ (at = "close_frame" /\ q \in S \ T)
                    /\ Waits(at, q) /\ (at # "notify" \/ q # p) => Waits(at, q)'
      /\ \A q \in S \ T : Waits("close_frame", q)'
  <2>1. /\ stack' \in Seq(Calls)
        /\ \A at, q : /\ Waits(at, q)' => Waits(at, q) \/ Call(at, q) \in Elements(e)
                      /\ Call(at, q) \in Elements(e) => Waits(at, q)'
                      /\ Waits(at, q) /\ Call(at, q) # Head(stack) => Waits(at, q)'
    BY <1>2, <1>4, <1>7, Continuing
  <2>2. \A at, q : Call(at, q) = Head(stack) => at = "notify" /\ q = p
    BY <1>4, CallsAreDistinct
  <2>. QED
    BY <1>7, <2>1, <2>2
<1>9. \A q \in Panes : GoesOn(q, S, T)
  BY <1>8 DEF GoesOn
<1>10. T \subseteq S
  BY <1>6
<1>11. PanesInv' /\ OwnedInv(T)'
  BY <1>2, <1>3, <1>8, <1>9, <1>10, ObjectsStay
<1>12. Held' = T
  BY <1>1, <1>2, <1>5, <1>6 DEF Held
<1>13. OwnedInv(Held)'
  BY <1>11, <1>12 DEF OwnedInv
<1>14. StylesInv'
  <2>1. \A at \in {"create", "furnish"} : Waits(at, NoPane)' => Waits(at, NoPane)
    BY <1>8
  <2>2. active' \in {a, NoPane} /\ window' = window /\ advised' = advised
    BY <1>3, <1>5 DEF objects
  <2>3. ASSUME a \in Panes, active' = a, connected = a, advised[a]
        PROVE  window[a] = "shown" \/ Waits("notify", a)'
    <3>1. window[a] = "shown" \/ Waits("notify", a)
      BY <1>1, <1>2, <2>3 DEF StylesInv
    <3>2. a # p
      BY <1>2, <1>5, <2>3
    <3>. QED
      BY <1>8, <3>1, <3>2
  <2>. QED
    BY <1>1, <1>2, <1>3, <2>1, <2>2, <2>3 DEF StylesInv
<1>15. Outermost'
  BY <1>2, <1>4, <1>7, OutermostStays
<1>. QED
  BY <1>11, <1>13, <1>14, <1>15 DEF SampleInv

-----------------------------------------------------------------------------
(* The theorems.                                                           *)

LEMMA CrashKeeps ==
  ASSUME SampleInv, UNCHANGED <<objects, stack, client>>, crashed' \in BOOLEAN
  PROVE  SampleInv'
<1>1. PanesInv' /\ StylesInv' /\ Outermost'
  BY DEF SampleInv, PanesInv, PanesTypeOK, InStep, StylesInv, Outermost, Waits, Pending,
         Elements, Call, objects, client
<1>2. OwnedInv(Held)'
  BY DEF SampleInv, OwnedInv, Accounted, Held, Open, Waits, Pending, Elements, Call,
         objects, client
<1>. QED
  BY <1>1, <1>2 DEF SampleInv

LEMMA SampleStart ==
  ASSUME SampleAssumption, Init
  PROVE  SampleInv
<1>1. /\ PanesInit /\ active = NoPane /\ connected = NoPane /\ terminated = FALSE
      /\ NoPane \notin Panes
  BY DEF Init, SampleAssumption
<1>2. PanesInv /\ OwnedInv({}) /\ Held = {}
  BY <1>1, InitKeeps DEF Held
<1>3. stack = <<>>
  BY <1>1 DEF PanesInit
<1>4. StylesInv /\ Outermost
  <2>1. DOMAIN stack = {}
    BY <1>3
  <2>. QED
    BY <1>1, <2>1 DEF StylesInv, Outermost
<1>. QED
  BY <1>2, <1>4 DEF SampleInv

LEMMA SampleStep ==
  ASSUME SampleAssumption, SampleInv, [Next]_vars
  PROVE  SampleInv'
<1>1. CASE UNCHANGED vars
  <2>1. UNCHANGED <<objects, stack, client>> /\ crashed' \in BOOLEAN
    BY <1>1 DEF vars, panes, SampleInv, PanesInv, PanesTypeOK
  <2>. QED
    BY <2>1, CrashKeeps
<1>2. CASE User
  BY <1>2, ShowStylesKeeps, UserClosesKeepsSample, NotifiesLateKeepsSample DEF User
<1>3. CASE Terminate
  BY <1>3, TerminateKeeps
<1>4. CASE FurnishNothing
  <2>1. UNCHANGED <<objects, stack, client>> /\ crashed' \in BOOLEAN
    BY <1>4 DEF FurnishNothing, Crash
  <2>. QED
    BY <2>1, CrashKeeps
<1>5. CASE Resume
  <2>1. CASE Notify
    BY <2>1, NotifyKeeps DEF Notify
  <2>. QED
    BY <1>4, <1>5, <2>1, CreatePaneKeeps, FurnishKeeps, FurnishThrowsKeeps, ShellKeepsSample
       DEF Resume
<1>. QED
  BY <1>1, <1>2, <1>3, <1>5 DEF Next

LEMMA SampleAlways == Spec => []SampleInv
<1>1. Init => SampleInv
  BY SampleAssumption, SampleStart
<1>2. SampleInv /\ [Next]_vars => SampleInv'
  BY SampleAssumption, SampleStep
<1>. QED
  BY <1>1, <1>2, PTL DEF Spec

LEMMA AllTakenDown ==
  ASSUME SampleInv, Idle, terminated
  PROVE  \A p \in Panes : Gone(p)
<1>1. \A at, p : ~Waits(at, p)
  BY NothingWaits
<1>2. Held = {}
  BY DEF SampleInv, StylesInv, Held
<1>3. \A p \in Panes : InStep(p) /\ Accounted(p, {})
  BY <1>2 DEF SampleInv, PanesInv, OwnedInv
<1>. QED
  BY <1>1, <1>3 DEF InStep, Accounted, Open, Gone

(* Once terminate() has returned nothing is left: no window, no pane_impl  *)
(* and no view_host, no frame and no listener, whatever went wrong before. *)
THEOREM TerminateTakesAllDown == Spec => []NothingLeft
<1>1. SampleInv => NothingLeft
  BY AllTakenDown DEF NothingLeft
<1>. QED
  BY <1>1, SampleAlways, PTL

(* Between calls there is no window but the one the command is disabled    *)
(* for, and that one, listened to, is on the screen.                       *)
THEOREM OneWindowAtATime == Spec => []CommandFollowsWindow
<1>1. ASSUME SampleInv, Idle
      PROVE  /\ Open \subseteq {active}
             /\ active # NoPane /\ connected = active /\ advised[active]
                  => window[active] = "shown"
  <2>1. \A at, p : ~Waits(at, p)
    BY <1>1, NothingWaits
  <2>2. \A p \in Panes : Accounted(p, Held)
    BY <1>1 DEF SampleInv, OwnedInv
  <2>3. Open \subseteq {active}
    BY <2>1, <2>2 DEF Accounted, Held, Open
  <2>. QED
    BY <1>1, <2>1, <2>3 DEF SampleInv, StylesInv
<1>2. SampleInv => CommandFollowsWindow
  BY <1>1 DEF CommandFollowsWindow
<1>. QED
  BY <1>2, SampleAlways, PTL

-----------------------------------------------------------------------------
(* With a shell that makes windows, and a command run only when enabled.   *)

(* A call of a pane runs only when the client's handler is over ...        *)
LEMMA NotBegun ==
  ASSUME SampleInv, ReadyInv, NEW at \in OfAPane, Running(at)
  PROVE  ~Begun
<1>1. SUFFICES ASSUME Len(stack) = 1 PROVE ~Begun
  BY DEF ReadyInv
<1>2. /\ stack \in Seq(Calls) /\ stack # <<>> /\ Subject \in Panes
      /\ Head(stack) = Call(at, Subject)
  BY RunningCall DEF SampleInv, PanesInv
<1>3. Tail(stack) \in Seq(Calls) /\ Pending = {Head(stack)} \union Elements(Tail(stack))
  BY <1>2, ElementsOfTail DEF Pending
<1>4. Tail(stack) = <<>>
  <2>1. Len(Tail(stack)) = 0
    BY <1>1, <1>2
  <2>2. \A s \in Seq(Calls) : Len(s) = 0 => s = <<>>
    OBVIOUS
  <2>. QED
    BY <1>3, <2>1, <2>2
<1>5. Pending = {Call(at, Subject)}
  BY <1>2, <1>3, <1>4, NoElements
<1>6. at \notin {"create", "furnish"}
  BY DEF OfAPane
<1>. QED
  BY <1>5, <1>6, CallsAreDistinct DEF Begun, Waits

(* ... and begins none.                                                    *)
LEMMA StillNotBegun ==
  ASSUME stack \in Seq(Calls), stack # <<>>, ~Begun,
         NEW e \in Seq(Calls), Elements(e) \subseteq PaneCalls, Continue(e)
  PROVE  ReadyInv'
<1>1. Call("create", NoPane) \notin PaneCalls /\ Call("furnish", NoPane) \notin PaneCalls
  BY DEF Call, PaneCalls, OfAPane
<1>2. ~Waits("create", NoPane)' /\ ~Waits("furnish", NoPane)'
  BY <1>1, Continuing DEF Begun
<1>. QED
  BY <1>2 DEF ReadyInv, Begun

LEMMA ReadyStep ==
  ASSUME SampleAssumption, "refused" \notin Disturbances, "stale" \notin Disturbances,
         SampleInv, ReadyInv, ~OnTheDestroyed, ~crashed, [Next]_vars
  PROVE  ReadyInv' /\ ~crashed'
<1>1. /\ PanesInv /\ StylesInv /\ Outermost /\ stack \in Seq(Calls) /\ PanesTypeOK
      /\ NoPane \notin Panes
  BY DEF SampleInv, PanesInv, SampleAssumption
<1>2. CASE UNCHANGED vars
  BY <1>2 DEF vars, panes, client, objects, ReadyInv, Begun, Waits, Pending, Elements, Call,
              Usable
<1>3. CASE ShowStyles
  <2>1. /\ stack' = Entry("create", NoPane) /\ UNCHANGED <<crashed, active>>
        /\ active = NoPane
    BY <1>3 DEF ShowStyles, Enabled, client
  <2>2. /\ Entry("create", NoPane) \in Seq(Calls)
        /\ Elements(Entry("create", NoPane)) = {Call("create", NoPane)}
    BY ElementsOfEntry DEF Calls, Call
  <2>3. ~Waits("furnish", NoPane)'
    BY <2>1, <2>2, Beginning, CallsAreDistinct
  <2>4. Len(stack') = 1
    BY <2>1 DEF Entry
  <2>. QED
    BY <2>1, <2>3, <2>4 DEF ReadyInv
<1>11. CASE \E p \in Panes : NotifiesLate(p) /\ UNCHANGED client
  <2>1. PICK p \in Panes : NotifiesLate(p)
    BY <1>11
  <2>2. Elements(stack') = {Call("notify", p)} /\ UNCHANGED crashed
    BY <1>1, <2>1, NotifiesLateKeeps DEF SampleInv, NotifiesLate
  <2>3. Pending' = {Call("notify", p)}
    BY <2>2 DEF Pending, Elements
  <2>4. ~Waits("create", NoPane)' /\ ~Waits("furnish", NoPane)'
    BY <2>3, CallsAreDistinct DEF Waits, Call
  <2>. QED
    BY <2>2, <2>4 DEF ReadyInv, Begun
<1>4. CASE \E p \in Panes : UserCloses(p) /\ UNCHANGED client
  <2>1. PICK p \in Panes : UserCloses(p)
    BY <1>4
  <2>2. PICK e \in Closings(p) : stack' = e /\ UNCHANGED crashed
    BY <2>1 DEF UserCloses, BeginClosing
  <2>3. \A at, q : Waits(at, q)' => at \in {"notify", "close_pane"} /\ q = p
    <3>1. e \in Seq(Calls) /\ Elements(e) = {Call("notify", p), Call("close_pane", p)}
      BY ElementsOfClosing
    <3>. QED
      BY <2>2, <3>1, Beginning, CallsAreDistinct
  <2>4. ~Waits("create", NoPane)' /\ ~Waits("furnish", NoPane)'
    BY <2>3
  <2>. QED
    BY <2>2, <2>4 DEF ReadyInv, Begun
<1>5. CASE Terminate
  <2>1. stack' = Destruction(active) /\ UNCHANGED crashed /\ active \in Panes \union {NoPane}
    BY <1>1, <1>5 DEF Terminate, DropPane, StylesInv
  <2>2. \A at, q : Waits(at, q)' => at = "close_frame"
    BY <1>1, <2>1, ElementsOfDestruction, Beginning
  <2>3. ~Waits("create", NoPane)' /\ ~Waits("furnish", NoPane)'
    BY <2>2
  <2>. QED
    BY <2>1, <2>3 DEF ReadyInv, Begun
<1>6. CASE CreatePane
  <2>1. Waits("create", NoPane)
    BY <1>1, <1>6, RunningClient DEF CreatePane
  <2>2. /\ active = NoPane /\ stack # <<>> /\ Tail(stack) = <<>>
    BY <1>1, <1>6, <2>1, RunsAlone DEF ReadyInv, CreatePane
  <2>3. PICK p \in Unused : Create(p) /\ AssignPane(p) /\ UNCHANGED crashed
    BY <1>6 DEF CreatePane
  <2>4. /\ Entry("furnish", NoPane) \in Seq(Calls)
        /\ Elements(Entry("furnish", NoPane)) = {Call("furnish", NoPane)}
    BY ElementsOfEntry DEF Calls, Call
  <2>5. Continue(Entry("furnish", NoPane))
    <3>1. <<>> \o Entry("furnish", NoPane) = Entry("furnish", NoPane)
      BY <2>4
    <3>. QED
      BY <2>2, <2>3, <3>1 DEF AssignPane, Destruction
  <2>6. /\ stack' = Entry("furnish", NoPane) /\ ~Waits("create", NoPane)'
    BY <1>1, <2>2, <2>4, <2>5, GoingOnAlone, CallsAreDistinct
  <2>7. active' = p /\ p \in Panes /\ frame'[p] = "alive" /\ impl'[p] = "alive"
    BY <1>1, <2>3, PaneMade DEF AssignPane, Unused
  <2>8. Len(stack') = 1
    BY <2>6 DEF Entry
  <2>. QED
    BY <2>3, <2>6, <2>7, <2>8 DEF ReadyInv, Usable
<1>7. CASE Furnish \/ FurnishThrows
  <2>1. /\ stack # <<>> /\ Tail(stack) = <<>> /\ Continue(<<>>) /\ UNCHANGED crashed
    BY <1>7, FurnishRuns DEF Furnish, FurnishThrows, Return
  <2>2. \A at, q : ~Waits(at, q)'
    BY <1>1, <2>1, NoElements, GoingOnAlone
  <2>. QED
    BY <2>1, <2>2 DEF ReadyInv, Begun
<1>8. ~FurnishNothing
  <2>1. Running("furnish") => Waits("furnish", NoPane)
    BY <1>1, RunningClient
  <2>. QED
    BY <2>1 DEF FurnishNothing, ReadyInv
<1>9. CASE Notify
  <2>2. Running("notify") /\ UNCHANGED crashed
    BY <1>9 DEF Notify, OnShow, Unheard
  <2>3. ~Begun /\ stack # <<>>
    BY <2>2, NotBegun DEF OfAPane, Running
  <2>4. Continue(<<>>) \/ Continue(Destruction(active))
    BY <1>9 DEF Notify, OnClose, Slot, Unheard, Return
  <2>5. active \in Panes \union {NoPane}
    BY <1>1 DEF StylesInv
  <2>6. PICK e \in Seq(Calls) : Elements(e) \subseteq PaneCalls /\ Continue(e)
    <3>1. CASE Continue(<<>>)
      BY <3>1, NoElements
    <3>2. CASE Continue(Destruction(active))
      BY <1>1, <2>5, <3>2, ElementsOfDestruction
    <3>. QED
      BY <2>4, <3>1, <3>2
  <2>. QED
    BY <1>1, <2>2, <2>3, <2>6, StillNotBegun
<1>10. CASE Shell /\ UNCHANGED client
  <2>1. PICK S : S = Held
    OBVIOUS
  <2>2. GoesOnWithin
    BY <1>1, <1>10, <2>1, ShellSeen DEF SampleInv
  <2>3. \E at \in OfAPane : Running(at)
    BY <1>10 DEF Shell, CloseFrame, Unadvise, EndMembers, ClosePane, OfAPane
  <2>4. UNCHANGED <<crashed, active>>
    BY <1>10 DEF Shell, CloseFrame, Unadvise, EndMembers, ClosePane, BeginClosing, client
  <2>5. ~Begun
    BY <2>3, NotBegun
  <2>6. CASE UNCHANGED <<stack, window>>
    BY <2>4, <2>5, <2>6 DEF ReadyInv, Begun, Waits, Pending, Elements, Call
  <2>7. CASE stack # <<>> /\ \E e \in Seq(Calls) : Continue(e) /\ Elements(e) \subseteq PaneCalls
    BY <1>1, <2>4, <2>5, <2>7, StillNotBegun
  <2>. QED
    BY <2>2, <2>6, <2>7 DEF GoesOnWithin
<1>. QED
  BY <1>2, <1>3, <1>4, <1>5, <1>6, <1>7, <1>8, <1>9, <1>10, <1>11 DEF Next, User, Resume

-----------------------------------------------------------------------------
(* The sample's members, its windows and its calls keep their types.       *)
THEOREM SampleKeepsTypes == Spec => []TypeOK
<1>1. SampleInv => TypeOK
  BY DEF SampleInv, PanesInv, StylesInv, TypeOK, Calls, PaneCalls
<1>. QED
  BY <1>1, SampleAlways, PTL

-----------------------------------------------------------------------------
(* The depth of re-entered calls.                                          *)

LEMMA DestructionApart ==
  ASSUME SampleAssumption, NEW a \in Panes \union {NoPane}
  PROVE  /\ AllApart(Destruction(a)) /\ Destruction(a) \in Seq(Calls)
         /\ \A c \in Elements(Destruction(a)) :
              \E q \in {a} \ {NoPane} : c = Call("close_frame", q)
<1>1. NoPane \notin Panes
  BY DEF SampleAssumption
<1>2. CASE a = NoPane
  BY <1>2, NoElements DEF Destruction
<1>3. CASE a # NoPane
  <2>1. Destruction(a) = Entry("close_frame", a)
    BY <1>3 DEF Destruction
  <2>2. Call("close_frame", a) \in Calls
    BY <1>3, CallsOfPanes DEF OfAPane
  <2>. QED
    BY <1>3, <2>1, <2>2, ElementsOfEntry, ApartEntry
<1>. QED
  BY <1>2, <1>3

(* The command and terminate(), from outside of any call.                  *)
LEMMA SampleBegins ==
  ASSUME SampleAssumption, SampleInv, ShowStyles \/ Terminate
  PROVE  ReentryInv(Held)'
<1>1. PICK S, a, T : S = Held /\ a = active /\ T = Held'
  OBVIOUS
<1>2. /\ a \in Panes \union {NoPane} /\ NoPane \notin Panes
      /\ \A q \in Panes : Accounted(q, S)
  BY <1>1 DEF SampleInv, StylesInv, OwnedInv, SampleAssumption
<1>3. frame' = frame
  BY DEF ShowStyles, Terminate, objects
<1>4. T \in SUBSET Panes
  BY <1>1, <1>2 DEF ShowStyles, Terminate, DropPane, Held, client
<1>5. PICK e \in Seq(Calls) :
        /\ stack' = e /\ AllApart(e)
        /\ \A c \in Elements(e) : \/ c = Call("create", NoPane)
                                  \/ \E q \in S : c = Call("close_frame", q)
  <2>1. CASE ShowStyles
    <3>1. /\ Entry("create", NoPane) \in Seq(Calls) /\ AllApart(Entry("create", NoPane))
          /\ Elements(Entry("create", NoPane)) = {Call("create", NoPane)}
      BY ElementsOfEntry, ApartEntry DEF Calls, Call
    <3>. QED
      BY <2>1, <3>1 DEF ShowStyles
  <2>2. CASE Terminate
    <3>1. stack' = Destruction(a)
      BY <1>1, <2>2 DEF Terminate, DropPane
    <3>2. S = {a} \ {NoPane}
      BY <1>1 DEF Held
    <3>. QED
      BY <1>2, <3>1, <3>2, DestructionApart
  <2>. QED
    BY <2>1, <2>2
<1>6. ASSUME NEW p \in Panes, NEW at \in OfAPane, Call(at, p) \in Elements(e)
      PROVE  at = "close_frame" /\ frame'[p] = "alive"
  <2>1. p # NoPane
    BY <1>2
  <2>2. at = "close_frame" /\ p \in S
    BY <1>5, <1>6, <2>1, CallsAreDistinct
  <2>. QED
    BY <1>2, <1>3, <2>2 DEF Accounted
<1>7. ReentryInv(T)'
  <2>1. \A p \in T, at \in Signals : Call(at, p) \notin Elements(e)
    BY <1>4, <1>6 DEF Signals, OfAPane
  <2>. QED
    BY <1>4, <1>5, <1>6, <2>1, ClientBegins
<1>. QED
  BY <1>1, <1>7 DEF ReentryInv

(* What runs drops the pane the sample holds or keeps it.                  *)
LEMMA SampleGoesOn ==
  ASSUME SampleAssumption, SampleInv, ReentryInv(Held), NEW T \in SUBSET Panes, Held' = T,
         stack # <<>>, NEW e \in Seq(Calls), AllApart(e), Continue(e),
         \A c \in Elements(e) : \/ \E q \in Held : c = Call("close_frame", q)
                                \/ c = Call("furnish", NoPane) /\ Subject = NoPane,
         Elements(e) = {} \/ Subject = NoPane \/ Head(stack).at \in Signals,
         (Elements(e) = {} /\ T = Held) \/ T \subseteq Unused,
         \A q \in Panes : /\ frame[q] = "alive" => frame'[q] = "alive"
                          /\ impl[q] = "alive" => impl'[q] = "alive"
  PROVE  ReentryInv(Held)'
<1>1. PICK S : S = Held
  OBVIOUS
<1>2. /\ NoPane \notin Panes /\ PanesInv /\ OwnedInv(S) /\ ReentryInv(S) /\ S \in SUBSET Panes
  BY <1>1 DEF SampleInv, StylesInv, Held, SampleAssumption
<1>3. PICK D \in SUBSET S : D = IF Elements(e) = {} THEN {} ELSE S
  OBVIOUS
<1>4. \A c \in Elements(e) : \/ \E q \in D : c = Call("close_frame", q)
                             \/ c = Call("furnish", NoPane) /\ Subject = NoPane
  BY <1>1, <1>3
<1>5. Subject \in D => Head(stack).at \in Signals
  BY <1>2, <1>3
<1>6. \A q \in T : window[q] = "none" \/ (q \in S \ D /\ (D = {} \/ Subject \in D))
  BY <1>1, <1>3 DEF Unused
<1>7. ReentryInv(T)'
  BY <1>2, <1>4, <1>5, <1>6, ClientReenters
<1>. QED
  BY <1>7 DEF ReentryInv

LEMMA SampleReenters ==
  ASSUME SampleAssumption, SampleInv, ReentryInv(Held) \/ Late, [Next]_vars
  PROVE  ReentryInv(Held)' \/ Late'
<1>1. PICK S, a, T : S = Held /\ a = active /\ T = Held'
  OBVIOUS
<1>2. /\ a \in Panes \union {NoPane} /\ NoPane \notin Panes /\ S = {a} \ {NoPane}
      /\ PanesInv /\ OwnedInv(S) /\ PanesTypeOK /\ stack \in Seq(Calls)
  BY <1>1 DEF SampleInv, StylesInv, PanesInv, Held, SampleAssumption
<1>3. CASE UNCHANGED <<stack, objects, client>>
  BY <1>3 DEF ReentryInv, AllApart, Waits, Pending, Elements, objects, client, Held, Late, Entry
<1>12. CASE Late
  <2>1. ASSUME Return, active' \in Panes \union {NoPane} PROVE ReentryInv(Held)'
    <3>1. stack' = <<>>
      BY <1>2, <1>12, <2>1, LateIsUnheard, NoElements, GoingOnAlone DEF Return
    <3>2. PICK U \in SUBSET Panes : U = Held'
      BY <2>1 DEF Held
    <3>3. ReentryInv(U)'
      BY <3>1, NothingBegun
    <3>. QED
      BY <3>2, <3>3 DEF ReentryInv
  <2>2. stack # <<>> /\ Head(stack).at = "notify" /\ ~advised[Subject]
    BY <1>2, <1>12, LateIsUnheard
  <2>3. CASE Unheard("notify") /\ UNCHANGED client
    BY <1>1, <1>2, <2>1, <2>3 DEF Unheard, client
  <2>4. CASE OnTheDestroyed /\ UNCHANGED client
    BY <1>3, <2>4 DEF OnTheDestroyed, Crash
  <2>. QED
    BY <1>3, <2>2, <2>3, <2>4
       DEF Next, User, Resume, ShowStyles, Terminate, UserCloses, NotifiesLate, CreatePane,
           Furnish, FurnishThrows, FurnishNothing, Notify, OnShow, Shell, CloseFrame, Unadvise,
           EndMembers, ClosePane, Idle, Running, vars, panes
<1>13. SUFFICES ASSUME ReentryInv(S) PROVE ReentryInv(Held)' \/ Late'
  BY <1>1, <1>12
<1>14. ReentryInv(Held)
  BY <1>1, <1>13
<1>4. ASSUME Return, stack # <<>>, UNCHANGED <<active, frame, impl>> PROVE ReentryInv(Held)'
  <2>1. Held' = S /\ S \in SUBSET Panes
    BY <1>1, <1>2, <1>4 DEF Held
  <2>. QED
    BY <1>1, <1>4, <1>14, <2>1, NoElements, SampleGoesOn DEF Return
<1>5. CASE Furnish \/ FurnishThrows
  BY <1>4, <1>5 DEF Furnish, FurnishThrows, Running, Shown, objects, client
<1>6. CASE OnShow("notify") /\ OnClose(Subject)
  <2>1. stack # <<>> /\ UNCHANGED <<frame, impl>> /\ Head(stack).at = "notify"
    BY <1>6 DEF OnShow, Running, objects
  <2>2. CASE Slot
    <3>1. Continue(Destruction(a)) /\ T = {} /\ T \in SUBSET Panes
      BY <1>1, <2>2 DEF Slot, Held
    <3>2. /\ AllApart(Destruction(a)) /\ Destruction(a) \in Seq(Calls)
          /\ \A c \in Elements(Destruction(a)) : \E q \in S : c = Call("close_frame", q)
      BY <1>2, DestructionApart
    <3>. QED
      BY <1>1, <1>14, <2>1, <3>1, <3>2, SampleGoesOn DEF Signals
  <2>3. CASE Return /\ UNCHANGED active
    BY <1>4, <2>1, <2>3
  <2>. QED
    BY <1>6, <2>2, <2>3 DEF OnClose
<1>7. CASE Unheard("notify") /\ UNCHANGED client
  BY <1>4, <1>7 DEF Unheard, Running, objects, client
<1>8. CASE CreatePane
  <2>1. PICK n \in Panes \union {NoPane} :
          /\ Continue(Destruction(a) \o Entry("furnish", NoPane))
          /\ active' = n
          /\ \/ n \in Unused /\ Create(n)
             \/ n = NoPane /\ UNCHANGED objects
    <3>1. CASE \E p \in Unused : Create(p) /\ AssignPane(p)
      BY <1>1, <3>1 DEF AssignPane, Unused
    <3>2. CASE AssignPane(NoPane) /\ UNCHANGED objects
      BY <1>1, <3>2 DEF AssignPane
    <3>. QED
      BY <1>8, <3>1, <3>2 DEF CreatePane
  <2>2. Running("create") /\ UNCHANGED crashed
    BY <1>8 DEF CreatePane
  <2>3. stack # <<>> /\ Subject = NoPane
    <3>1. stack # <<>> /\ Head(stack) \in Calls /\ Head(stack).at = "create"
      BY <1>2, <2>2, ElementsOfTail DEF Running
    <3>. QED
      BY <3>1 DEF Calls, PaneCalls, OfAPane, Subject
  <2>4. T \in SUBSET Panes /\ T \subseteq Unused
    BY <1>1, <1>2, <2>1 DEF Held
  <2>. DEFINE d == Destruction(a)
              f == Entry("furnish", NoPane)
  <2>5. /\ AllApart(d) /\ d \in Seq(Calls)
        /\ \A c \in Elements(d) : \E q \in S : c = Call("close_frame", q)
    BY <1>2, DestructionApart
  <2>6. AllApart(f) /\ f \in Seq(Calls) /\ Elements(f) = {Call("furnish", NoPane)}
    BY ElementsOfEntry, ApartEntry DEF Calls, Call
  <2>7. Continue(d \o f)
    BY <2>1
  <2>. HIDE DEF d, f
  <2>8. \A c \in Elements(d), g \in Elements(f) : Apart(c, g)
    <3>1. \A q \in S : Apart(Call("close_frame", q), Call("furnish", NoPane))
      BY <1>2 DEF Apart, Call
    <3>. QED
      BY <2>5, <2>6, <3>1
  <2>9. /\ d \o f \in Seq(Calls) /\ AllApart(d \o f)
        /\ \A c \in Elements(d \o f) : \/ \E q \in S : c = Call("close_frame", q)
                                       \/ c = Call("furnish", NoPane) /\ Subject = NoPane
    BY <2>3, <2>5, <2>6, <2>8, ElementsOfConcat, ApartConcat
  <2>10. \A q \in Panes : /\ frame[q] = "alive" => frame'[q] = "alive"
                          /\ impl[q] = "alive" => impl'[q] = "alive"
    <3>1. CASE n \in Unused /\ Create(n)
      BY <1>2, <2>2, <3>1, PaneMade
    <3>2. CASE UNCHANGED objects
      BY <3>2 DEF objects
    <3>. QED
      BY <2>1, <3>1, <3>2
  <2>. QED
    BY <1>1, <1>14, <2>3, <2>4, <2>7, <2>9, <2>10, SampleGoesOn
<1>9. ASSUME Shell \/ \E p \in Panes : UserCloses(p), UNCHANGED client PROVE ReentryInv(Held)'
  <2>1. S \in SUBSET Panes /\ Held' = S
    BY <1>1, <1>2, <1>9 DEF Held, client
  <2>2. ReentryInv(S)'
    BY <1>2, <1>9, <1>13, <2>1, ShellReenters, UserReenters
  <2>. QED
    BY <2>1, <2>2 DEF ReentryInv
<1>10. CASE FurnishNothing
  BY <1>3, <1>10 DEF FurnishNothing, Crash
<1>15. CASE \E p \in Panes : NotifiesLate(p) /\ UNCHANGED client
  <2>1. S \in SUBSET Panes /\ Held' = S
    BY <1>1, <1>2, <1>15 DEF Held, client
  <2>2. ReentryInv(S)' \/ Late'
    BY <1>2, <1>15, <2>1, LateReenters
  <2>. QED
    BY <2>1, <2>2 DEF ReentryInv
<1>11. CASE Resume
  BY <1>5, <1>6, <1>7, <1>8, <1>9, <1>10, <1>11 DEF Resume, Notify
<1>. QED
  BY <1>3, <1>9, <1>11, <1>15, SampleBegins DEF Next, User, vars, panes

LEMMA ReentryAlways == Spec => [](ReentryInv(Held) \/ Late)
<1>1. ASSUME Init PROVE ReentryInv(Held)
  BY <1>1, NoElements DEF Init, PanesInit, ReentryInv, Waits, Pending
<1>2. Init => ReentryInv(Held) \/ Late
  BY <1>1
<1>3. SampleInv /\ (ReentryInv(Held) \/ Late) /\ [Next]_vars => (ReentryInv(Held) \/ Late)'
  BY SampleAssumption, SampleReenters
<1>. QED
  BY <1>2, <1>3, SampleAlways, PTL DEF Spec

(* However often the command is run, whatever goes wrong, destructor,      *)
(* shell, signal and slot re-enter each other no deeper than the windows   *)
(* that are left allow.                                                    *)
THEOREM SampleDepthIsBounded == Spec => []BoundedReentry
<1>1. SampleInv /\ (ReentryInv(Held) \/ Late) => BoundedReentry
  BY SampleAssumption, FewCalls DEF SampleInv, SampleAssumption
<1>. QED
  BY <1>1, SampleAlways, ReentryAlways, PTL

(* As long as the shell makes its windows and the command runs only when   *)
(* it is enabled, however windows are closed and whenever the shell tells  *)
(* of it, no frame is destroyed twice, no call of the shell's reaches a    *)
(* frame or a pane_impl that is gone, and no pane is missing.              *)
THEOREM ClosingIsSafe ==
  ASSUME "refused" \notin Disturbances, "stale" \notin Disturbances
  PROVE  Spec => []NothingDangling
<1>1. Init => ReadyInv /\ ~crashed
  <2>1. ASSUME Init PROVE ReadyInv /\ ~crashed
    <3>1. Idle /\ ~crashed
      BY <2>1 DEF Init, PanesInit, Idle
    <3>. QED
      BY <3>1, NothingWaits DEF ReadyInv, Begun
  <2>. QED
    BY <2>1
<1>2. SampleInv /\ (ReentryInv(Held) \/ Late) => ~OnTheDestroyed
  BY NothingOfTheDestroyed DEF SampleInv
<1>3. SampleInv /\ ReadyInv /\ ~OnTheDestroyed /\ ~crashed /\ [Next]_vars => ReadyInv' /\ ~crashed'
  BY SampleAssumption, ReadyStep
<1>. QED
  BY <1>1, <1>2, <1>3, SampleAlways, ReentryAlways, PTL DEF Spec, NothingDangling

-----------------------------------------------------------------------------
(* What a package counts on: only the command begins to make a pane, and   *)
(* only where it has begun to does a window appear.                        *)

LEMMA BegunBefore ==
  ASSUME stack \in Seq(Calls), stack # <<>>,
         NEW e \in Seq(Calls), Elements(e) \subseteq PaneCalls, Continue(e)
  PROVE  Begun' => Begun
<1>1. Call("create", NoPane) \notin PaneCalls /\ Call("furnish", NoPane) \notin PaneCalls
  BY DEF Call, PaneCalls, OfAPane
<1>. QED
  BY <1>1, Continuing DEF Begun

LEMMA BegunByCommand ==
  ASSUME SampleAssumption, SampleInv,
         \/ Resume \/ Terminate
         \/ \E p \in Panes : (UserCloses(p) \/ NotifiesLate(p)) /\ UNCHANGED client
  PROVE  /\ Begun' => Begun
         /\ (Open' \subseteq Open /\ Unused \subseteq Unused') \/ Begun
<1>1. /\ PanesInv /\ PanesTypeOK /\ stack \in Seq(Calls) /\ NoPane \notin Panes
      /\ active \in Panes \union {NoPane}
  BY DEF SampleInv, PanesInv, StylesInv, SampleAssumption
<1>2. CASE Terminate
  <2>1. stack' = Destruction(active) /\ UNCHANGED window
    BY <1>2 DEF Terminate, DropPane, objects
  <2>2. \A at, q : Waits(at, q)' => at = "close_frame"
    BY <1>1, <2>1, ElementsOfDestruction, Beginning
  <2>. QED
    BY <2>1, <2>2 DEF Begun, Open, Unused
<1>3. ASSUME NEW p \in Panes, UserCloses(p) PROVE ~Begun' /\ Open' \subseteq Open /\ Unused \subseteq Unused'
  <2>1. PICK e \in Closings(p) : stack' = e
    BY <1>3 DEF UserCloses
  <2>2. \A at, q : Waits(at, q)' => at \in {"notify", "close_pane"}
    <3>1. e \in Seq(Calls) /\ Elements(e) = {Call("notify", p), Call("close_pane", p)}
      BY ElementsOfClosing
    <3>. QED
      BY <2>1, <3>1, Beginning, CallsAreDistinct
  <2>3. window' = [window EXCEPT ![p] = "closing"]
    BY <1>3 DEF UserCloses, BeginClosing
  <2>. QED
    BY <1>1, <1>3, <2>2, <2>3 DEF Begun, Open, Unused, PanesTypeOK, UserCloses
<1>4. CASE CreatePane \/ Furnish \/ FurnishThrows
  BY <1>1, <1>4, RunningClient DEF CreatePane, Furnish, FurnishThrows, Begun
<1>8. ASSUME NEW p \in Panes, NotifiesLate(p) PROVE ~Begun' /\ Open' \subseteq Open /\ Unused \subseteq Unused'
  <2>1. Elements(stack') = {Call("notify", p)} /\ UNCHANGED window
    BY <1>1, <1>8, NotifiesLateKeeps DEF SampleInv, NotifiesLate, objects
  <2>2. Pending' = {Call("notify", p)}
    BY <2>1 DEF Pending, Elements
  <2>. QED
    BY <2>1, <2>2, CallsAreDistinct DEF Begun, Waits, Open, Unused, Call
<1>5. CASE FurnishNothing
  <2>1. UNCHANGED <<stack, window>>
    BY <1>5 DEF FurnishNothing, Crash, objects
  <2>. QED
    BY <2>1 DEF Begun, Waits, Pending, Elements, Call, Open, Unused
<1>6. CASE (OnShow("notify") /\ OnClose(Subject)) \/ Unheard("notify")
  <2>1. stack # <<>> /\ UNCHANGED window
    BY <1>6 DEF OnShow, Unheard, Running, objects
  <2>2. Continue(<<>>) \/ Continue(Destruction(active))
    BY <1>6 DEF OnClose, Slot, Unheard, Return
  <2>3. PICK e \in Seq(Calls) : Elements(e) \subseteq PaneCalls /\ Continue(e)
    <3>1. CASE Continue(<<>>)
      BY <3>1, NoElements
    <3>2. CASE Continue(Destruction(active))
      BY <1>1, <3>2, ElementsOfDestruction
    <3>. QED
      BY <2>2, <3>1, <3>2
  <2>. QED
    BY <1>1, <2>1, <2>3, BegunBefore DEF Open, Unused
<1>7. CASE Shell
  <2>1. PICK S : S = Held
    OBVIOUS
  <2>2. GoesOnWithin /\ \A p \in Panes : SeenOf(p, S)
    BY <1>1, <1>7, <2>1, ShellSeen DEF SampleInv
  <2>3. Open' \subseteq Open /\ Unused \subseteq Unused'
    BY <2>2 DEF SeenOf, Open, Unused
  <2>4. CASE UNCHANGED <<stack, window>>
    BY <2>4 DEF Begun, Waits, Pending, Elements, Call, Open, Unused
  <2>. QED
    BY <1>1, <2>2, <2>3, <2>4, BegunBefore DEF GoesOnWithin
<1>. QED
  BY <1>2, <1>3, <1>4, <1>5, <1>6, <1>7, <1>8 DEF Resume, Notify

(* What is gone stays so, whatever the shell still has to tell of it.      *)
LEMMA GoneForGood ==
  ASSUME SampleInv, ~Begun, \A p \in Panes : Gone(p),
         \/ Resume
         \/ \E p \in Panes : (UserCloses(p) \/ NotifiesLate(p)) /\ UNCHANGED client
  PROVE  \A p \in Panes : Gone(p)'
<1>1. stack \in Seq(Calls)
  BY DEF SampleInv, PanesInv
<1>2. UNCHANGED objects => \A p \in Panes : Gone(p)'
  BY DEF objects, Gone, Open
<1>3. ~ (CreatePane \/ Furnish \/ FurnishThrows \/ FurnishNothing)
  BY <1>1, RunningClient DEF CreatePane, Furnish, FurnishThrows, FurnishNothing, Begun
<1>4. ASSUME NEW at \in OfAPane, Running(at) PROVE Subject \in Panes
  <2>1. stack # <<>> /\ Head(stack) \in Calls /\ Head(stack).at = at
    BY <1>1, <1>4 DEF Running
  <2>. QED
    BY <2>1 DEF Calls, PaneCalls, OfAPane, Subject
<1>5. ASSUME NEW p \in Panes PROVE ~UserCloses(p)
  BY DEF UserCloses, Gone, Open
<1>6. ASSUME NEW p \in Panes, NotifiesLate(p) PROVE UNCHANGED objects
  BY <1>6 DEF NotifiesLate
<1>7. CASE Notify
  BY <1>2, <1>7 DEF Notify, OnShow, Unheard
<1>8. CASE Shell
  <2>1. ~ (CloseFrame \/ Unadvise \/ EndMembers \/ ClosePane)
    <3>1. SUFFICES ASSUME CloseFrame \/ Unadvise \/ EndMembers \/ ClosePane PROVE FALSE
      OBVIOUS
    <3>2. Subject \in Panes
      BY <1>4, <3>1 DEF CloseFrame, Unadvise, EndMembers, ClosePane, OfAPane
    <3>. QED
      BY <3>1, <3>2 DEF CloseFrame, Unadvise, EndMembers, ClosePane, Stands, Running, Gone
  <2>. QED
    BY <1>2, <1>8, <2>1 DEF Shell, OnTheDestroyed, Crash
<1>. QED
  BY <1>2, <1>3, <1>5, <1>6, <1>7, <1>8 DEF Resume

==============================================================================
