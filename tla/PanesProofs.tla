----------------------------- MODULE PanesProofs -----------------------------
(***************************************************************************)
(* What Panes preserves whoever the client is: an inductive invariant of   *)
(* the windows and the calls under way, and one that relates them to the   *)
(* panes a client has pointers to, for any number of panes and any depth   *)
(* of re-entered calls.                                                    *)
(***************************************************************************)
EXTENDS Panes, FiniteSetTheorems, TLAPS

Call(at, p) == [at |-> at, pane |-> p]
Elements(s) == {s[i] : i \in DOMAIN s}

PaneCalls == [at : OfAPane, pane : Panes]
Calls == [at : {"create", "furnish"}, pane : {NoPane}] \union PaneCalls

(* The calls that have still to be made, in whatever order and number.     *)
Pending == Elements(stack)
Waits(at, p) == Call(at, p) \in Pending

(* A window, its pane_impl and its frame come and go together, and one     *)
(* that is closing has the call that finishes it under way.                *)
InStep(p) ==
  /\ advised[p] => frame[p] = "alive"
  /\ Waits("members", p) => ~advised[p]
  /\ view[p] => impl[p] = "alive"
  /\ impl[p] = "alive" <=> window[p] \in {"hidden", "shown", "closing"}
  /\ frame[p] = "none" <=> window[p] = "none"
  /\ window[p] = "closing" => Waits("close_pane", p)
  /\ Waits("close_pane", p) => window[p] \in {"closing", "closed"}
  /\ \A at \in OfAPane : Waits(at, p) => window[p] # "none"

PanesInv ==
  /\ PanesTypeOK /\ stack \in Seq(Calls)
  /\ \A p \in Panes : InStep(p)

(* A frame is destroyed by whoever drops the last pointer to it, and only  *)
(* then: a pane without an owner has its destructor under way.             *)
Accounted(p, owned) ==
  /\ p \in owned => /\ frame[p] = "alive"
                    /\ \A at \in OfAFrame : ~Waits(at, p)
  /\ p \notin owned =>
       /\ frame[p] = "alive" => \E at \in OfAFrame : Waits(at, p)
       /\ p \in Open => Waits("close_frame", p)

OwnedInv(owned) == \A p \in Panes : Accounted(p, owned)

-----------------------------------------------------------------------------
(* The depth of re-entered calls.                                          *)

(* A pane has one call under way that destroys its frame, one that closes  *)
(* its window, and one signal; the client one of its own.                  *)
Part(at) ==
  IF at \in OfAFrame THEN "destroys" ELSE IF at \in Signals THEN "signals"
  ELSE IF at = "close_pane" THEN "closes" ELSE "client"

(* The call c, made from within d, has another part in the pane's end, and *)
(* a frame is not destroyed before its signal has been raised.             *)
Apart(c, d) ==
  c.pane = d.pane => /\ Part(c.at) # Part(d.at)
                     /\ ~(c.at \in OfAFrame /\ d.at \in Signals)

AllApart(s) == \A i, j \in DOMAIN s : i < j => Apart(s[i], s[j])

(* What a call is about is there still, and a pane that has an owner has   *)
(* its signal raised when nothing else goes on.                            *)
ReentryInv(owned) ==
  /\ AllApart(stack)
  /\ \A p \in Panes : /\ \A at \in OfAFrame \union Signals : Waits(at, p) => frame[p] = "alive"
                      /\ Waits("close_pane", p) => impl[p] = "alive"
  /\ \A p \in owned, at \in Signals : Waits(at, p) => \A c \in Pending : c.pane = p

(* The shell is late with a notification, to a frame that is gone.         *)
Late == \E p \in Panes : stack = Entry("notify", p) /\ frame[p] # "alive"

-----------------------------------------------------------------------------
(* Lemmas about stacks of calls.                                           *)

LEMMA NoElements == <<>> \in Seq(Calls) /\ Elements(<<>>) = {} /\ AllApart(<<>>)
BY DEF Elements, AllApart

LEMMA ElementsOfConcat ==
  ASSUME NEW s \in Seq(Calls), NEW t \in Seq(Calls)
  PROVE  /\ s \o t \in Seq(Calls)
         /\ Elements(s \o t) = Elements(s) \union Elements(t)
<1>. DEFINE u == s \o t
<1>1. u \in Seq(Calls) /\ Len(u) = Len(s) + Len(t)
  OBVIOUS
<1>2. \A i \in DOMAIN s : i \in DOMAIN u /\ u[i] = s[i]
  OBVIOUS
<1>3. \A i \in DOMAIN t : Len(s) + i \in DOMAIN u /\ u[Len(s) + i] = t[i]
  OBVIOUS
<1>4. \A i \in DOMAIN u : i \in DOMAIN s \/ (i - Len(s) \in DOMAIN t /\ u[i] = t[i - Len(s)])
  OBVIOUS
<1>. HIDE DEF u
<1>5. \A c : c \in Elements(u) <=> c \in Elements(s) \/ c \in Elements(t)
  <2>1. ASSUME NEW i \in DOMAIN u PROVE u[i] \in Elements(s) \/ u[i] \in Elements(t)
    BY <1>2, <1>4 DEF Elements
  <2>2. ASSUME NEW i \in DOMAIN s PROVE s[i] \in Elements(u)
    BY <1>2 DEF Elements
  <2>3. ASSUME NEW i \in DOMAIN t PROVE t[i] \in Elements(u)
    BY <1>3 DEF Elements
  <2>. QED
    BY <2>1, <2>2, <2>3 DEF Elements
<1>6. Elements(u) = Elements(s) \union Elements(t)
  BY <1>5
<1>. QED
  BY <1>1, <1>6 DEF u

LEMMA ElementsOfTail ==
  ASSUME NEW s \in Seq(Calls), s # <<>>
  PROVE  /\ Head(s) \in Calls /\ Tail(s) \in Seq(Calls)
         /\ Elements(s) = {Head(s)} \union Elements(Tail(s))
<1>. DEFINE t == Tail(s)
<1>1. /\ Head(s) \in Calls /\ t \in Seq(Calls) /\ Len(s) = Len(t) + 1
      /\ Head(s) = s[1] /\ 1 \in DOMAIN s
  OBVIOUS
<1>2. \A i \in DOMAIN t : i + 1 \in DOMAIN s /\ s[i + 1] = t[i]
  OBVIOUS
<1>3. \A i \in DOMAIN s : i = 1 \/ (i - 1 \in DOMAIN t /\ s[i] = t[i - 1])
  OBVIOUS
<1>. HIDE DEF t
<1>4. \A c : c \in Elements(s) <=> c = Head(s) \/ c \in Elements(t)
  <2>1. ASSUME NEW i \in DOMAIN s PROVE s[i] = Head(s) \/ s[i] \in Elements(t)
    BY <1>1, <1>3 DEF Elements
  <2>2. ASSUME NEW i \in DOMAIN t PROVE t[i] \in Elements(s)
    BY <1>2 DEF Elements
  <2>3. Head(s) \in Elements(s)
    BY <1>1 DEF Elements
  <2>. QED
    BY <2>1, <2>2, <2>3 DEF Elements
<1>5. Elements(s) = {Head(s)} \union Elements(t)
  BY <1>4
<1>. QED
  BY <1>1, <1>5 DEF t

LEMMA ElementsOfEntry ==
  ASSUME NEW at, NEW p, Call(at, p) \in Calls
  PROVE  /\ Entry(at, p) \in Seq(Calls)
         /\ Elements(Entry(at, p)) = {Call(at, p)}
<1>. DEFINE c == Call(at, p)
<1>1. Entry(at, p) = <<c>>
  BY DEF Entry, Call
<1>2. <<c>> \in Seq(Calls) /\ DOMAIN <<c>> = {1} /\ <<c>>[1] = c
  OBVIOUS
<1>3. Elements(<<c>>) = {c}
  BY <1>2 DEF Elements
<1>. QED
  BY <1>1, <1>2, <1>3

LEMMA CallsAreDistinct ==
  ASSUME NEW at, NEW p, NEW bt, NEW q, Call(at, p) = Call(bt, q)
  PROVE  at = bt /\ p = q
<1>1. Call(at, p).at = at /\ Call(bt, q).at = bt
  BY DEF Call
<1>2. Call(at, p).pane = p /\ Call(bt, q).pane = q
  BY DEF Call
<1>. QED
  BY <1>1, <1>2

LEMMA CallsOfPanes ==
  \A at \in OfAPane, p \in Panes : Call(at, p) \in Calls
BY DEF Call, Calls, PaneCalls

LEMMA ApartConcat ==
  ASSUME NEW s \in Seq(Calls), NEW t \in Seq(Calls), AllApart(s), AllApart(t),
         \A c \in Elements(s), d \in Elements(t) : Apart(c, d)
  PROVE  AllApart(s \o t)
<1>. DEFINE u == s \o t
<1>1. /\ Len(s) \in Nat /\ Len(t) \in Nat
      /\ DOMAIN s = 1 .. Len(s) /\ DOMAIN t = 1 .. Len(t) /\ DOMAIN u = 1 .. Len(s) + Len(t)
  OBVIOUS
<1>2. \A i \in DOMAIN u : i \in DOMAIN s => u[i] = s[i]
  OBVIOUS
<1>3. \A i \in DOMAIN u : i \notin DOMAIN s => i - Len(s) \in DOMAIN t /\ u[i] = t[i - Len(s)]
  OBVIOUS
<1>. HIDE DEF u
<1>4. ASSUME NEW i \in DOMAIN u, NEW j \in DOMAIN u, i < j
      PROVE  Apart(u[i], u[j])
  <2>1. CASE i \in DOMAIN s /\ j \in DOMAIN s
    BY <1>2, <1>4, <2>1 DEF AllApart
  <2>2. CASE i \in DOMAIN s /\ j \notin DOMAIN s
    <3>1. u[i] \in Elements(s) /\ u[j] \in Elements(t)
      BY <1>2, <1>3, <2>2 DEF Elements
    <3>. QED
      BY <3>1
  <2>3. CASE i \notin DOMAIN s
    <3>1. j \notin DOMAIN s
      BY <1>1, <1>4, <2>3
    <3>2. i - Len(s) < j - Len(s)
      BY <1>1, <1>4
    <3>. QED
      BY <1>3, <2>3, <3>1, <3>2 DEF AllApart
  <2>. QED
    BY <2>1, <2>2, <2>3
<1>5. AllApart(u)
  BY <1>4 DEF AllApart
<1>. QED
  BY <1>5 DEF u

LEMMA ApartEntry ==
  ASSUME NEW at, NEW p
  PROVE  AllApart(Entry(at, p))
<1>1. DOMAIN Entry(at, p) = {1}
  BY DEF Entry
<1>. QED
  BY <1>1 DEF AllApart

LEMMA ApartTail ==
  ASSUME NEW s \in Seq(Calls), s # <<>>, AllApart(s)
  PROVE  AllApart(Tail(s)) /\ \A d \in Elements(Tail(s)) : Apart(Head(s), d)
<1>. DEFINE t == Tail(s)
<1>1. Head(s) = s[1] /\ 1 \in DOMAIN s /\ DOMAIN t = 1 .. Len(t) /\ Len(t) \in Nat
  OBVIOUS
<1>2. \A i \in DOMAIN t : i + 1 \in DOMAIN s /\ t[i] = s[i + 1]
  OBVIOUS
<1>. HIDE DEF t
<1>3. AllApart(t)
  BY <1>1, <1>2 DEF AllApart
<1>4. ASSUME NEW i \in DOMAIN t PROVE Apart(Head(s), t[i])
  BY <1>1, <1>2 DEF AllApart
<1>. QED
  BY <1>3, <1>4 DEF t, Elements

-----------------------------------------------------------------------------
(* Steps of the innermost call.                                            *)

LEMMA RunningCall ==
  ASSUME stack \in Seq(Calls), NEW at \in OfAPane, Running(at)
  PROVE  stack # <<>> /\ Subject \in Panes /\ Head(stack) = Call(at, Subject)
         /\ Waits(at, Subject)
<1>1. stack # <<>> /\ Head(stack).at = at
  BY DEF Running
<1>2. Head(stack) \in Calls /\ Head(stack) \in Pending
  BY <1>1, ElementsOfTail DEF Pending
<1>3. at \notin {"create", "furnish"}
  BY DEF OfAPane
<1>4. Head(stack) \in PaneCalls
  BY <1>1, <1>2, <1>3 DEF Calls
<1>5. Subject \in Panes /\ Head(stack) = Call(at, Subject)
  BY <1>1, <1>4 DEF PaneCalls, Subject, Call
<1>. QED
  BY <1>1, <1>2, <1>5 DEF Waits

(* What waits when the innermost call goes on with the entries e.          *)
LEMMA Continuing ==
  ASSUME stack \in Seq(Calls), stack # <<>>, NEW e \in Seq(Calls), Continue(e)
  PROVE  /\ stack' \in Seq(Calls)
         /\ \A at, p : /\ Waits(at, p)' => Waits(at, p) \/ Call(at, p) \in Elements(e)
                       /\ Call(at, p) \in Elements(e) => Waits(at, p)'
                       /\ Waits(at, p) /\ Call(at, p) # Head(stack) => Waits(at, p)'
<1>1. stack' = e \o Tail(stack)
  BY DEF Continue
<1>2. Tail(stack) \in Seq(Calls) /\ Pending = {Head(stack)} \union Elements(Tail(stack))
  BY ElementsOfTail DEF Pending
<1>3. stack' \in Seq(Calls) /\ Elements(stack') = Elements(e) \union Elements(Tail(stack))
  BY <1>1, <1>2, ElementsOfConcat
<1>4. Pending' = Elements(e) \union Elements(Tail(stack))
  BY <1>3 DEF Pending, Elements
<1>. QED
  BY <1>2, <1>3, <1>4 DEF Waits, Call

LEMMA UnadviseKeeps ==
  ASSUME PanesInv, NEW S, OwnedInv(S), Unadvise
  PROVE  PanesInv' /\ OwnedInv(S)'
<1>1. /\ stack \in Seq(Calls) /\ PanesTypeOK
      /\ \A q \in Panes : InStep(q) /\ Accounted(q, S)
  BY DEF PanesInv, OwnedInv
<1>2. PICK p \in Panes : /\ stack # <<>> /\ Subject = p
                         /\ Head(stack) = Call("unadvise", p) /\ Waits("unadvise", p)
  BY <1>1, RunningCall DEF Unadvise, OfAPane
<1>. DEFINE e == Entry("members", p)
<1>3. e \in Seq(Calls) /\ Elements(e) = {Call("members", p)} /\ Continue(e)
  BY <1>2, CallsOfPanes, ElementsOfEntry DEF Unadvise, OfAPane
<1>. HIDE DEF e
<1>4. /\ stack' \in Seq(Calls) /\ Waits("members", p)'
      /\ \A at, q : /\ Waits(at, q)' => Waits(at, q) \/ (at = "members" /\ q = p)
                    /\ Waits(at, q) /\ (at # "unadvise" \/ q # p) => Waits(at, q)'
  <2>1. /\ stack' \in Seq(Calls)
        /\ \A at, q : /\ Waits(at, q)' => Waits(at, q) \/ Call(at, q) \in Elements(e)
                      /\ Call(at, q) \in Elements(e) => Waits(at, q)'
                      /\ Waits(at, q) /\ Call(at, q) # Head(stack) => Waits(at, q)'
    BY <1>1, <1>2, <1>3, Continuing
  <2>. QED
    BY <1>2, <1>3, <2>1, CallsAreDistinct
<1>5. /\ advised' = [advised EXCEPT ![p] = FALSE]
      /\ UNCHANGED <<window, view, impl, frame, crashed>>
  BY <1>2 DEF Unadvise, Unadvised
<1>6. PanesTypeOK'
  BY <1>1, <1>5 DEF PanesTypeOK
<1>7. ASSUME NEW q \in Panes PROVE InStep(q)' /\ Accounted(q, S)'
  <2>1. /\ InStep(q) /\ Accounted(q, S) /\ InStep(p) /\ Accounted(p, S)
    BY <1>1
  <2>2. CASE q = p
    BY <1>1, <1>2, <1>4, <1>5, <2>1, <2>2
       DEF InStep, Accounted, Open, PanesTypeOK, OfAPane, OfAFrame, Signals
  <2>3. CASE q # p
    BY <1>1, <1>2, <1>4, <1>5, <2>1, <2>3
       DEF InStep, Accounted, Open, PanesTypeOK, OfAPane, OfAFrame, Signals
  <2>. QED
    BY <2>2, <2>3
<1>. QED
  BY <1>4, <1>6, <1>7 DEF PanesInv, OwnedInv

LEMMA EndMembersKeeps ==
  ASSUME PanesInv, NEW S, OwnedInv(S), EndMembers
  PROVE  PanesInv' /\ OwnedInv(S)'
<1>1. /\ stack \in Seq(Calls) /\ PanesTypeOK
      /\ \A q \in Panes : InStep(q) /\ Accounted(q, S)
  BY DEF PanesInv, OwnedInv
<1>2. PICK p \in Panes : /\ stack # <<>> /\ Subject = p
                         /\ Head(stack) = Call("members", p) /\ Waits("members", p)
  BY <1>1, RunningCall DEF EndMembers, OfAPane
<1>3. /\ stack' \in Seq(Calls)
      /\ \A at, q : /\ Waits(at, q)' => Waits(at, q)
                    /\ Waits(at, q) /\ (at # "members" \/ q # p) => Waits(at, q)'
  <2>1. /\ stack' \in Seq(Calls)
        /\ \A at, q : /\ Waits(at, q)' => Waits(at, q) \/ Call(at, q) \in Elements(<<>>)
                      /\ Waits(at, q) /\ Call(at, q) # Head(stack) => Waits(at, q)'
    BY <1>1, <1>2, NoElements, Continuing DEF EndMembers, Return
  <2>. QED
    BY <1>2, <2>1, NoElements, CallsAreDistinct
<1>4. /\ frame' = [frame EXCEPT ![p] = "destroyed"]
      /\ UNCHANGED <<window, view, impl, advised, crashed>>
  BY <1>2 DEF EndMembers
<1>5. PanesTypeOK'
  BY <1>1, <1>4 DEF PanesTypeOK
<1>6. ASSUME NEW q \in Panes PROVE InStep(q)' /\ Accounted(q, S)'
  <2>1. /\ InStep(q) /\ Accounted(q, S) /\ InStep(p) /\ Accounted(p, S)
    BY <1>1
  <2>2. CASE q = p
    BY <1>1, <1>2, <1>3, <1>4, <2>1, <2>2 DEF InStep, Accounted, Open, PanesTypeOK, OfAPane, OfAFrame
  <2>3. CASE q # p
    BY <1>1, <1>2, <1>3, <1>4, <2>1, <2>3 DEF InStep, Accounted, Open, PanesTypeOK, OfAPane, OfAFrame
  <2>. QED
    BY <2>2, <2>3
<1>. QED
  BY <1>3, <1>5, <1>6 DEF PanesInv, OwnedInv

LEMMA ClosePaneKeeps ==
  ASSUME PanesInv, NEW S, OwnedInv(S), ClosePane
  PROVE  PanesInv' /\ OwnedInv(S)'
<1>1. /\ stack \in Seq(Calls) /\ PanesTypeOK
      /\ \A q \in Panes : InStep(q) /\ Accounted(q, S)
  BY DEF PanesInv, OwnedInv
<1>2. PICK p \in Panes : /\ stack # <<>> /\ Subject = p
                         /\ Head(stack) = Call("close_pane", p) /\ Waits("close_pane", p)
  BY <1>1, RunningCall DEF ClosePane, OfAPane
<1>3. /\ stack' \in Seq(Calls)
      /\ \A at, q : /\ Waits(at, q)' => Waits(at, q)
                    /\ Waits(at, q) /\ (at # "close_pane" \/ q # p) => Waits(at, q)'
  <2>1. /\ stack' \in Seq(Calls)
        /\ \A at, q : /\ Waits(at, q)' => Waits(at, q) \/ Call(at, q) \in Elements(<<>>)
                      /\ Waits(at, q) /\ Call(at, q) # Head(stack) => Waits(at, q)'
    BY <1>1, <1>2, NoElements, Continuing DEF ClosePane, Return
  <2>. QED
    BY <1>2, <2>1, NoElements, CallsAreDistinct
<1>4. /\ window' = [window EXCEPT ![p] = "closed"]
      /\ view' = [view EXCEPT ![p] = FALSE]
      /\ impl' = [impl EXCEPT ![p] = "destroyed"]
      /\ UNCHANGED <<frame, advised, crashed>>
  BY <1>2 DEF ClosePane
<1>5. PanesTypeOK'
  BY <1>1, <1>4 DEF PanesTypeOK
<1>6. ASSUME NEW q \in Panes PROVE InStep(q)' /\ Accounted(q, S)'
  <2>1. /\ InStep(q) /\ Accounted(q, S) /\ InStep(p) /\ Accounted(p, S)
    BY <1>1
  <2>2. CASE q = p
    BY <1>1, <1>2, <1>3, <1>4, <2>1, <2>2 DEF InStep, Accounted, Open, PanesTypeOK, OfAPane, OfAFrame
  <2>3. CASE q # p
    BY <1>1, <1>2, <1>3, <1>4, <2>1, <2>3 DEF InStep, Accounted, Open, PanesTypeOK, OfAPane, OfAFrame
  <2>. QED
    BY <2>2, <2>3
<1>. QED
  BY <1>3, <1>5, <1>6 DEF PanesInv, OwnedInv

(* What the shell does when it closes a window: two calls, in either order.*)
LEMMA ElementsOfClosing ==
  ASSUME NEW p \in Panes, NEW s \in Closings(p)
  PROVE  s \in Seq(Calls) /\ Elements(s) = {Call("notify", p), Call("close_pane", p)}
<1>1. /\ Entry("notify", p) \in Seq(Calls) /\ Entry("close_pane", p) \in Seq(Calls)
      /\ Elements(Entry("notify", p)) = {Call("notify", p)}
      /\ Elements(Entry("close_pane", p)) = {Call("close_pane", p)}
  BY CallsOfPanes, ElementsOfEntry DEF OfAPane
<1>2. CASE s = Entry("notify", p) \o Entry("close_pane", p)
  <2>1. /\ s \in Seq(Calls)
        /\ Elements(s) = Elements(Entry("notify", p)) \union Elements(Entry("close_pane", p))
    BY <1>1, <1>2, ElementsOfConcat
  <2>. QED
    BY <1>1, <2>1
<1>3. CASE s = Entry("close_pane", p) \o Entry("notify", p)
  <2>1. /\ s \in Seq(Calls)
        /\ Elements(s) = Elements(Entry("close_pane", p)) \union Elements(Entry("notify", p))
    BY <1>1, <1>3, ElementsOfConcat
  <2>. QED
    BY <1>1, <2>1
<1>. QED
  BY <1>2, <1>3 DEF Closings

(* What ~frame goes on with: the shell closes a window that is open first. *)
LEMMA CloseFrameGoesOn ==
  ASSUME stack \in Seq(Calls), CloseFrame
  PROVE  \E p \in Panes, e \in Seq(Calls) :
           /\ stack # <<>> /\ Head(stack) = Call("close_frame", p) /\ Waits("close_frame", p)
           /\ Continue(e) /\ AllApart(e)
           /\ \/ /\ p \in Open /\ BeginClosing(p)
                 /\ Elements(e) = {Call("notify", p), Call("close_pane", p), Call("unadvise", p)}
              \/ /\ p \notin Open /\ UNCHANGED <<objects, crashed>>
                 /\ Call("unadvise", p) \in Elements(e)
                 /\ Elements(e) \subseteq {Call("notify", p), Call("unadvise", p)}
<1>1. PICK p \in Panes : /\ stack # <<>> /\ Subject = p
                         /\ Head(stack) = Call("close_frame", p) /\ Waits("close_frame", p)
  BY RunningCall DEF CloseFrame, OfAPane
<1>. DEFINE n == Entry("notify", p)
            c == Entry("close_pane", p)
            u == Entry("unadvise", p)
<1>2. /\ n \in Seq(Calls) /\ c \in Seq(Calls) /\ u \in Seq(Calls)
      /\ Elements(n) = {Call("notify", p)} /\ Elements(c) = {Call("close_pane", p)}
      /\ Elements(u) = {Call("unadvise", p)}
      /\ AllApart(n) /\ AllApart(c) /\ AllApart(u)
  BY CallsOfPanes, ElementsOfEntry, ApartEntry DEF OfAPane
<1>3. /\ Apart(Call("notify", p), Call("close_pane", p))
      /\ Apart(Call("close_pane", p), Call("notify", p))
      /\ Apart(Call("notify", p), Call("unadvise", p))
      /\ Apart(Call("close_pane", p), Call("unadvise", p))
  BY DEF Apart, Part, Call, OfAFrame, Signals
<1>4. CASE p \in Open /\ BeginClosing(p) /\ \E s \in Closings(p) : Continue(s \o u)
  <2>1. PICK s \in Closings(p) : Continue(s \o u)
    BY <1>4
  <2>2. s = n \o c \/ s = c \o n
    BY DEF Closings
  <2>. HIDE DEF n, c, u
  <2>3. /\ s \in Seq(Calls) /\ Elements(s) = {Call("notify", p), Call("close_pane", p)}
        /\ AllApart(s)
    <3>1. CASE s = n \o c
      <4>1. s \in Seq(Calls) /\ Elements(s) = Elements(n) \union Elements(c)
        BY <1>2, <3>1, ElementsOfConcat
      <4>2. AllApart(s)
        BY <1>2, <1>3, <3>1, ApartConcat
      <4>. QED
        BY <1>2, <4>1, <4>2
    <3>2. CASE s = c \o n
      <4>1. s \in Seq(Calls) /\ Elements(s) = Elements(c) \union Elements(n)
        BY <1>2, <3>2, ElementsOfConcat
      <4>2. AllApart(s)
        BY <1>2, <1>3, <3>2, ApartConcat
      <4>. QED
        BY <1>2, <4>1, <4>2
    <3>. QED
      BY <2>2, <3>1, <3>2
  <2>4. s \o u \in Seq(Calls) /\ Elements(s \o u) = Elements(s) \union Elements(u)
    BY <1>2, <2>3, ElementsOfConcat
  <2>5. AllApart(s \o u)
    BY <1>2, <1>3, <2>3, ApartConcat
  <2>6. Elements(s \o u) = {Call("notify", p), Call("close_pane", p), Call("unadvise", p)}
    BY <1>2, <2>3, <2>4
  <2>. QED
    BY <1>1, <1>4, <2>1, <2>4, <2>5, <2>6
<1>5. CASE /\ LeftAlone(p) /\ UNCHANGED <<objects, crashed>>
           /\ Continue(u) \/ Continue(n \o u)
  <2>. HIDE DEF n, c, u
  <2>1. p \notin Open
    BY <1>5 DEF LeftAlone
  <2>2. CASE Continue(u)
    BY <1>1, <1>2, <1>5, <2>1, <2>2
  <2>3. CASE Continue(n \o u)
    <3>1. n \o u \in Seq(Calls) /\ Elements(n \o u) = {Call("notify", p), Call("unadvise", p)}
      BY <1>2, ElementsOfConcat
    <3>2. AllApart(n \o u)
      BY <1>2, <1>3, ApartConcat
    <3>. QED
      BY <1>1, <1>5, <2>1, <2>3, <3>1, <3>2
  <2>. QED
    BY <1>5, <2>2, <2>3
<1>. QED
  BY <1>1, <1>4, <1>5 DEF CloseFrame

LEMMA CloseFrameKeeps ==
  ASSUME PanesInv, NEW S, OwnedInv(S), CloseFrame
  PROVE  PanesInv' /\ OwnedInv(S)'
<1>1. /\ stack \in Seq(Calls) /\ PanesTypeOK
      /\ \A q \in Panes : InStep(q) /\ Accounted(q, S)
  BY DEF PanesInv, OwnedInv
<1>2. PICK p \in Panes, e \in Seq(Calls) :
        /\ stack # <<>> /\ Head(stack) = Call("close_frame", p) /\ Waits("close_frame", p)
        /\ Continue(e) /\ Call("unadvise", p) \in Elements(e)
        /\ Elements(e) \subseteq {Call("notify", p), Call("close_pane", p), Call("unadvise", p)}
        /\ \/ p \in Open /\ BeginClosing(p) /\ Call("close_pane", p) \in Elements(e)
           \/ /\ p \notin Open /\ UNCHANGED <<objects, crashed>>
              /\ Elements(e) \subseteq {Call("notify", p), Call("unadvise", p)}
  BY <1>1, CloseFrameGoesOn
<1>3. p \notin S
  BY <1>1, <1>2 DEF Accounted, OfAFrame
<1>4. /\ stack' \in Seq(Calls)
      /\ \A at, q : /\ Waits(at, q)' => Waits(at, q) \/ Call(at, q) \in Elements(e)
                    /\ Waits(at, q) /\ (at # "close_frame" \/ q # p) => Waits(at, q)'
      /\ \A at, q : Call(at, q) \in Elements(e) => Waits(at, q)'
  BY <1>1, <1>2, Continuing, CallsAreDistinct
<1>5. CASE p \in Open /\ BeginClosing(p) /\ Call("close_pane", p) \in Elements(e)
  <2>1. /\ window' = [window EXCEPT ![p] = "closing"]
        /\ UNCHANGED <<view, impl, frame, advised, crashed>>
    BY <1>5 DEF BeginClosing
  <2>2. PanesTypeOK'
    BY <1>1, <2>1 DEF PanesTypeOK
  <2>3. /\ Waits("close_pane", p)' /\ Waits("unadvise", p)'
        /\ \A at, q : Waits(at, q)' => Waits(at, q) \/ (q = p /\ at \in {"notify", "close_pane", "unadvise"})
    BY <1>2, <1>4, <1>5, CallsAreDistinct
  <2>4. ASSUME NEW q \in Panes PROVE InStep(q)' /\ Accounted(q, S)'
    <3>1. /\ InStep(q) /\ Accounted(q, S) /\ InStep(p) /\ Accounted(p, S)
      BY <1>1
    <3>2. CASE q = p
      BY <1>1, <1>2, <1>3, <1>4, <1>5, <2>1, <2>3, <3>1, <3>2
         DEF InStep, Accounted, Open, PanesTypeOK, OfAPane, OfAFrame
    <3>3. CASE q # p
      BY <1>1, <1>4, <2>1, <2>3, <3>1, <3>3 DEF InStep, Accounted, Open, PanesTypeOK, OfAPane, OfAFrame
    <3>. QED
      BY <3>2, <3>3
  <2>. QED
    BY <1>4, <2>2, <2>4 DEF PanesInv, OwnedInv
<1>6. CASE /\ p \notin Open /\ UNCHANGED <<objects, crashed>>
           /\ Elements(e) \subseteq {Call("notify", p), Call("unadvise", p)}
  <2>1. UNCHANGED <<window, view, impl, frame, advised, crashed>>
    BY <1>6 DEF objects
  <2>2. PanesTypeOK'
    BY <1>1, <2>1 DEF PanesTypeOK
  <2>3. /\ Waits("unadvise", p)'
        /\ \A at, q : Waits(at, q)' => Waits(at, q) \/ (q = p /\ at \in {"notify", "unadvise"})
    BY <1>2, <1>4, <1>6, CallsAreDistinct
  <2>4. ASSUME NEW q \in Panes PROVE InStep(q)' /\ Accounted(q, S)'
    <3>1. /\ InStep(q) /\ Accounted(q, S) /\ InStep(p) /\ Accounted(p, S)
      BY <1>1
    <3>2. CASE q = p
      BY <1>1, <1>2, <1>3, <1>4, <1>6, <2>1, <2>3, <3>1, <3>2
         DEF InStep, Accounted, Open, PanesTypeOK, OfAPane, OfAFrame
    <3>3. CASE q # p
      BY <1>1, <1>4, <2>1, <2>3, <3>1, <3>3 DEF InStep, Accounted, Open, PanesTypeOK, OfAPane, OfAFrame
    <3>. QED
      BY <3>2, <3>3
  <2>. QED
    BY <1>4, <2>2, <2>4 DEF PanesInv, OwnedInv
<1>. QED
  BY <1>2, <1>5, <1>6

LEMMA UserClosesKeeps ==
  ASSUME PanesInv, NEW S, OwnedInv(S), NEW p \in Panes, UserCloses(p)
  PROVE  PanesInv' /\ OwnedInv(S)'
<1>1. /\ PanesTypeOK /\ \A q \in Panes : InStep(q) /\ Accounted(q, S)
  BY DEF PanesInv, OwnedInv
<1>2. /\ stack = <<>> /\ window[p] = "shown" /\ stack' \in Closings(p)
      /\ window' = [window EXCEPT ![p] = "closing"]
      /\ UNCHANGED <<view, impl, frame, advised, crashed>>
  BY DEF UserCloses, Idle, BeginClosing
<1>3. /\ stack' \in Seq(Calls)
      /\ \A at, q : Waits(at, q)' <=> at \in {"notify", "close_pane"} /\ q = p
      /\ \A at, q : ~Waits(at, q)
  <2>1. /\ stack' \in Seq(Calls)
        /\ Pending' = {Call("notify", p), Call("close_pane", p)}
    BY <1>2, ElementsOfClosing DEF Pending, Elements
  <2>2. Pending = {}
    BY <1>2, NoElements DEF Pending
  <2>. QED
    BY <2>1, <2>2, CallsAreDistinct DEF Waits, Call
<1>4. PanesTypeOK'
  BY <1>1, <1>2 DEF PanesTypeOK
<1>5. ASSUME NEW q \in Panes PROVE InStep(q)' /\ Accounted(q, S)'
  <2>1. /\ InStep(q) /\ Accounted(q, S) /\ InStep(p) /\ Accounted(p, S)
    BY <1>1
  <2>. QED
    BY <1>1, <1>2, <1>3, <2>1 DEF InStep, Accounted, Open, PanesTypeOK, OfAPane, OfAFrame
<1>. QED
  BY <1>3, <1>4, <1>5 DEF PanesInv, OwnedInv

LEMMA NotifiesLateKeeps ==
  ASSUME PanesInv, NEW S, OwnedInv(S), NEW p \in Panes, NotifiesLate(p)
  PROVE  /\ PanesInv' /\ OwnedInv(S)'
         /\ stack' \in Seq(Calls) /\ Elements(stack') = {Call("notify", p)}
<1>1. /\ PanesTypeOK /\ \A q \in Panes : InStep(q) /\ Accounted(q, S)
  BY DEF PanesInv, OwnedInv
<1>2. /\ stack = <<>> /\ window[p] = "closed" /\ stack' = Entry("notify", p)
      /\ UNCHANGED <<window, view, impl, frame, advised, crashed>>
  BY DEF NotifiesLate, Idle, objects
<1>3. /\ stack' \in Seq(Calls) /\ Elements(stack') = {Call("notify", p)}
      /\ \A at, q : Waits(at, q)' <=> at = "notify" /\ q = p
      /\ \A at, q : ~Waits(at, q)
  <2>1. stack' \in Seq(Calls) /\ Elements(stack') = {Call("notify", p)}
    BY <1>2, CallsOfPanes, ElementsOfEntry DEF OfAPane
  <2>2. Pending' = {Call("notify", p)}
    BY <2>1 DEF Pending, Elements
  <2>3. Pending = {}
    BY <1>2, NoElements DEF Pending
  <2>. QED
    BY <2>1, <2>2, <2>3, CallsAreDistinct DEF Waits, Call
<1>4. PanesTypeOK'
  BY <1>1, <1>2 DEF PanesTypeOK
<1>5. ASSUME NEW q \in Panes PROVE InStep(q)' /\ Accounted(q, S)'
  BY <1>1, <1>2, <1>3 DEF InStep, Accounted, Open, PanesTypeOK, OfAPane, OfAFrame
<1>. QED
  BY <1>3, <1>4, <1>5 DEF PanesInv, OwnedInv

LEMMA ShellKeeps ==
  ASSUME PanesInv, NEW S, OwnedInv(S), Shell
  PROVE  PanesInv' /\ OwnedInv(S)'
<1>1. CASE OnTheDestroyed
  <2>1. UNCHANGED <<objects, stack>> /\ crashed' = TRUE
    BY <1>1 DEF OnTheDestroyed, Crash
  <2>. QED
    BY <2>1 DEF PanesInv, PanesTypeOK, OwnedInv, InStep, Accounted, Open, Waits, Pending,
                Elements, Call, objects
<1>. QED
  BY <1>1, UnadviseKeeps, EndMembersKeeps, ClosePaneKeeps, CloseFrameKeeps DEF Shell

(* What a client sees of the shell's steps.                                *)
SeenOf(p, S) ==
  /\ window[p] = "none" <=> window'[p] = "none"
  /\ window'[p] \in {"hidden", "shown"} => UNCHANGED window[p]
  /\ advised'[p] => advised[p]
  /\ Waits("notify", p) => Waits("notify", p)'
  /\ p \in S => /\ UNCHANGED <<advised[p], frame[p]>>
                /\ p \in Open => UNCHANGED window[p]
                /\ Waits("close_pane", p)' => Waits("close_pane", p)

(* The innermost call goes on with calls of the shell, or never does.      *)
GoesOnWithin ==
  \/ stack # <<>> /\ \E e \in Seq(Calls) : Continue(e) /\ Elements(e) \subseteq PaneCalls
  \/ UNCHANGED <<stack, window>>

LEMMA ShellSeen ==
  ASSUME PanesInv, NEW S, OwnedInv(S), Shell
  PROVE  GoesOnWithin /\ \A p \in Panes : SeenOf(p, S)
<1>1. /\ stack \in Seq(Calls) /\ PanesTypeOK
      /\ \A q \in Panes : InStep(q) /\ Accounted(q, S)
  BY DEF PanesInv, OwnedInv
<1>2. ASSUME NEW p \in Panes, NEW e \in Seq(Calls), NEW at \in OfAPane \ {"notify"},
             stack # <<>>, Continue(e), Head(stack) = Call(at, p),
             Elements(e) \subseteq {Call(bt, p) : bt \in OfAPane},
             p \in S => Elements(e) = {}
      PROVE  /\ GoesOnWithin
             /\ \A q \in Panes : /\ Waits("notify", q) => Waits("notify", q)'
                                 /\ q \in S /\ Waits("close_pane", q)' => Waits("close_pane", q)
  <2>1. Elements(e) \subseteq PaneCalls
    BY <1>2 DEF PaneCalls, Call
  <2>2. \A bt, q : /\ Waits(bt, q)' => Waits(bt, q) \/ Call(bt, q) \in Elements(e)
                   /\ Waits(bt, q) /\ Call(bt, q) # Head(stack) => Waits(bt, q)'
    BY <1>1, <1>2, Continuing
  <2>3. ASSUME NEW q \in Panes
        PROVE  /\ Waits("notify", q) => Waits("notify", q)'
               /\ q \in S /\ Waits("close_pane", q)' => Waits("close_pane", q)
    <3>1. Call("notify", q) # Head(stack)
      BY <1>2, CallsAreDistinct
    <3>2. q \in S => Call("close_pane", q) \notin Elements(e)
      BY <1>2, CallsAreDistinct
    <3>3. /\ Waits("close_pane", q)' => Waits("close_pane", q) \/ Call("close_pane", q) \in Elements(e)
          /\ Waits("notify", q) /\ Call("notify", q) # Head(stack) => Waits("notify", q)'
      BY <2>2
    <3>. QED
      BY <3>1, <3>2, <3>3, Zenon
  <2>. QED
    BY <1>2, <2>1, <2>3 DEF GoesOnWithin
<1>3. CASE Unadvise \/ EndMembers
  <2>1. PICK at \in {"unadvise", "members"} : Running(at)
    BY <1>3 DEF Unadvise, EndMembers
  <2>2. PICK p \in Panes : /\ stack # <<>> /\ Subject = p
                           /\ Head(stack) = Call(at, p) /\ Waits(at, p)
    BY <1>1, <2>1, RunningCall DEF OfAPane
  <2>3. p \notin S
    BY <1>1, <2>2 DEF Accounted, OfAFrame
  <2>4. PICK e \in Seq(Calls) : Continue(e) /\ Elements(e) \subseteq {Call("members", p)}
    <3>1. /\ Entry("members", p) \in Seq(Calls)
          /\ Elements(Entry("members", p)) = {Call("members", p)}
      BY CallsOfPanes, ElementsOfEntry DEF OfAPane
    <3>. QED
      BY <1>3, <2>2, <3>1, NoElements DEF Unadvise, EndMembers, Return
  <2>5. /\ GoesOnWithin
        /\ \A q \in Panes : /\ Waits("notify", q) => Waits("notify", q)'
                            /\ q \in S /\ Waits("close_pane", q)' => Waits("close_pane", q)
    <3>1. at \in OfAPane \ {"notify"} /\ Elements(e) \subseteq {Call(bt, p) : bt \in OfAPane}
      BY <2>4 DEF OfAPane
    <3>. QED
      BY <1>2, <2>2, <2>3, <2>4, <3>1
  <2>6. /\ advised' = [advised EXCEPT ![p] = FALSE] \/ advised' = advised
        /\ frame' = [frame EXCEPT ![p] = "destroyed"] \/ frame' = frame
        /\ UNCHANGED window
    BY <1>3, <2>2 DEF Unadvise, Unadvised, EndMembers
  <2>7. ASSUME NEW q \in Panes PROVE SeenOf(q, S)
    <3>1. q # p => advised'[q] = advised[q] /\ frame'[q] = frame[q]
      BY <1>1, <2>6 DEF PanesTypeOK
    <3>2. (advised'[p] => advised[p]) /\ window'[q] = window[q]
      BY <1>1, <2>6 DEF PanesTypeOK
    <3>. QED
      BY <2>3, <2>5, <3>1, <3>2, Zenon DEF SeenOf
  <2>. QED
    BY <2>5, <2>7
<1>4. CASE ClosePane
  <2>1. PICK p \in Panes : /\ stack # <<>> /\ Subject = p
                           /\ Head(stack) = Call("close_pane", p) /\ Waits("close_pane", p)
    BY <1>1, <1>4, RunningCall DEF ClosePane, OfAPane
  <2>2. /\ window' = [window EXCEPT ![p] = "closed"]
        /\ view' = [view EXCEPT ![p] = FALSE]
        /\ Continue(<<>>) /\ UNCHANGED <<frame, advised>>
    BY <1>4, <2>1 DEF ClosePane, Return
  <2>3. /\ GoesOnWithin
        /\ \A q \in Panes : /\ Waits("notify", q) => Waits("notify", q)'
                            /\ q \in S /\ Waits("close_pane", q)' => Waits("close_pane", q)
    BY <1>2, <2>1, <2>2, NoElements DEF OfAPane
  <2>4. p \notin Open /\ window[p] # "none"
    BY <1>1, <2>1 DEF InStep, Open
  <2>5. ASSUME NEW q \in Panes PROVE SeenOf(q, S)
    <3>1. q # p => window'[q] = window[q] /\ view'[q] = view[q]
      BY <1>1, <2>2 DEF PanesTypeOK
    <3>2. window'[p] = "closed" /\ frame'[q] = frame[q] /\ advised'[q] = advised[q]
      BY <1>1, <2>2 DEF PanesTypeOK
    <3>3. window'[p] # "none" /\ window'[p] \notin {"hidden", "shown"}
      BY <3>2
    <3>. QED
      BY <2>3, <2>4, <3>1, <3>2, <3>3, Zenon DEF SeenOf
  <2>. QED
    BY <2>3, <2>5
<1>5. CASE CloseFrame
  <2>1. PICK p \in Panes, e \in Seq(Calls) :
          /\ stack # <<>> /\ Head(stack) = Call("close_frame", p) /\ Waits("close_frame", p)
          /\ Continue(e)
          /\ Elements(e) \subseteq {Call("notify", p), Call("close_pane", p), Call("unadvise", p)}
          /\ BeginClosing(p) \/ UNCHANGED <<objects, crashed>>
    BY <1>1, <1>5, CloseFrameGoesOn
  <2>2. p \notin S
    BY <1>1, <2>1 DEF Accounted, OfAFrame
  <2>3. /\ "close_frame" \in OfAPane \ {"notify"}
        /\ Elements(e) \subseteq {Call(bt, p) : bt \in OfAPane}
    BY <2>1 DEF OfAPane
  <2>4. /\ GoesOnWithin
        /\ \A q \in Panes : /\ Waits("notify", q) => Waits("notify", q)'
                            /\ q \in S /\ Waits("close_pane", q)' => Waits("close_pane", q)
    BY <1>2, <2>1, <2>2, <2>3
  <2>5. /\ window' = window \/ window' = [window EXCEPT ![p] = "closing"]
        /\ UNCHANGED <<view, frame, advised>>
    BY <2>1 DEF BeginClosing, objects
  <2>7. window[p] # "none"
    BY <1>1, <2>1 DEF InStep, OfAPane
  <2>6. ASSUME NEW q \in Panes PROVE SeenOf(q, S)
    <3>1. window'[q] = window[q] \/ (q = p /\ window'[q] = "closing")
      BY <1>1, <2>5 DEF PanesTypeOK
    <3>2. frame'[q] = frame[q] /\ advised'[q] = advised[q] /\ view'[q] = view[q]
      BY <2>5
    <3>3. window'[q] = "closing" => window'[q] # "none" /\ window'[q] \notin {"hidden", "shown"}
      OBVIOUS
    <3>. QED
      BY <2>2, <2>4, <2>7, <3>1, <3>2, <3>3, Zenon DEF SeenOf
  <2>. QED
    BY <2>4, <2>6
<1>6. CASE OnTheDestroyed
  BY <1>6 DEF OnTheDestroyed, Crash, objects, GoesOnWithin, SeenOf, Waits, Pending, Elements,
              Call, Open
<1>. QED
  BY <1>3, <1>4, <1>5, <1>6 DEF Shell

LEMMA InitKeeps ==
  ASSUME PanesInit
  PROVE  PanesInv /\ OwnedInv({})
<1>1. PanesTypeOK
  BY DEF PanesInit, PanesTypeOK
<1>2. stack \in Seq(Calls) /\ \A at, p : ~Waits(at, p)
  BY NoElements DEF PanesInit, Waits, Pending
<1>3. \A p \in Panes : InStep(p) /\ Accounted(p, {})
  BY <1>2 DEF PanesInit, InStep, Accounted, Open
<1>. QED
  BY <1>1, <1>2, <1>3 DEF PanesInv, OwnedInv

-----------------------------------------------------------------------------
(* Steps of a client.                                                      *)

(* A pane the client leaves as it is but for its looks: it may drop it, not*)
(* get it back.                                                            *)
LeftIntact(p, S, T) ==
  /\ UNCHANGED <<impl[p], frame[p], advised[p]>>
  /\ window'[p] = window[p] \/ (p \in Open /\ window'[p] \in {"hidden", "shown"})
  /\ view'[p] => view[p] \/ p \in Open
  /\ p \in T => p \in S
  /\ p \in S \ T => Waits("close_frame", p)'

(* A pane that is made is the client's.                                    *)
JustMade(p, T) ==
  /\ window[p] = "none" /\ window'[p] = "hidden"
  /\ impl'[p] = "alive" /\ frame'[p] = "alive"
  /\ p \in T

(* The client calls off no call of the shell's, and makes none.            *)
GoesOn(p, S, T) ==
  \A at \in OfAPane :
    /\ Waits(at, p) /\ at \notin {"notify", "activated"} => Waits(at, p)'
    /\ Waits(at, p)' => \/ Waits(at, p)
                        \/ at = "close_frame" /\ p \in S \ T
                        \/ at = "activated" /\ p \in Open

(* What the client does to the panes S it has, keeping or making T, leaves *)
(* the windows and the calls in step.                                      *)
LEMMA ClientKeeps ==
  ASSUME PanesInv, PanesTypeOK', stack' \in Seq(Calls),
         NEW S, NEW T, OwnedInv(S),
         \A p \in Panes : /\ LeftIntact(p, S, T) \/ JustMade(p, T)
                          /\ GoesOn(p, S, T)
  PROVE  PanesInv' /\ OwnedInv(T)'
<1>1. /\ PanesTypeOK /\ \A p \in Panes : InStep(p) /\ Accounted(p, S)
  BY DEF PanesInv, OwnedInv
<1>2. ASSUME NEW p \in Panes PROVE InStep(p)' /\ Accounted(p, T)'
  <2>1. InStep(p) /\ Accounted(p, S) /\ GoesOn(p, S, T)
    BY <1>1
  <2>2. CASE LeftIntact(p, S, T)
    <3>1. InStep(p)'
      BY <1>1, <2>1, <2>2
         DEF InStep, Accounted, GoesOn, LeftIntact, Open, PanesTypeOK, OfAPane, OfAFrame
    <3>2. Accounted(p, T)'
      BY <1>1, <2>1, <2>2
         DEF InStep, Accounted, GoesOn, LeftIntact, Open, PanesTypeOK, OfAPane, OfAFrame
    <3>. QED
      BY <3>1, <3>2
  <2>3. CASE JustMade(p, T)
    <3>1. /\ \A at \in OfAPane : ~Waits(at, p)'
      <4>1. p \notin Open
        BY <2>3 DEF JustMade, Open
      <4>. QED
        BY <2>1, <2>3, <4>1 DEF InStep, GoesOn, JustMade
    <3>. QED
      BY <2>3, <3>1 DEF InStep, Accounted, JustMade, Open, OfAPane, OfAFrame
  <2>. QED
    BY <2>1, <2>2, <2>3
<1>. QED
  BY <1>2 DEF PanesInv, OwnedInv

(* The calls with which a client drops a pane, if it has one.              *)
LEMMA ElementsOfDestruction ==
  ASSUME NoPane \notin Panes, NEW p \in Panes \union {NoPane}
  PROVE  /\ Destruction(p) \in Seq(Calls)
         /\ Elements(Destruction(p)) \subseteq PaneCalls
         /\ \A at, q : Call(at, q) \in Elements(Destruction(p))
                         <=> q \in Panes /\ q = p /\ at = "close_frame"
<1>1. CASE p = NoPane
  BY <1>1, NoElements DEF Destruction
<1>2. CASE p # NoPane
  <2>1. Call("close_frame", p) \in PaneCalls
    BY <1>2 DEF Call, PaneCalls, OfAPane
  <2>2. /\ Destruction(p) = Entry("close_frame", p)
        /\ Destruction(p) \in Seq(Calls)
        /\ Elements(Destruction(p)) = {Call("close_frame", p)}
    BY <1>2, <2>1, ElementsOfEntry DEF Destruction, Calls
  <2>. QED
    BY <1>2, <2>1, <2>2, CallsAreDistinct
<1>. QED
  BY <1>1, <1>2

(* When nothing is under way no call waits.                                *)
LEMMA NothingWaits ==
  ASSUME Idle
  PROVE  \A at, p : ~Waits(at, p)
BY NoElements DEF Idle, Waits, Pending

(* What waits when nothing was under way and e is begun.                   *)
LEMMA Beginning ==
  ASSUME NEW e \in Seq(Calls), stack' = e
  PROVE  stack' \in Seq(Calls) /\ \A at, p : Waits(at, p)' <=> Call(at, p) \in Elements(e)
<1>1. Pending' = Elements(e)
  BY DEF Pending, Elements
<1>. QED
  BY <1>1 DEF Waits, Call

(* One pane more, for the client.                                          *)
LEMMA PaneMade ==
  ASSUME PanesTypeOK, NEW p \in Unused, Create(p), UNCHANGED crashed
  PROVE  /\ PanesTypeOK'
         /\ \A q \in Panes : q # p => /\ window'[q] = window[q] /\ impl'[q] = impl[q]
                                      /\ frame'[q] = frame[q] /\ advised'[q] = advised[q]
                                      /\ view'[q] = view[q]
         /\ window'[p] = "hidden" /\ impl'[p] = "alive" /\ frame'[p] = "alive"
<1>1. /\ window' = [window EXCEPT ![p] = "hidden"]
      /\ impl' = [impl EXCEPT ![p] = "alive"]
      /\ frame' = [frame EXCEPT ![p] = "alive"]
      /\ view' = view \/ view' = [view EXCEPT ![p] = TRUE]
      /\ advised' = advised \/ advised' = [advised EXCEPT ![p] = TRUE]
  BY DEF Create, Advised, CreatePaneWindow
<1>2. p \in Panes
  BY DEF Unused
<1>3. /\ window' \in [Panes -> {"none", "hidden", "shown", "closing", "closed"}]
      /\ view' \in [Panes -> BOOLEAN]
      /\ impl' \in [Panes -> {"none", "alive", "destroyed"}]
      /\ frame' \in [Panes -> {"none", "alive", "destroyed"}]
      /\ advised' \in [Panes -> BOOLEAN]
  BY <1>1, <1>2 DEF PanesTypeOK
<1>. QED
  BY <1>1, <1>2, <1>3 DEF PanesTypeOK

-----------------------------------------------------------------------------
(* How re-entered calls stay apart.                                        *)

(* What waits when the innermost call goes on with e: e and what was below *)
(* it.                                                                     *)
LEMMA ContinuingApart ==
  ASSUME stack \in Seq(Calls), stack # <<>>, AllApart(stack), NEW e \in Seq(Calls),
         AllApart(e), Continue(e),
         \A c \in Elements(e), d \in Pending : Apart(Head(stack), d) => Apart(c, d)
  PROVE  /\ AllApart(stack)'
         /\ \A c \in Pending' : c \in Elements(e) \/ (c \in Pending /\ Apart(Head(stack), c))
<1>. DEFINE t == Tail(stack)
<1>1. /\ t \in Seq(Calls) /\ Elements(t) \subseteq Pending /\ AllApart(t)
      /\ \A d \in Elements(t) : Apart(Head(stack), d)
  BY ElementsOfTail, ApartTail DEF Pending
<1>2. stack' = e \o t
  BY DEF Continue
<1>. HIDE DEF t
<1>3. AllApart(e \o t) /\ Elements(e \o t) = Elements(e) \union Elements(t)
  BY <1>1, ApartConcat, ElementsOfConcat
<1>4. Pending' = Elements(e \o t)
  BY <1>2 DEF Pending, Elements
<1>5. AllApart(stack)'
  BY <1>2, <1>3 DEF AllApart, Apart
<1>. QED
  BY <1>1, <1>3, <1>4, <1>5

LEMMA CallIsPending ==
  ASSUME NoPane \notin Panes, stack \in Seq(Calls), NEW d \in Pending, d.pane \in Panes
  PROVE  d = Call(d.at, d.pane) /\ d.at \in OfAPane /\ Waits(d.at, d.pane)
<1>1. d \in Calls
  BY DEF Pending, Elements
<1>2. d \in PaneCalls
  BY <1>1 DEF Calls
<1>. QED
  BY <1>2 DEF PaneCalls, Call, Waits

LEMMA ShellReenters ==
  ASSUME NoPane \notin Panes, PanesInv, NEW S \in SUBSET Panes, OwnedInv(S), ReentryInv(S), Shell
  PROVE  ReentryInv(S)'
<1>1. /\ stack \in Seq(Calls) /\ PanesTypeOK /\ AllApart(stack)
      /\ \A q \in Panes : /\ InStep(q) /\ Accounted(q, S)
                          /\ \A at \in OfAFrame \union Signals : Waits(at, q) => frame[q] = "alive"
                          /\ Waits("close_pane", q) => impl[q] = "alive"
      /\ \A q \in S, at \in Signals : Waits(at, q) => \A c \in Pending : c.pane = q
  BY DEF PanesInv, OwnedInv, ReentryInv
<1>2. ASSUME NEW p \in Panes, NEW at \in OfAPane, stack # <<>>, Head(stack) = Call(at, p)
      PROVE  /\ Call(at, p) \in Pending
             /\ \A q \in S : q # p => \A bt \in Signals : ~Waits(bt, q)
  <2>1. Call(at, p) \in Pending
    BY <1>1, <1>2, ElementsOfTail DEF Pending
  <2>. QED
    BY <1>1, <2>1 DEF Call
<1>3. CASE EndMembers
  <2>1. PICK p \in Panes : /\ stack # <<>> /\ Subject = p
                           /\ Head(stack) = Call("members", p) /\ Waits("members", p)
    BY <1>1, <1>3, RunningCall DEF EndMembers, OfAPane
  <2>2. /\ frame' = [frame EXCEPT ![p] = "destroyed"] /\ UNCHANGED impl
        /\ Continue(<<>>) /\ p \notin S
    BY <1>1, <1>3, <2>1 DEF EndMembers, Return, Accounted, OfAFrame
  <2>3. /\ AllApart(stack)'
        /\ \A c \in Pending' : c \in Pending /\ Apart(Call("members", p), c)
    <3>1. \A c \in Elements(<<>>), d \in Pending : Apart(Head(stack), d) => Apart(c, d)
      BY NoElements
    <3>. QED
      BY <1>1, <2>1, <2>2, <3>1, NoElements, ContinuingApart
  <2>4. \A bt, q : Waits(bt, q)' => Waits(bt, q) /\ Apart(Call("members", p), Call(bt, q))
    BY <2>3 DEF Waits, Call
  <2>5. \A bt \in OfAFrame \union Signals : ~Waits(bt, p)'
    BY <2>4 DEF Apart, Part, Call, OfAFrame, Signals
  <2>6. ASSUME NEW q \in Panes
        PROVE  /\ \A bt \in OfAFrame \union Signals : Waits(bt, q)' => frame'[q] = "alive"
               /\ Waits("close_pane", q)' => impl'[q] = "alive"
    BY <1>1, <2>2, <2>4, <2>5 DEF PanesTypeOK
  <2>7. \A q \in S, bt \in Signals : ~Waits(bt, q)'
    BY <1>2, <2>1, <2>2, <2>4 DEF OfAPane
  <2>. QED
    BY <2>3, <2>6, <2>7 DEF ReentryInv
<1>4. CASE ClosePane
  <2>1. PICK p \in Panes : /\ stack # <<>> /\ Subject = p
                           /\ Head(stack) = Call("close_pane", p) /\ Waits("close_pane", p)
    BY <1>1, <1>4, RunningCall DEF ClosePane, OfAPane
  <2>2. impl' = [impl EXCEPT ![p] = "destroyed"] /\ UNCHANGED frame /\ Continue(<<>>)
    BY <1>4, <2>1 DEF ClosePane, Return
  <2>3. /\ AllApart(stack)'
        /\ \A c \in Pending' : c \in Pending /\ Apart(Call("close_pane", p), c)
    <3>1. \A c \in Elements(<<>>), d \in Pending : Apart(Head(stack), d) => Apart(c, d)
      BY NoElements
    <3>. QED
      BY <1>1, <2>1, <2>2, <3>1, NoElements, ContinuingApart
  <2>4. \A bt, q : Waits(bt, q)' => Waits(bt, q) /\ Apart(Call("close_pane", p), Call(bt, q))
    BY <2>3 DEF Waits, Call
  <2>5. ~Waits("close_pane", p)'
    BY <2>4 DEF Apart, Part, Call, OfAFrame, Signals
  <2>6. ASSUME NEW q \in Panes
        PROVE  /\ \A bt \in OfAFrame \union Signals : Waits(bt, q)' => frame'[q] = "alive"
               /\ Waits("close_pane", q)' => impl'[q] = "alive"
    BY <1>1, <2>2, <2>4, <2>5 DEF PanesTypeOK
  <2>7. \A q \in S, bt \in Signals : Waits(bt, q)' => \A c \in Pending' : c.pane = q
    BY <1>1, <2>3, <2>4
  <2>. QED
    BY <2>3, <2>6, <2>7 DEF ReentryInv
<1>5. CASE CloseFrame
  <2>1. PICK p \in Panes, e \in Seq(Calls) :
          /\ stack # <<>> /\ Head(stack) = Call("close_frame", p) /\ Waits("close_frame", p)
          /\ Continue(e) /\ AllApart(e)
          /\ \/ /\ p \in Open /\ BeginClosing(p)
                /\ Elements(e) = {Call("notify", p), Call("close_pane", p), Call("unadvise", p)}
             \/ /\ p \notin Open /\ UNCHANGED <<objects, crashed>>
                /\ Elements(e) \subseteq {Call("notify", p), Call("unadvise", p)}
    BY <1>1, <1>5, CloseFrameGoesOn
  <2>2. UNCHANGED <<frame, impl>> /\ p \notin S
    BY <1>1, <2>1 DEF BeginClosing, objects, Accounted, OfAFrame
  <2>3. ASSUME NEW c \in Elements(e), NEW d \in Pending, Apart(Call("close_frame", p), d)
        PROVE  Apart(c, d)
    <3>1. c.pane = p /\ c.at \in {"notify", "close_pane", "unadvise"}
      BY <2>1 DEF Call
    <3>2. CASE d.pane # p
      BY <3>1, <3>2 DEF Apart
    <3>3. CASE d.pane = p
      <4>1. d.at \in OfAPane /\ Waits(d.at, p)
        BY <1>1, <3>3, CallIsPending
      <4>2. d.at = "close_pane"
        BY <2>3, <3>3, <4>1 DEF Apart, Part, Call, OfAFrame, Signals, OfAPane
      <4>3. p \notin Open
        BY <1>1, <4>1, <4>2 DEF InStep, Open
      <4>4. c.at \in {"notify", "unadvise"}
        BY <2>1, <4>3 DEF Call
      <4>. QED
        BY <4>2, <4>4 DEF Apart, Part, OfAFrame, Signals
    <3>. QED
      BY <3>2, <3>3
  <2>4. /\ AllApart(stack)'
        /\ \A c \in Pending' : c \in Elements(e) \/ c \in Pending
    BY <1>1, <2>1, <2>3, ContinuingApart
  <2>5. \A bt, q : Waits(bt, q)' => Waits(bt, q) \/ Call(bt, q) \in Elements(e)
    BY <2>4 DEF Waits, Call
  <2>6. ASSUME NEW q \in Panes
        PROVE  /\ \A bt \in OfAFrame \union Signals : Waits(bt, q)' => frame'[q] = "alive"
               /\ Waits("close_pane", q)' => impl'[q] = "alive"
    <3>1. CASE q # p
      <4>1. \A bt : Waits(bt, q)' => Waits(bt, q)
        BY <2>1, <2>5, <3>1, CallsAreDistinct
      <4>. QED
        BY <1>1, <2>2, <4>1
    <3>2. CASE q = p
      <4>1. frame'[p] = "alive"
        BY <1>1, <2>1, <2>2 DEF OfAFrame
      <4>2. Waits("close_pane", p)' => Waits("close_pane", p) \/ p \in Open
        BY <2>1, <2>5, CallsAreDistinct
      <4>3. p \in Open => impl[p] = "alive"
        BY <1>1 DEF InStep, Open
      <4>. QED
        BY <1>1, <2>2, <3>2, <4>1, <4>2, <4>3
    <3>. QED
      BY <3>1, <3>2
  <2>7. \A q \in S, bt \in Signals : ~Waits(bt, q)'
    <3>1. \A q \in S : q # p
      BY <2>2
    <3>2. \A q \in S, bt \in Signals : ~Waits(bt, q)
      BY <1>2, <2>1, <3>1 DEF OfAPane
    <3>. QED
      BY <2>1, <2>5, <3>1, <3>2, CallsAreDistinct
  <2>. QED
    BY <2>4, <2>6, <2>7 DEF ReentryInv
<1>6. CASE Unadvise
  <2>1. PICK p \in Panes : /\ stack # <<>> /\ Subject = p
                           /\ Head(stack) = Call("unadvise", p) /\ Waits("unadvise", p)
    BY <1>1, <1>6, RunningCall DEF Unadvise, OfAPane
  <2>. DEFINE e == Entry("members", p)
  <2>2. /\ e \in Seq(Calls) /\ Elements(e) = {Call("members", p)} /\ AllApart(e)
        /\ Continue(e) /\ UNCHANGED <<frame, impl>> /\ p \notin S
    BY <1>1, <1>6, <2>1, CallsOfPanes, ElementsOfEntry, ApartEntry
       DEF Unadvise, Accounted, OfAPane, OfAFrame
  <2>. HIDE DEF e
  <2>3. \A d : Apart(Call("unadvise", p), d) => Apart(Call("members", p), d)
    BY DEF Apart, Part, Call, OfAFrame
  <2>4. /\ AllApart(stack)'
        /\ \A c \in Pending' : c = Call("members", p) \/ c \in Pending
    BY <1>1, <2>1, <2>2, <2>3, ContinuingApart
  <2>5. \A bt, q : Waits(bt, q)' => Waits(bt, q) \/ (bt = "members" /\ q = p)
    BY <2>4, CallsAreDistinct DEF Waits, Call
  <2>6. frame[p] = "alive"
    BY <1>1, <2>1 DEF OfAFrame
  <2>7. ASSUME NEW q \in Panes
        PROVE  /\ \A bt \in OfAFrame \union Signals : Waits(bt, q)' => frame'[q] = "alive"
               /\ Waits("close_pane", q)' => impl'[q] = "alive"
    BY <1>1, <2>2, <2>5, <2>6
  <2>8. \A q \in S, bt \in Signals : ~Waits(bt, q)'
    <3>1. \A q \in S : q # p
      BY <2>2
    <3>. QED
      BY <1>2, <2>1, <2>5, <3>1 DEF OfAPane, Signals
  <2>. QED
    BY <2>4, <2>7, <2>8 DEF ReentryInv
<1>7. CASE OnTheDestroyed
  BY <1>7 DEF OnTheDestroyed, Crash, objects, ReentryInv, AllApart, Waits, Pending, Elements,
              Apart, Call
<1>. QED
  BY <1>3, <1>4, <1>5, <1>6, <1>7 DEF Shell

(* From within a call the client drops the panes D, and is left with T.    *)
LEMMA ClientReenters ==
  ASSUME NoPane \notin Panes, PanesInv, NEW S \in SUBSET Panes, OwnedInv(S), ReentryInv(S),
         stack # <<>>, NEW e \in Seq(Calls), AllApart(e), Continue(e),
         NEW D \in SUBSET S, NEW T \in SUBSET Panes,
         \A c \in Elements(e) : \/ \E q \in D : c = Call("close_frame", q)
                                \/ c = Call("furnish", NoPane) /\ Subject = NoPane,
         Subject \in D => Head(stack).at \in Signals,
         \A q \in T : window[q] = "none" \/ (q \in S \ D /\ (D = {} \/ Subject \in D)),
         \A q \in Panes : /\ frame[q] = "alive" => frame'[q] = "alive"
                          /\ impl[q] = "alive" => impl'[q] = "alive"
  PROVE  ReentryInv(T)'
<1>1. /\ stack \in Seq(Calls) /\ PanesTypeOK /\ AllApart(stack)
      /\ \A q \in Panes : /\ InStep(q) /\ Accounted(q, S)
                          /\ \A at \in OfAFrame \union Signals : Waits(at, q) => frame[q] = "alive"
                          /\ Waits("close_pane", q) => impl[q] = "alive"
      /\ \A q \in S, at \in Signals : Waits(at, q) => \A c \in Pending : c.pane = q
  BY DEF PanesInv, OwnedInv, ReentryInv
<1>2. Head(stack) \in Pending /\ Head(stack).pane = Subject
  BY <1>1, ElementsOfTail DEF Pending, Subject
<1>3. ASSUME NEW c \in Elements(e), NEW d \in Pending, Apart(Head(stack), d)
      PROVE  Apart(c, d)
  <2>1. CASE c = Call("furnish", NoPane) /\ Subject = NoPane
    <3>1. SUFFICES ASSUME d.pane = NoPane PROVE Apart(c, d)
      BY <2>1 DEF Apart, Call
    <3>2. d \in Calls /\ Head(stack) \in Calls
      BY <1>1, ElementsOfTail DEF Pending, Elements
    <3>3. d \notin PaneCalls /\ Head(stack) \notin PaneCalls
      BY <1>2, <2>1, <3>1 DEF PaneCalls
    <3>4. d.at \in {"create", "furnish"} /\ Head(stack).at \in {"create", "furnish"}
      BY <3>2, <3>3 DEF Calls
    <3>. QED
      BY <1>2, <1>3, <2>1, <3>1, <3>4 DEF Apart, Part, OfAFrame, Signals
  <2>2. ASSUME NEW q \in D, c = Call("close_frame", q) PROVE Apart(c, d)
    <3>1. SUFFICES ASSUME d.pane = q PROVE Apart(c, d)
      BY <2>2 DEF Apart, Call
    <3>2. d.at \in OfAPane /\ Waits(d.at, q)
      BY <1>1, <3>1, CallIsPending
    <3>3. d.at \notin OfAFrame
      BY <1>1, <3>2 DEF Accounted, OfAFrame
    <3>4. d.at \notin Signals
      <4>1. SUFFICES ASSUME d.at \in Signals PROVE FALSE
        OBVIOUS
      <4>2. Subject = q
        BY <1>1, <1>2, <3>2, <4>1
      <4>. QED
        BY <1>2, <1>3, <3>1, <4>1, <4>2 DEF Apart, Part, OfAFrame, Signals
    <3>5. d.at = "close_pane" /\ c.at = "close_frame"
      BY <2>2, <3>2, <3>3, <3>4 DEF OfAPane, OfAFrame, Signals, Call
    <3>. QED
      BY <3>5 DEF Apart, Part, OfAFrame, Signals
  <2>. QED
    BY <2>1, <2>2
<1>4. /\ AllApart(stack)'
      /\ \A c \in Pending' : c \in Elements(e) \/ c \in Pending
  BY <1>1, <1>3, ContinuingApart
<1>5. \A at, q : Waits(at, q)' => Waits(at, q) \/ Call(at, q) \in Elements(e)
  BY <1>4 DEF Waits, Call
<1>6. \A at, q : q \in Panes /\ Call(at, q) \in Elements(e) => at = "close_frame" /\ q \in D
  BY CallsAreDistinct
<1>7. ASSUME NEW q \in Panes
      PROVE  /\ \A at \in OfAFrame \union Signals : Waits(at, q)' => frame'[q] = "alive"
             /\ Waits("close_pane", q)' => impl'[q] = "alive"
  <2>1. q \in D => frame[q] = "alive"
    BY <1>1 DEF Accounted
  <2>. QED
    BY <1>1, <1>5, <1>6, <2>1
<1>8. ASSUME NEW q \in T, NEW at \in Signals, Waits(at, q)', NEW c \in Pending'
      PROVE  c.pane = q
  <2>1. at \in OfAPane /\ at # "close_frame" /\ q \in Panes
    BY DEF Signals, OfAPane
  <2>2. Waits(at, q)
    BY <1>5, <1>6, <1>8, <2>1
  <2>3. window[q] # "none"
    BY <1>1, <2>1, <2>2 DEF InStep
  <2>4. q \in S \ D /\ (D = {} \/ Subject \in D) /\ \A d \in Pending : d.pane = q
    BY <1>1, <2>2, <2>3
  <2>5. Subject = q /\ q # NoPane
    BY <1>2, <2>1, <2>4
  <2>. QED
    BY <1>4, <2>4, <2>5
<1>. QED
  BY <1>4, <1>7, <1>8 DEF ReentryInv

(* The client begins something from outside of any call.                   *)
LEMMA ClientBegins ==
  ASSUME NEW e \in Seq(Calls), AllApart(e), stack' = e, NEW T \in SUBSET Panes,
         \A p \in Panes, at \in OfAPane : Call(at, p) \in Elements(e)
           => frame'[p] = "alive" /\ (at = "close_pane" => impl'[p] = "alive"),
         \A p \in T, at \in Signals : Call(at, p) \in Elements(e) => \A c \in Elements(e) : c.pane = p
  PROVE  ReentryInv(T)'
<1>1. Pending' = Elements(e)
  BY DEF Pending, Elements
<1>2. \A at, p : Waits(at, p)' <=> Call(at, p) \in Elements(e)
  BY <1>1 DEF Waits, Call
<1>3. AllApart(stack)'
  BY DEF AllApart, Apart
<1>. QED
  BY <1>1, <1>2, <1>3 DEF ReentryInv, OfAFrame, Signals, OfAPane

(* The user closes a window: the client holds it, or it would be going.    *)
LEMMA UserReenters ==
  ASSUME NoPane \notin Panes, PanesInv, NEW S \in SUBSET Panes, OwnedInv(S), NEW p \in Panes, UserCloses(p)
  PROVE  ReentryInv(S)'
<1>1. /\ PanesTypeOK /\ \A q \in Panes : InStep(q) /\ Accounted(q, S)
      /\ \A at, q : ~Waits(at, q)
  BY NothingWaits DEF PanesInv, OwnedInv, UserCloses
<1>2. PICK e \in Closings(p) : stack' = e
  BY DEF UserCloses
<1>3. e \in Seq(Calls) /\ Elements(e) = {Call("notify", p), Call("close_pane", p)}
  BY ElementsOfClosing
<1>4. UNCHANGED <<impl, frame>> /\ impl[p] = "alive" /\ frame[p] = "alive"
  BY <1>1 DEF UserCloses, BeginClosing, InStep, Accounted, Open
<1>5. AllApart(e)
  <2>1. /\ Entry("notify", p) \in Seq(Calls) /\ Entry("close_pane", p) \in Seq(Calls)
        /\ Elements(Entry("notify", p)) = {Call("notify", p)}
        /\ Elements(Entry("close_pane", p)) = {Call("close_pane", p)}
        /\ AllApart(Entry("notify", p)) /\ AllApart(Entry("close_pane", p))
    BY CallsOfPanes, ElementsOfEntry, ApartEntry DEF OfAPane
  <2>2. /\ Apart(Call("notify", p), Call("close_pane", p))
        /\ Apart(Call("close_pane", p), Call("notify", p))
    BY DEF Apart, Part, Call, OfAFrame, Signals
  <2>. QED
    BY <2>1, <2>2, ApartConcat DEF Closings
<1>6. \A at, q : Call(at, q) \in Elements(e) => q = p
  BY <1>3, CallsAreDistinct
<1>7. \A c \in Elements(e) : c.pane = p
  BY <1>3 DEF Call
<1>. QED
  BY <1>2, <1>3, <1>4, <1>5, <1>6, <1>7, ClientBegins

(* The shell is late: it tells a frame that is there, or nobody.           *)
LEMMA LateReenters ==
  ASSUME NoPane \notin Panes, PanesInv, NEW S \in SUBSET Panes, OwnedInv(S), NEW p \in Panes,
         NotifiesLate(p)
  PROVE  ReentryInv(S)' \/ Late'
<1>1. stack' = Entry("notify", p) /\ UNCHANGED <<impl, frame>>
  BY DEF NotifiesLate, objects
<1>2. CASE frame[p] # "alive"
  BY <1>1, <1>2 DEF Late
<1>3. CASE frame[p] = "alive"
  <2>. DEFINE e == Entry("notify", p)
  <2>1. /\ e \in Seq(Calls) /\ Elements(e) = {Call("notify", p)} /\ AllApart(e) /\ stack' = e
    BY <1>1, CallsOfPanes, ElementsOfEntry, ApartEntry DEF OfAPane
  <2>. HIDE DEF e
  <2>2. \A at, q : Call(at, q) \in Elements(e) => at = "notify" /\ q = p
    BY <2>1, CallsAreDistinct
  <2>3. \A c \in Elements(e) : c.pane = p
    BY <2>1 DEF Call
  <2>4. frame'[p] = "alive"
    BY <1>1, <1>3
  <2>. QED
    BY <2>1, <2>2, <2>3, <2>4, ClientBegins
<1>. QED
  BY <1>2, <1>3

(* A notification to nobody is the only call under way, and is not heard.  *)
LEMMA LateIsUnheard ==
  ASSUME PanesInv, Late
  PROVE  /\ stack # <<>> /\ Head(stack).at = "notify" /\ Tail(stack) = <<>>
         /\ Len(stack) = 1 /\ Subject \in Panes /\ ~advised[Subject]
<1>1. PICK p \in Panes : stack = <<[at |-> "notify", pane |-> p]>> /\ frame[p] # "alive"
  BY DEF Late, Entry
<1>2. ~advised[p]
  BY <1>1 DEF PanesInv, InStep
<1>. QED
  BY <1>1, <1>2 DEF Subject

(* What runs is a call of an object that is there.                         *)
LEMMA NothingOfTheDestroyed ==
  ASSUME PanesInv, NEW S, ReentryInv(S) \/ Late
  PROVE  ~OnTheDestroyed
<1>1. SUFFICES ASSUME NEW at \in OfAPane, Running(at), at \in Signals => advised[Subject], ~Stands
               PROVE  FALSE
  BY DEF OnTheDestroyed
<1>2. CASE Late
  <2>1. at = "notify" /\ ~advised[Subject]
    BY <1>1, <1>2, LateIsUnheard DEF Running
  <2>. QED
    BY <1>1, <2>1 DEF Signals
<1>3. CASE ReentryInv(S)
  <2>1. stack # <<>> /\ Head(stack).at = at /\ Subject \in Panes /\ Waits(at, Subject)
    BY <1>1, RunningCall DEF PanesInv, Running
  <2>2. at = "close_pane" \/ at \in OfAFrame \union Signals
    BY DEF OfAPane, OfAFrame, Signals
  <2>3. /\ at = "close_pane" => impl[Subject] = "alive"
        /\ at # "close_pane" => frame[Subject] = "alive"
    BY <1>3, <2>1, <2>2 DEF ReentryInv
  <2>. QED
    BY <1>1, <2>1, <2>3 DEF Stands, Running
<1>. QED
  BY <1>2, <1>3

(* Nothing is under way after a step of a client that begins nothing.      *)
LEMMA NothingBegun ==
  ASSUME stack' = <<>>, NEW T \in SUBSET Panes
  PROVE  ReentryInv(T)'
BY NoElements, ClientBegins

(* Of the calls that stay apart there are few: no two have the same part   *)
(* in the end of the same pane.                                            *)
LEMMA FewCallsApart ==
  ASSUME NoPane \notin Panes, IsFiniteSet(Panes), PanesInv, NEW S, ReentryInv(S)
  PROVE  BoundedReentry
<1>. DEFINE Parts == {"destroys", "signals", "closes"}
            Places == (Live \X Parts) \union {<<NoPane, "client">>}
            place == [i \in 1 .. Len(stack) |-> <<stack[i].pane, Part(stack[i].at)>>]
<1>1. stack \in Seq(Calls) /\ Len(stack) \in Nat /\ DOMAIN stack = 1 .. Len(stack)
  BY DEF PanesInv
<1>2. IsFiniteSet(Live) /\ Cardinality(Live) \in Nat
  BY FS_Subset, FS_CardinalityType DEF Live
<1>3. IsFiniteSet(Places) /\ Cardinality(Places) <= 3 * Cardinality(Live) + 1
  <2>1. IsFiniteSet(Parts) /\ Cardinality(Parts) = 3
    <3>1. IsFiniteSet({"destroys"}) /\ Cardinality({"destroys"}) = 1
      BY FS_Singleton
    <3>2. /\ IsFiniteSet({"destroys"} \union {"signals"})
          /\ Cardinality({"destroys"} \union {"signals"}) = 2
      BY <3>1, FS_AddElement
    <3>3. {"destroys"} \union {"signals"} = {"destroys", "signals"}
      OBVIOUS
    <3>4. /\ IsFiniteSet({"destroys", "signals"} \union {"closes"})
          /\ Cardinality({"destroys", "signals"} \union {"closes"}) = 3
      BY <3>2, <3>3, FS_AddElement
    <3>5. {"destroys", "signals"} \union {"closes"} = Parts
      OBVIOUS
    <3>. QED
      BY <3>4, <3>5
  <2>2. IsFiniteSet(Live \X Parts) /\ Cardinality(Live \X Parts) = Cardinality(Live) * 3
    BY <1>2, <2>1, FS_Product
  <2>3. Cardinality(Live \X Parts) \in Nat
    BY <2>2, FS_CardinalityType
  <2>4. /\ IsFiniteSet(Places)
        /\ Cardinality(Places) <= Cardinality(Live \X Parts) + 1
    <3>1. ASSUME NEW L, IsFiniteSet(L), Cardinality(L) \in Nat, NEW x
          PROVE  IsFiniteSet(L \union {x}) /\ Cardinality(L \union {x}) <= Cardinality(L) + 1
      <4>1. /\ IsFiniteSet(L \union {x})
            /\ Cardinality(L \union {x}) = IF x \in L THEN Cardinality(L) ELSE Cardinality(L) + 1
        BY <3>1, FS_AddElement, Zenon
      <4>. QED
        BY <3>1, <4>1
    <3>. HIDE DEF Parts
    <3>. QED
      BY <2>2, <2>3, <3>1
  <2>. QED
    BY <1>2, <2>2, <2>4
<1>4. ASSUME NEW i \in 1 .. Len(stack) PROVE place[i] \in Places
  <2>1. stack[i] \in Pending /\ stack[i] \in Calls
    BY <1>1 DEF Pending, Elements
  <2>2. CASE stack[i] \in PaneCalls
    <3>1. /\ stack[i].pane \in Panes /\ stack[i].at \in OfAPane
          /\ Waits(stack[i].at, stack[i].pane)
      BY <1>1, <2>1, <2>2, CallIsPending DEF PaneCalls
    <3>2. stack[i].at \in OfAFrame \union Signals \/ stack[i].at = "close_pane"
      BY <3>1 DEF OfAPane, OfAFrame, Signals
    <3>3. stack[i].pane \in Live
      BY <3>1, <3>2 DEF ReentryInv, Live
    <3>4. Part(stack[i].at) \in Parts
      BY <3>2 DEF Part, OfAFrame, Signals
    <3>. QED
      BY <3>3, <3>4
  <2>3. CASE stack[i] \notin PaneCalls
    <3>1. stack[i].pane = NoPane /\ stack[i].at \in {"create", "furnish"}
      BY <2>1, <2>3 DEF Calls
    <3>2. Part(stack[i].at) = "client"
      BY <3>1 DEF Part, OfAFrame, Signals
    <3>. QED
      BY <3>1, <3>2
  <2>. QED
    BY <2>2, <2>3
<1>5. ASSUME NEW i \in 1 .. Len(stack), NEW j \in 1 .. Len(stack), i # j
      PROVE  place[i] # place[j]
  <2>1. SUFFICES ASSUME place[i] = place[j] PROVE FALSE
    OBVIOUS
  <2>2. stack[i].pane = stack[j].pane /\ Part(stack[i].at) = Part(stack[j].at)
    BY <2>1
  <2>3. ~Apart(stack[i], stack[j]) /\ ~Apart(stack[j], stack[i])
    BY <2>2 DEF Apart
  <2>4. i < j \/ j < i
    BY <1>5
  <2>. QED
    BY <1>1, <2>3, <2>4 DEF ReentryInv, AllApart
<1>6. IsFiniteSet(1 .. Len(stack)) /\ Cardinality(1 .. Len(stack)) = Len(stack)
  BY <1>1, FS_Interval
<1>7. ~(Cardinality(Places) < Len(stack))
  <2>1. place \in [1 .. Len(stack) -> Places]
    BY <1>4
  <2>2. \A i, j \in 1 .. Len(stack) : i # j => place[i] # place[j]
    BY <1>5
  <2>. HIDE DEF place, Places
  <2>. QED
    BY <1>3, <1>6, <2>1, <2>2, FS_PigeonHole
<1>8. Cardinality(Places) \in Nat
  BY <1>3, FS_CardinalityType
<1>. QED
  BY <1>1, <1>2, <1>3, <1>7, <1>8 DEF BoundedReentry

LEMMA FewCalls ==
  ASSUME NoPane \notin Panes, IsFiniteSet(Panes), PanesInv, NEW S, ReentryInv(S) \/ Late
  PROVE  BoundedReentry
<1>1. CASE Late
  <2>1. Cardinality(Live) \in Nat
    BY FS_Subset, FS_CardinalityType DEF Live
  <2>2. Len(stack) = 1
    BY <1>1, LateIsUnheard
  <2>. QED
    BY <2>1, <2>2 DEF BoundedReentry
<1>2. CASE ReentryInv(S)
  BY <1>2, FewCallsApart
<1>. QED
  BY <1>1, <1>2

==============================================================================
