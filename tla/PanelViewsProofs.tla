-------------------------- MODULE PanelViewsProofs --------------------------
(***************************************************************************)
(* Proofs about PanelViews, for behaviours with any number of mutations,   *)
(* over any set of keys whose components hold together (PanelAssumption).  *)
(***************************************************************************)
EXTENDS PanelViews, SequenceTheorems, TLAPS

-----------------------------------------------------------------------------
(* The invariant.                                                          *)

WellMounted == Sound(key, component)

\* The part of TypeOK that is about the screen.
ScreenOK ==
  /\ shown \subseteq Parts
  /\ \A c \in shown : Holders(c) \subseteq shown
  /\ \A c \in fading : c \in shown /\ Fades(c)
  /\ \A c, d \in shown : component[c].kind = "route" /\ component[d].kind = "route" => c = d

Entry(v) ==
  [ seen : 0..v, stale : BOOLEAN, fetch : {"idle", "asked", "read"},
    reading : 0..v, failed : BOOLEAN, raced : BOOLEAN ]

CountsOK ==
  /\ version \in Nat /\ acked \in 0..version /\ mishaps \in 0..MaxEvents
  /\ query \in Entry(version)

\* What an entry owes to the write a that was acknowledged last: ReadsOwnWrites,
\* and an answer on its way that was read before the write is known as such.
Serves(q, a) ==
  /\ Fresh(q) /\ q.seen < a => q.raced \/ q.failed \/ q.fetch # "idle"
  /\ q.fetch = "read" /\ q.reading < a => q.raced

Write ==
  [ by : Parts, act : UNION {DOMAIN component[c].acts : c \in Parts},
    live : SUBSET Parts, after : SUBSET Nat, server : {"waiting", "applied"},
    at : Nat, client : {"pending", "ok", "failed"} ]

WritesOK ==
  /\ writes \in Seq(Write)
  /\ \A i \in 1..Len(writes) :
       /\ writes[i].act \in DOMAIN component[writes[i].by].acts
       /\ writes[i].after \subseteq 1..(i - 1)
       /\ writes[i].at <= version

\* As long as the form that sent w is on the screen, so are the mounts that its
\* answer will look for.
Mounted(w) ==
  /\ w.live \subseteq shown
  /\ w.by \in w.live =>
       /\ ActOf(w).then = "closes" => component[w.by].on \in w.live
       /\ ActOf(w).guarded => Observer(w.by) \in w.live

\* Success has taken the form away, a dialog once it has faded out.
Closed(w) ==
  w.client = "ok" /\ ActOf(w).then = "closes" /\ ~ Fades(w.by) => w.by \notin w.live

Once(w) == ActOf(w).then = "closes" /\ <<w.by, w.act>> \notin Repeatable

\* A second submission is sent once the first, v, is settled.
Settled(v, c) == v.client = "failed" \/ (v.client = "ok" /\ Fades(c))

FormsOK ==
  \A j \in 1..Len(writes) :
    /\ Mounted(writes[j]) /\ Closed(writes[j])
    /\ Once(writes[j]) => \A i \in writes[j].after : Settled(writes[i], writes[j].by)

Inv ==
  /\ WellMounted /\ ScreenOK /\ CountsOK /\ Serves(query, acked) /\ WritesOK /\ FormsOK

-----------------------------------------------------------------------------
(* The operators on the entry of the cache.                                *)

\* Every operator on the entry returns an entry.
LEMMA EntriesStay ==
  ASSUME NEW v \in Nat, NEW q \in Entry(v), NEW parts, NEW act
  PROVE  /\ Asking(q) \in Entry(v) /\ Refetched(q) \in Entry(v)
         /\ AfterMount(q, parts) \in Entry(v) /\ AfterSuccess(q, act) \in Entry(v)
<1>1. ASSUME NEW r \in Entry(v) PROVE Asking(r) \in Entry(v)
  <2>1. ASSUME NEW e \in Entry(v) PROVE [e EXCEPT !.fetch = "asked"] \in Entry(v)
    BY DEF Entry
  <2>2. ASSUME NEW e \in Entry(v) PROVE [e EXCEPT !.reading = 0] \in Entry(v)
    BY DEF Entry
  <2>3. ASSUME NEW e \in Entry(v) PROVE [e EXCEPT !.raced = FALSE] \in Entry(v)
    BY DEF Entry
  <2> QED
    BY <2>1, <2>2, <2>3 DEF Asking
<1>2. ASSUME NEW r \in Entry(v) PROVE Refetched(r) \in Entry(v)
  <2>1. [r EXCEPT !.raced = TRUE] \in Entry(v)
    BY <1>2 DEF Entry
  <2> QED
    BY <1>1, <1>2, <2>1 DEF Refetched
<1>3. Invalidated(q) \in Entry(v)
  <2>1. [q EXCEPT !.stale = TRUE] \in Entry(v)
    BY DEF Entry
  <2>2. [[q EXCEPT !.stale = TRUE] EXCEPT !.raced = q.raced \/ q.fetch # "idle"] \in Entry(v)
    BY DEF Entry
  <2> QED
    BY <1>2, <2>1, <2>2 DEF Invalidated
<1>4. AfterMount(q, parts) \in Entry(v)
  BY <1>1 DEF AfterMount, OnMount
<1> QED
  BY <1>1, <1>2, <1>3, <1>4 DEF AfterSuccess

\* A fetch that starts, or an entry marked as raced or stale, serves any write.
LEMMA RefreshServes ==
  ASSUME NEW v \in Nat, NEW q \in Entry(v), NEW a \in Nat
  PROVE  Serves(Asking(q), a) /\ Serves(Refetched(q), a) /\ Serves(Invalidated(q), a)
<1>1. ASSUME NEW r \in Entry(v) PROVE Serves(Asking(r), a) /\ Serves(Refetched(r), a)
  <2>1. Serves(Asking(r), a)
    BY <1>1 DEF Asking, Entry, Serves
  <2>2. Serves([r EXCEPT !.raced = TRUE], a)
    BY <1>1 DEF Entry, Serves
  <2> QED
    BY <2>1, <2>2 DEF Refetched
<1>2. [q EXCEPT !.stale = TRUE] \in Entry(v)
  BY DEF Entry
<1>3. Serves([[q EXCEPT !.stale = TRUE] EXCEPT !.raced = q.raced \/ q.fetch # "idle"], a)
  BY DEF Entry, Serves, Fresh
<1>4. Serves(Invalidated(q), a)
  BY <1>1, <1>2, <1>3 DEF Invalidated
<1> QED
  BY <1>1, <1>4

\* What a component that mounts, or a success, leaves in the cache.
LEMMA OthersServe ==
  ASSUME NEW v \in Nat, NEW q \in Entry(v), NEW a \in Nat, NEW parts, NEW act
  PROVE  /\ Serves(q, a) => Serves(AfterMount(q, parts), a)
         /\ Serves(q, a) \/ act.refresh => Serves(AfterSuccess(q, act), a)
<1>1. Serves(q, a) => Serves(AfterMount(q, parts), a)
  BY RefreshServes DEF AfterMount, OnMount
<1> QED
  BY <1>1, RefreshServes DEF AfterSuccess

-----------------------------------------------------------------------------
(* How a step moves the screen.                                            *)

\* The components in "gone" take with them all that is mounted in them.
Branch(gone) ==
  /\ gone \subseteq shown
  /\ \A c \in shown : \A h \in Holders(c) : h \in gone => c \in gone

Moves(gone, arrived, closed) ==
  /\ Branch(gone) /\ arrived \subseteq Parts
  /\ \A c \in closed : c \in shown /\ Fades(c)
  /\ ScreenMoves(gone, arrived, closed)
  /\ \A c \in arrived :
       /\ Holders(c) \subseteq shown'
       /\ component[c].kind = "route" => shown' = {c}

\* What is mounted in a component, or in what is mounted in it.
LEMMA MountPoints ==
  ASSUME WellMounted, NEW c \in Parts
  PROVE  /\ component[c].kind # "route" =>
              component[c].on \in Holders(c) /\ component[c].on \in Parts
         /\ component[c].kind = "route" => Holders(c) = {}
         /\ c \notin Holders(c)
         /\ \A h \in Holders(c) : h \in Parts /\ Holders(h) \subseteq Holders(c)
<1>1. /\ component[c].on \in Parts \cup {""}
      /\ component[c].kind = "route" <=> component[c].on = ""
      /\ c \notin HoldersIn(component, c)
      /\ \A h \in HoldersIn(component, c) :
           HoldersIn(component, h) \subseteq HoldersIn(component, c)
  BY DEF WellMounted, Sound, Parts
<1>2. component[c].on # "" => component[component[c].on].on \in Parts \cup {""}
  BY <1>1 DEF WellMounted, Sound, Parts
<1> QED
  BY <1>1, <1>2 DEF Holders, HoldersIn

LEMMA Branches ==
  ASSUME WellMounted, ScreenOK
  PROVE  /\ Branch({}) /\ Branch(shown)
         /\ \A c : Branch(Within(c))
         /\ \A S : Branch(UNION {Within(c) : c \in S})
<1>1. ASSUME NEW c PROVE Branch(Within(c))
  <2> SUFFICES ASSUME NEW d \in shown, NEW h \in Holders(d), h \in Within(c)
               PROVE  d \in Within(c)
    BY DEF Branch, Within
  <2>1. h = c \/ c \in Holders(h)
    BY DEF Within
  <2>2. Holders(h) \subseteq Holders(d)
    BY MountPoints DEF ScreenOK
  <2> QED
    BY <2>1, <2>2 DEF Within
<1>2. ASSUME NEW S PROVE Branch(UNION {Within(c) : c \in S})
  BY <1>1 DEF Branch
<1> QED
  BY <1>1, <1>2 DEF Branch

LEMMA ScreenStays ==
  ASSUME WellMounted, ScreenOK, UNCHANGED key, NEW gone, NEW arrived, NEW closed,
         Moves(gone, arrived, closed)
  PROVE  ScreenOK'
<1>1. /\ Parts' = Parts /\ component' = component
      /\ \A c : Holders(c)' = Holders(c) /\ Fades(c)' = Fades(c)
  BY DEF component, Parts, Holders, Fades
<1>2. shown' \subseteq Parts
  BY DEF Moves, ScreenMoves, ScreenOK
<1>3. ASSUME NEW c \in shown' PROVE Holders(c) \subseteq shown'
  BY <1>3 DEF Moves, ScreenMoves, ScreenOK, Branch
<1>4. ASSUME NEW c \in shown', NEW d \in shown',
             component[c].kind = "route", component[d].kind = "route"
      PROVE  c = d
  BY <1>4 DEF Moves, ScreenMoves, ScreenOK
<1>5. ASSUME NEW c \in fading' PROVE c \in shown' /\ Fades(c)
  BY <1>5 DEF Moves, ScreenMoves, ScreenOK
<1> QED
  BY <1>1, <1>2, <1>3, <1>4, <1>5 DEF ScreenOK

-----------------------------------------------------------------------------
(* The steps that move the screen.                                         *)

LEMMA VisitMoves ==
  ASSUME NEW p \in Parts, WellMounted, ScreenOK, Visit(p)
  PROVE  Moves(shown, {p}, {})
BY Branches, MountPoints DEF Moves, ScreenMoves, Visit

LEMMA GoElsewhereMoves ==
  ASSUME WellMounted, ScreenOK, GoElsewhere
  PROVE  Moves(shown, {}, {})
BY Branches DEF Moves, ScreenMoves, GoElsewhere

\* The tabs of what c is mounted in, with all they hold.
Beside(c) ==
  UNION {Within(d) : d \in {e \in shown : component[e].kind = "tab"
                                          /\ component[e].on = component[c].on}}

LEMMA ChooseTabMoves ==
  ASSUME NEW c \in Parts, WellMounted, ScreenOK, ChooseTab(c)
  PROVE  Moves(Beside(c), {c}, {})
<1>1. Branch(Beside(c))
  BY Branches DEF Beside
<1>2. ScreenMoves(Beside(c), {c}, {}) /\ shown' = (shown \ Beside(c)) \cup {c}
  BY DEF ChooseTab, Beside, ScreenMoves
<1>3. /\ component[c].kind # "route" /\ component[c].on \in shown
      /\ Holders(c) \subseteq {component[c].on} \cup Holders(component[c].on)
  BY MountPoints DEF ChooseTab, Holders, HoldersIn
<1>4. Holders(c) \subseteq shown
  BY <1>3 DEF ScreenOK
<1>5. ASSUME NEW h \in Holders(c), NEW d \in shown, component[d].kind = "tab",
             component[d].on = component[c].on, h \in Within(d)
      PROVE  FALSE
  <2>1. d \in Holders(c)
    BY <1>5, MountPoints DEF Within
  <2>2. Holders(d) = Holders(c)
    BY <1>5 DEF Holders, HoldersIn
  <2>3. d \notin Holders(d)
    BY MountPoints DEF ScreenOK
  <2> QED
    BY <2>1, <2>2, <2>3
<1>6. Holders(c) \subseteq shown'
  BY <1>2, <1>4, <1>5 DEF Beside
<1> QED
  BY <1>1, <1>2, <1>3, <1>6 DEF Moves

LEMMA OpenMoves ==
  ASSUME NEW c \in Parts, WellMounted, ScreenOK, Open(c)
  PROVE  Moves({}, {c}, {})
<1>1. /\ component[c].kind # "route" /\ component[c].on \in shown
      /\ Holders(c) \subseteq {component[c].on} \cup Holders(component[c].on)
  BY MountPoints DEF Open, Holders, HoldersIn
<1>2. Holders(c) \subseteq shown
  BY <1>1 DEF ScreenOK
<1> QED
  BY <1>1, <1>2, Branches DEF Moves, ScreenMoves, Open

\* What closing c unmounts is a branch, and what fades is a dialog.
LEMMA Closing ==
  ASSUME WellMounted, ScreenOK, NEW c
  PROVE  Branch(UnmountedBy(c)) /\ \A d \in FadingBy(c) : d \in shown /\ Fades(d)
BY Branches DEF UnmountedBy, FadingBy

LEMMA CancelMoves ==
  ASSUME NEW c \in Parts, WellMounted, ScreenOK, Cancel(c)
  PROVE  Moves(UnmountedBy(c), {}, FadingBy(c))
BY Closing DEF Moves, Cancel

LEMMA FadeOutMoves ==
  ASSUME NEW c \in Parts, WellMounted, ScreenOK, FadeOut(c)
  PROVE  Moves(Within(c), {}, {})
BY Branches DEF Moves, FadeOut

LEMMA StandingStill ==
  ASSUME WellMounted, ScreenOK, UNCHANGED screen
  PROVE  Moves({}, {}, {})
BY Branches DEF Moves, ScreenMoves, screen

\* Where the answer to a mutation leaves the user.
LEMMA SucceedMoves ==
  ASSUME NEW i \in 1..Len(writes), WellMounted, ScreenOK, WritesOK, Succeed(i)
  PROVE  Moves(GoneBy(writes[i]), ArrivedBy(writes[i]), ClosedBy(writes[i]))
<1> DEFINE w == writes[i]
<1>1. w.by \in Parts /\ w.act \in DOMAIN component[w.by].acts
  <2>1. w \in Write
    BY ElementOfSeq DEF WritesOK
  <2> QED
    BY <2>1 DEF WritesOK, Write
<1>2. ActOf(w).then \in Parts => component[ActOf(w).then].kind = "route"
  <2>1. \A c \in Parts : \A a \in DOMAIN component[c].acts :
          component[c].acts[a].then \in Parts
            => component[component[c].acts[a].then].kind = "route"
    BY DEF WellMounted, Sound, Parts
  <2> QED
    BY <1>1, <2>1 DEF ActOf
<1>3. ScreenMoves(GoneBy(w), ArrivedBy(w), ClosedBy(w))
  BY DEF Succeed, Succeeded
<1>4. Branch(GoneBy(w)) /\ \A c \in ClosedBy(w) : c \in shown /\ Fades(c)
  BY Branches, Closing DEF GoneBy, ClosedBy
<1>5. ASSUME NEW c \in ArrivedBy(w)
      PROVE  c \in Parts /\ Holders(c) = {} /\ shown' = {c}
  BY <1>2, <1>3, <1>5, MountPoints DEF ArrivedBy, GoneBy, ScreenMoves
<1> QED
  BY <1>3, <1>4, <1>5 DEF Moves

-----------------------------------------------------------------------------
(* How a step rewrites the mutations that were sent.                       *)

\* Components of "gone" unmount, the request may have been applied and the answer
\* may have arrived.
Rewritten(gone) ==
  /\ writes' \in Seq(Write) /\ Len(writes') = Len(writes)
  /\ \A i \in 1..Len(writes) :
       /\ writes'[i].by = writes[i].by /\ writes'[i].act = writes[i].act
       /\ writes'[i].after = writes[i].after
       /\ writes'[i].live = writes[i].live \ gone
       /\ writes'[i].at <= version'
       /\ writes[i].client # "pending" => writes'[i].client = writes[i].client

LEMMA Fields ==
  ASSUME WritesOK, NEW i \in 1..Len(writes)
  PROVE  /\ writes[i] \in Write /\ writes[i].by \in Parts
         /\ writes[i].act \in DOMAIN component[writes[i].by].acts
         /\ writes[i].live \subseteq Parts
         /\ writes[i].after \subseteq 1..(i - 1) /\ writes[i].at \in Nat
         /\ writes[i].at <= version
         /\ writes[i].client \in {"pending", "ok", "failed"}
<1>1. writes[i] \in Write
  BY ElementOfSeq DEF WritesOK
<1> QED
  BY <1>1 DEF WritesOK, Write

LEMMA WritesStay ==
  ASSUME WritesOK, UNCHANGED key, NEW gone, Rewritten(gone)
  PROVE  WritesOK'
<1>1. Write' = Write /\ component' = component
  BY DEF Write, Parts, component
<1>2. writes' \in Seq(Write') /\ Len(writes') = Len(writes)
  BY <1>1 DEF Rewritten
<1>3. ASSUME NEW i \in 1..Len(writes)
      PROVE  /\ writes'[i].act \in DOMAIN component[writes'[i].by].acts
             /\ writes'[i].after \subseteq 1..(i - 1)
             /\ writes'[i].at <= version'
  BY <1>3, Fields DEF Rewritten
<1> QED
  BY <1>1, <1>2, <1>3 DEF WritesOK

\* A form keeps the mounts its answer looks for as long as it is there itself, and
\* what was sent again stays so only where the first was settled.
LEMMA FormsStay ==
  ASSUME Inv, UNCHANGED key, NEW gone, NEW arrived, NEW closed,
         Moves(gone, arrived, closed), Rewritten(gone),
         \A i \in 1..Len(writes) :
           writes'[i].client = "ok" =>
             \/ writes[i].client = "ok"
             \/ ActOf(writes[i]).then = "closes" /\ ~ Fades(writes[i].by)
                  => writes[i].by \notin writes[i].live \ gone
  PROVE  FormsOK'
<1>1. component' = component
  BY DEF component
<1> SUFFICES ASSUME NEW j \in 1..Len(writes)
             PROVE  /\ Mounted(writes[j])' /\ Closed(writes[j])'
                    /\ Once(writes[j])' => \A i \in writes'[j].after :
                                              Settled(writes'[i], writes'[j].by)
  <2>1. \A v, c : Settled(v, c) <=> v.client = "failed" \/ (v.client = "ok" /\ Fades(c)')
    BY <1>1 DEF Settled, Fades
  <2>2. FormsOK' <=> \A j \in 1..Len(writes') :
          /\ Mounted(writes[j])' /\ Closed(writes[j])'
          /\ Once(writes[j])' => \A i \in writes'[j].after :
                                    Settled(writes'[i], writes'[j].by)
    BY <2>1 DEF FormsOK, Settled
  <2> QED
    BY <2>2 DEF Rewritten
<1> DEFINE w == writes[j]
           x == writes'[j]
<1>2. /\ x.by = w.by /\ x.act = w.act /\ x.after = w.after /\ x.live = w.live \ gone
      /\ w.by \in Parts /\ w.act \in DOMAIN component[w.by].acts
      /\ w.after \subseteq 1..(j - 1)
  BY Fields DEF Rewritten, Inv
<1>3. Mounted(w) /\ Closed(w) /\ (Once(w) => \A i \in w.after : Settled(writes[i], w.by))
  BY DEF Inv, FormsOK
<1>4. x.live \subseteq shown'
  BY <1>2, <1>3 DEF Mounted, Moves, ScreenMoves
<1>5. ASSUME x.by \in x.live
      PROVE  /\ ActOf(w).then = "closes" => component[w.by].on \in x.live
             /\ ActOf(w).guarded => Observer(w.by) \in x.live
  <2>1. w.by \in w.live /\ w.by \in shown /\ w.by \notin gone
    BY <1>2, <1>3, <1>5 DEF Mounted
  <2>2. ASSUME component[w.by].kind # "route" PROVE component[w.by].on \notin gone
    BY <1>2, <2>1, <2>2, MountPoints DEF Moves, Branch, Inv
  <2>3. ActOf(w).then = "closes" => component[w.by].kind # "route"
    BY <1>2 DEF Inv, WellMounted, Sound, Parts, ActOf
  <2>4. Observer(w.by) \notin gone
    BY <2>1, <2>2 DEF Observer
  <2> QED
    BY <1>2, <1>3, <2>1, <2>2, <2>3, <2>4 DEF Mounted
<1>6. Mounted(writes[j])'
  BY <1>1, <1>2, <1>4, <1>5 DEF Mounted, ActOf, Observer
<1>7. Closed(writes[j])'
  BY <1>1, <1>2, <1>3 DEF Closed, ActOf, Fades
<1>8. Once(writes[j])' => Once(w)
  BY <1>1, <1>2 DEF Once, ActOf
<1>9. \A i \in w.after : Settled(writes[i], w.by) => Settled(writes'[i], x.by)
  BY <1>2 DEF Rewritten, Settled
<1> QED
  BY <1>2, <1>3, <1>6, <1>7, <1>8, <1>9

\* The writes once the components of "gone" have left.
LEMMA UnmountedWrites ==
  ASSUME WritesOK, NEW gone
  PROVE  /\ Unmounting(gone) \in Seq(Write) /\ Len(Unmounting(gone)) = Len(writes)
         /\ \A i \in 1..Len(writes) :
              Unmounting(gone)[i] = [writes[i] EXCEPT !.live = @ \ gone]
<1>1. ASSUME NEW w \in Write PROVE [w EXCEPT !.live = @ \ gone] \in Write
  BY DEF Write
<1>2. Len(writes) \in Nat
  BY LenProperties DEF WritesOK
<1> DEFINE left(i) == [writes[i] EXCEPT !.live = @ \ gone]
<1>3. \A i \in 1..Len(writes) : left(i) \in Write
  BY <1>1, Fields
<1> HIDE DEF left
<1>4. [i \in 1..Len(writes) |-> left(i)] \in Seq(Write)
  BY <1>2, <1>3, IsASeq
<1> QED
  BY <1>2, <1>4, LenProperties DEF Unmounting, left

\* What an answer, and what the server, does to the i-th write.
Answering(before, i, c) == [before EXCEPT ![i].client = c, ![i].at = 0]

\* A write whose answer has come is still one.
LEMMA AnsweredWrite ==
  ASSUME NEW before \in Seq(Write), NEW i \in 1..Len(before), NEW c \in {"ok", "failed"}
  PROVE  LET next == Answering(before, i, c) IN
         /\ next \in Seq(Write) /\ Len(next) = Len(before)
         /\ \A k \in 1..Len(before) : k # i => next[k] = before[k]
         /\ next[i].by = before[i].by /\ next[i].act = before[i].act
         /\ next[i].live = before[i].live /\ next[i].after = before[i].after
         /\ next[i].client = c /\ next[i].at = 0
<1> DEFINE w == [before[i] EXCEPT !.client = c, !.at = 0]
<1>1. before[i] \in Write
  BY ElementOfSeq
<1>2. w \in Write
  <2>1. [before[i] EXCEPT !.client = c] \in Write
    BY <1>1 DEF Write
  <2>2. \A x \in Write : [x EXCEPT !.at = 0] \in Write
    BY DEF Write
  <2> QED
    BY <2>1, <2>2
<1>3. /\ w.by = before[i].by /\ w.act = before[i].act /\ w.live = before[i].live
      /\ w.after = before[i].after
      /\ w.client = c /\ w.at = 0
  BY <1>1 DEF Write
<1>4. Answering(before, i, c) = [before EXCEPT ![i] = w]
  BY DEF Answering
<1> HIDE DEF w
<1> QED
  BY <1>2, <1>3, <1>4, ExceptSeq

Applying(before, i, v) == [before EXCEPT ![i].server = "applied", ![i].at = v]

\* So is one whose request was applied.
LEMMA AppliedWrite ==
  ASSUME NEW before \in Seq(Write), NEW i \in 1..Len(before), NEW v \in Nat
  PROVE  LET next == Applying(before, i, v) IN
         /\ next \in Seq(Write) /\ Len(next) = Len(before)
         /\ \A k \in 1..Len(before) : k # i => next[k] = before[k]
         /\ next[i].by = before[i].by /\ next[i].act = before[i].act
         /\ next[i].live = before[i].live /\ next[i].after = before[i].after
         /\ next[i].client = before[i].client /\ next[i].at = v
<1> DEFINE w == [before[i] EXCEPT !.server = "applied", !.at = v]
<1>1. before[i] \in Write
  BY ElementOfSeq
<1>2. w \in Write
  <2>1. [before[i] EXCEPT !.server = "applied"] \in Write
    BY <1>1 DEF Write
  <2>2. \A x \in Write : [x EXCEPT !.at = v] \in Write
    BY DEF Write
  <2> QED
    BY <2>1, <2>2
<1>3. /\ w.by = before[i].by /\ w.act = before[i].act /\ w.live = before[i].live
      /\ w.after = before[i].after
      /\ w.client = before[i].client /\ w.at = v
  BY <1>1 DEF Write
<1>4. Applying(before, i, v) = [before EXCEPT ![i] = w]
  BY DEF Applying
<1> HIDE DEF w
<1> QED
  BY <1>2, <1>3, <1>4, ExceptSeq

-----------------------------------------------------------------------------
(* The steps, one after the other.                                         *)

\* What a step that keeps the list of mutations has to show.
LEMMA InvStays ==
  ASSUME Inv, UNCHANGED key, NEW gone, NEW arrived, NEW closed,
         Moves(gone, arrived, closed), Rewritten(gone),
         \A i \in 1..Len(writes) :
           writes'[i].client = "ok" =>
             \/ writes[i].client = "ok"
             \/ ActOf(writes[i]).then = "closes" /\ ~ Fades(writes[i].by)
                  => writes[i].by \notin writes[i].live \ gone,
         CountsOK', Serves(query', acked')
  PROVE  Inv'
<1>1. WellMounted'
  BY DEF Inv, WellMounted, component
<1>2. ScreenOK'
  BY ScreenStays DEF Inv
<1>3. WritesOK'
  BY WritesStay DEF Inv
<1>4. FormsOK'
  BY FormsStay
<1> QED
  BY <1>1, <1>2, <1>3, <1>4 DEF Inv

LEMMA WritesLeftAlone ==
  ASSUME Inv, CountsOK', UNCHANGED <<key, writes>>, version' >= version
  PROVE  Rewritten({}) /\ \A i \in 1..Len(writes) : writes'[i].client = writes[i].client
<1>1. \A i \in 1..Len(writes) : writes'[i].at <= version'
  BY Fields DEF Inv, CountsOK
<1> QED
  BY <1>1 DEF Rewritten, Inv, WritesOK

LEMMA WritesUnmounted ==
  ASSUME Inv, UNCHANGED <<key, version>>, NEW gone, writes' = Unmounting(gone)
  PROVE  Rewritten(gone) /\ \A i \in 1..Len(writes) : writes'[i].client = writes[i].client
<1>1. ASSUME NEW i \in 1..Len(writes)
      PROVE  /\ writes'[i].by = writes[i].by /\ writes'[i].act = writes[i].act
             /\ writes'[i].after = writes[i].after
             /\ writes'[i].live = writes[i].live \ gone
             /\ writes'[i].at = writes[i].at /\ writes'[i].client = writes[i].client
  <2>1. writes[i] \in Write /\ writes'[i] = [writes[i] EXCEPT !.live = @ \ gone]
    BY <1>1, Fields, UnmountedWrites DEF Inv
  <2> QED
    BY <2>1 DEF Write
<1>2. writes' \in Seq(Write) /\ Len(writes') = Len(writes)
  BY UnmountedWrites DEF Inv
<1>3. \A i \in 1..Len(writes) : writes[i].at <= version'
  BY Fields DEF Inv
<1> QED
  BY <1>1, <1>2, <1>3 DEF Rewritten

\* A step of the user's that moves the screen and sends nothing.
LEMMA LookingAround ==
  ASSUME Inv, NEW gone, NEW arrived, NEW closed, NEW parts, Moves(gone, arrived, closed),
         writes' = Unmounting(gone), query' = AfterMount(query, parts) \/ query' = query,
         UNCHANGED <<key, version, acked, mishaps>>
  PROVE  Inv'
<1>1. query' \in Entry(version) /\ Serves(query', acked')
  BY EntriesStay, OthersServe DEF Inv, CountsOK
<1>2. CountsOK'
  BY <1>1 DEF Inv, CountsOK
<1> QED
  BY <1>1, <1>2, WritesUnmounted, InvStays

LEMMA VisitStep ==
  ASSUME Inv, NEW p \in Parts, Visit(p)  PROVE Inv'
<1>1. Moves(shown, {p}, {})
  BY VisitMoves DEF Inv
<1> QED
  BY <1>1, LookingAround DEF Visit

LEMMA GoElsewhereStep ==
  ASSUME Inv, GoElsewhere  PROVE Inv'
<1>1. Moves(shown, {}, {})
  BY GoElsewhereMoves DEF Inv
<1> QED
  BY <1>1, LookingAround DEF GoElsewhere

LEMMA ChooseTabStep ==
  ASSUME Inv, NEW c \in Parts, ChooseTab(c)  PROVE Inv'
<1>1. Moves(Beside(c), {c}, {})
  BY ChooseTabMoves DEF Inv
<1>2. writes' = Unmounting(Beside(c))
  BY DEF ChooseTab, Beside
<1> QED
  BY <1>1, <1>2, LookingAround DEF ChooseTab

LEMMA CancelStep ==
  ASSUME Inv, NEW c \in Parts, Cancel(c)  PROVE Inv'
<1>1. Moves(UnmountedBy(c), {}, FadingBy(c))
  BY CancelMoves DEF Inv
<1> QED
  BY <1>1, LookingAround DEF Cancel

LEMMA FadeOutStep ==
  ASSUME Inv, NEW c \in Parts, FadeOut(c)  PROVE Inv'
<1>1. Moves(Within(c), {}, {})
  BY FadeOutMoves DEF Inv
<1> QED
  BY <1>1, LookingAround DEF FadeOut

\* A step that sends nothing and unmounts nothing.
LEMMA StandingStep ==
  ASSUME Inv, NEW arrived, Moves({}, arrived, {}), UNCHANGED <<key, writes>>,
         version' >= version, CountsOK', Serves(query', acked')
  PROVE  Inv'
<1>1. Rewritten({}) /\ \A i \in 1..Len(writes) : writes'[i].client = writes[i].client
  BY WritesLeftAlone
<1> QED
  BY <1>1, InvStays

LEMMA OpenStep ==
  ASSUME Inv, NEW c \in Parts, Open(c)  PROVE Inv'
<1>1. Moves({}, {c}, {})
  BY OpenMoves DEF Inv
<1>2. CountsOK' /\ Serves(query', acked') /\ version' >= version
  BY DEF Open, Inv, CountsOK
<1> QED
  BY <1>1, <1>2, StandingStep DEF Open

LEMMA FetchStep ==
  ASSUME Inv,
         Poll \/ Focus \/ PressRefetch \/ ServerReads \/ Arrive \/ FetchFails \/ GoStale
  PROVE  Inv'
<1>1. UNCHANGED <<key, screen, version, writes, acked>>
  BY DEF Poll, Focus, PressRefetch, ServerReads, Arrive, FetchFails, GoStale
<1>2. query' \in Entry(version) /\ Serves(query', acked)
  <2>1. CASE Poll \/ Focus \/ PressRefetch
    BY <2>1, EntriesStay, RefreshServes DEF Poll, Focus, PressRefetch, Inv, CountsOK
  <2>2. CASE ServerReads
    <3>1. query' = [ seen |-> query.seen, stale |-> query.stale, fetch |-> "read",
                     reading |-> version, failed |-> query.failed, raced |-> query.raced ]
      BY <2>2 DEF ServerReads, Inv, CountsOK, Entry
    <3> QED
      BY <3>1 DEF Inv, CountsOK, Entry, Serves
  <2>3. CASE Arrive
    <3>1. query' = [ seen |-> query.reading, stale |-> FALSE, fetch |-> "idle",
                     reading |-> 0, failed |-> FALSE, raced |-> query.raced ]
      BY <2>3 DEF Arrive, Inv, CountsOK, Entry
    <3>2. query.fetch = "read"
      BY <2>3 DEF Arrive
    <3> QED
      BY <3>1, <3>2 DEF Inv, CountsOK, Entry, Serves
  <2>4. CASE FetchFails
    <3>1. query' = [ seen |-> query.seen, stale |-> query.stale, fetch |-> "idle",
                     reading |-> 0, failed |-> TRUE, raced |-> query.raced ]
      BY <2>4 DEF FetchFails, Inv, CountsOK, Entry
    <3> QED
      BY <3>1 DEF Inv, CountsOK, Entry, Serves
  <2>5. CASE GoStale
    BY <2>5 DEF GoStale, Inv, CountsOK, Entry, Serves, Fresh
  <2> QED
    BY <2>1, <2>2, <2>3, <2>4, <2>5
<1>3. mishaps' \in 0..MaxEvents
  <2>1. CASE FetchFails
    <3>1. Len(writes) \in Nat
      BY LenProperties DEF Inv, WritesOK
    <3> QED
      BY <2>1, <3>1, EventsAssumption DEF FetchFails, MoreEvents, Inv, CountsOK
  <2>2. CASE ~ FetchFails
    BY <2>2 DEF Poll, Focus, PressRefetch, ServerReads, Arrive, GoStale, Inv, CountsOK
  <2> QED
    BY <2>1, <2>2
<1>4. Moves({}, {}, {})
  BY <1>1, StandingStill DEF Inv
<1>5. CountsOK' /\ version' >= version
  BY <1>1, <1>2, <1>3 DEF Inv, CountsOK
<1> QED
  BY <1>1, <1>2, <1>4, <1>5, StandingStep

\* What a change on the server does not disturb.
LEMMA VersionsGrow ==
  ASSUME CountsOK, Serves(query, acked), UNCHANGED <<query, acked>>,
         version' \in Nat, version' >= version, mishaps' \in 0..MaxEvents
  PROVE  CountsOK' /\ Serves(query', acked')
BY DEF CountsOK, Entry

LEMMA OthersChangeStep ==
  ASSUME Inv, OthersChange  PROVE Inv'
<1>1. Len(writes) \in Nat
  BY LenProperties DEF Inv, WritesOK
<1>2. version' \in Nat /\ version' >= version /\ mishaps' \in 0..MaxEvents
  BY <1>1, EventsAssumption DEF OthersChange, MoreEvents, Inv, CountsOK
<1>3. CountsOK' /\ Serves(query', acked')
  BY <1>2, VersionsGrow DEF OthersChange, Inv
<1>4. Moves({}, {}, {})
  BY StandingStill DEF OthersChange, Inv
<1> QED
  BY <1>2, <1>3, <1>4, StandingStep DEF OthersChange

LEMMA ApplyStep ==
  ASSUME Inv, NEW i \in 1..Len(writes), Apply(i)  PROVE Inv'
<1>1. version' \in Nat /\ version' >= version /\ mishaps' \in 0..MaxEvents
  BY DEF Apply, Inv, CountsOK
<1>2. CountsOK' /\ Serves(query', acked')
  BY <1>1, VersionsGrow DEF Apply, Inv
<1> DEFINE v == IF writes[i].client = "pending" THEN version' ELSE 0
<1>3. v \in 0..version' /\ writes' = Applying(writes, i, v)
  BY <1>1 DEF Apply, Applying
<1> HIDE DEF v
<1>4. v \in Nat /\ writes \in Seq(Write)
  BY <1>1, <1>3 DEF Inv, WritesOK
<1>5. /\ writes' \in Seq(Write) /\ Len(writes') = Len(writes)
      /\ \A k \in 1..Len(writes) : k # i => writes'[k] = writes[k]
  BY <1>3, <1>4, AppliedWrite
<1>6. /\ writes'[i].by = writes[i].by /\ writes'[i].act = writes[i].act
      /\ writes'[i].after = writes[i].after /\ writes'[i].live = writes[i].live
      /\ writes'[i].at <= version' /\ writes'[i].client = writes[i].client
  BY <1>1, <1>3, <1>4, AppliedWrite
<1>7. \A k \in 1..Len(writes) : writes[k].at <= version'
  BY <1>1, Fields DEF Inv, CountsOK
<1>8. Rewritten({}) /\ \A k \in 1..Len(writes) : writes'[k].client = writes[k].client
  BY <1>5, <1>6, <1>7 DEF Rewritten
<1>9. Moves({}, {}, {}) /\ UNCHANGED key
  BY StandingStill DEF Apply, Inv
<1> QED
  BY <1>2, <1>8, <1>9, InvStays

LEMMA FailStep ==
  ASSUME Inv, NEW i \in 1..Len(writes), Fail(i)  PROVE Inv'
<1>1. CountsOK' /\ Serves(query', acked')
  BY DEF Fail, Inv, CountsOK
<1>2. writes \in Seq(Write) /\ writes' = Answering(writes, i, "failed")
  BY DEF Fail, Answering, Inv, WritesOK
<1>3. /\ writes' \in Seq(Write) /\ Len(writes') = Len(writes)
      /\ \A k \in 1..Len(writes) : k # i => writes'[k] = writes[k]
  <2>1. Answering(writes, i, "failed") \in Seq(Write)
    BY <1>2, AnsweredWrite
  <2>2. Len(Answering(writes, i, "failed")) = Len(writes)
    BY <1>2, AnsweredWrite
  <2>3. \A k \in 1..Len(writes) : k # i => Answering(writes, i, "failed")[k] = writes[k]
    BY <1>2, AnsweredWrite
  <2> QED
    BY <1>2, <2>1, <2>2, <2>3
<1>4. /\ writes'[i].by = writes[i].by /\ writes'[i].act = writes[i].act
      /\ writes'[i].after = writes[i].after /\ writes'[i].live = writes[i].live
      /\ writes'[i].at = 0 /\ writes'[i].client = "failed"
  BY <1>2, AnsweredWrite
<1>5. \A k \in 1..Len(writes) : writes[k].at <= version'
  BY Fields DEF Fail, Inv
<1>6. Rewritten({})
  BY <1>3, <1>4, <1>5 DEF Rewritten, Fail, Inv, CountsOK
<1>7. \A k \in 1..Len(writes) : writes'[k].client = "ok" => writes[k].client = "ok"
  BY <1>3, <1>4
<1>8. Moves({}, {}, {}) /\ UNCHANGED key
  BY StandingStill DEF Fail, Inv
<1> QED
  BY <1>1, <1>6, <1>7, <1>8, InvStays

\* What a success refreshes in the cache, and what it acknowledges.
LEMMA SuccessServes ==
  ASSUME Inv, NEW i \in 1..Len(writes), Succeed(i)
  PROVE  CountsOK' /\ Serves(query', acked')
<1> DEFINE w == writes[i]
           done == AfterSuccess(query, ActOf(w))
           told == Changes(w) /\ <<w.by, w.act, key>> \notin Overlooked
<1>1. /\ UNCHANGED <<version, mishaps>>
      /\ query' = AfterMount(done, ArrivedBy(w))
      /\ acked' = acked \/ (told /\ acked' = w.at)
  BY DEF Succeed, Succeeded
<1>2. w.by \in Parts /\ w.act \in DOMAIN component[w.by].acts /\ w.at \in 0..version
  BY Fields DEF Inv, CountsOK
<1>3. told => ActOf(w).refresh
  BY <1>2 DEF Changes, ActOf, Inv, WellMounted, Sound, Parts
<1>4. query \in Entry(version) /\ version \in Nat /\ acked \in 0..version /\ mishaps \in 0..MaxEvents
  BY DEF Inv, CountsOK
<1>5. acked' \in 0..version
  BY <1>1, <1>2, <1>4
<1>6. done \in Entry(version)
  BY <1>4, EntriesStay
<1>7. Serves(done, acked')
  <2>1. CASE acked' = acked
    BY <2>1, <1>4, OthersServe DEF Inv
  <2>2. CASE told
    BY <2>2, <1>3, <1>4, <1>5, OthersServe
  <2> QED
    BY <1>1, <2>1, <2>2
<1> HIDE DEF done, told
<1>8. query' \in Entry(version) /\ Serves(query', acked')
  BY <1>1, <1>4, <1>5, <1>6, <1>7, EntriesStay, OthersServe
<1> QED
  BY <1>1, <1>4, <1>5, <1>8 DEF CountsOK

LEMMA SucceedStep ==
  ASSUME Inv, NEW i \in 1..Len(writes), Succeed(i)  PROVE Inv'
<1> DEFINE gone == GoneBy(writes[i])
           left == Unmounting(gone)
<1>1. UNCHANGED <<key, version>> /\ writes' = Answering(left, i, "ok")
  BY DEF Succeed, Succeeded, Answering
<1>2. /\ left \in Seq(Write) /\ Len(left) = Len(writes)
      /\ \A k \in 1..Len(writes) : left[k] = [writes[k] EXCEPT !.live = @ \ gone]
  BY UnmountedWrites DEF Inv
<1>3. ASSUME NEW k \in 1..Len(writes)
      PROVE  /\ left[k].by = writes[k].by /\ left[k].act = writes[k].act
             /\ left[k].after = writes[k].after /\ left[k].live = writes[k].live \ gone
             /\ left[k].at = writes[k].at /\ left[k].client = writes[k].client
  <2>1. writes[k] \in Write
    BY Fields DEF Inv
  <2> QED
    BY <1>2, <2>1 DEF Write
<1> HIDE DEF left
<1>4. i \in 1..Len(left) /\ "ok" \in {"ok", "failed"}
  BY <1>2
<1>5. /\ writes' \in Seq(Write)
      /\ Len(writes') = Len(writes)
  <2>1. Answering(left, i, "ok") \in Seq(Write)
    BY <1>2, <1>4, AnsweredWrite
  <2>2. Len(Answering(left, i, "ok")) = Len(left)
    BY <1>2, <1>4, AnsweredWrite
  <2> QED
    BY <1>1, <1>2, <2>1, <2>2
<1>6. \A k \in 1..Len(writes) : k # i => writes'[k] = left[k]
  <2>1. \A k \in 1..Len(left) : k # i => Answering(left, i, "ok")[k] = left[k]
    BY <1>2, <1>4, AnsweredWrite
  <2> QED
    BY <1>1, <1>2, <2>1
<1>7. /\ writes'[i].by = left[i].by /\ writes'[i].act = left[i].act
      /\ writes'[i].after = left[i].after /\ writes'[i].live = left[i].live
      /\ writes'[i].at = 0 /\ writes'[i].client = "ok"
  BY <1>1, <1>2, <1>4, AnsweredWrite
<1>8. writes[i].client = "pending"
  BY DEF Succeed, Succeeded
<1>9. \A k \in 1..Len(writes) : writes[k].at <= version'
  BY <1>1, Fields DEF Inv
<1>10. Rewritten(gone)
  <2>1. version \in Nat
    BY DEF Inv, CountsOK
  <2> QED
    BY <1>1, <1>3, <1>5, <1>6, <1>7, <1>8, <1>9, <2>1 DEF Rewritten
<1>11. ActOf(writes[i]).then = "closes" /\ ~ Fades(writes[i].by)
         => writes[i].by \notin writes[i].live \ gone
  <2> SUFFICES ASSUME ActOf(writes[i]).then = "closes", ~ Fades(writes[i].by),
                      writes[i].by \in writes[i].live
               PROVE  writes[i].by \in gone
    OBVIOUS
  <2>1. component[writes[i].by].on \in writes[i].live /\ writes[i].by \in shown
    BY DEF Inv, FormsOK, Mounted
  <2> QED
    BY <2>1 DEF GoneBy, Leaves, Closes, UnmountedBy, Within
<1>12. Moves(gone, ArrivedBy(writes[i]), ClosedBy(writes[i]))
  BY SucceedMoves DEF Inv
<1>13. CountsOK' /\ Serves(query', acked')
  BY SuccessServes
<1>14. \A k \in 1..Len(writes) :
         writes'[k].client = "ok" =>
           \/ writes[k].client = "ok"
           \/ ActOf(writes[k]).then = "closes" /\ ~ Fades(writes[k].by)
                => writes[k].by \notin writes[k].live \ gone
  BY <1>3, <1>6, <1>11
<1> HIDE DEF gone
<1> QED
  BY <1>1, <1>10, <1>12, <1>13, <1>14, InvStays

\* The write that Send appends.
Sent(c, a) ==
  [ by |-> c, act |-> a, live |-> LookedFor(c, component[c].acts[a]), after |-> Earlier(c, a),
    server |-> "waiting", at |-> 0, client |-> "pending" ]

LEMMA SentIsMounted ==
  ASSUME Inv, NEW c \in Parts, NEW a \in DOMAIN component[c].acts, Send(c, a)
  PROVE  /\ Sent(c, a) \in Write /\ Earlier(c, a) \subseteq 1..Len(writes)
         /\ Mounted(Sent(c, a)) /\ Closed(Sent(c, a))
<1> DEFINE act == component[c].acts[a]
<1>1. c \in shown /\ Holders(c) \subseteq shown /\ shown \subseteq Parts
  BY DEF Send, Submitted, Inv, ScreenOK
<1>2. component[c].kind # "route" => component[c].on \in shown
  BY <1>1, MountPoints DEF Inv
<1>3. act.then = "closes" => component[c].kind # "route"
  BY DEF Inv, WellMounted, Sound, Parts
<1>4. Observer(c) \in shown
  BY <1>1, <1>2 DEF Observer
<1>5. LookedFor(c, act) \subseteq shown
  BY <1>1, <1>2, <1>3, <1>4 DEF LookedFor
<1>6. Earlier(c, a) \subseteq 1..Len(writes) /\ 1..Len(writes) \subseteq Nat
  <2>1. Len(writes) \in Nat
    BY LenProperties DEF Inv, WritesOK
  <2> QED
    BY <2>1 DEF Earlier
<1>7. Sent(c, a) \in Write
  BY <1>1, <1>5, <1>6 DEF Sent, Write
<1>8. ActOf(Sent(c, a)) = act
  BY DEF ActOf, Sent
<1>9. Mounted(Sent(c, a))
  BY <1>5, <1>8 DEF Mounted, Sent, LookedFor
<1>10. Closed(Sent(c, a))
  BY DEF Closed, Sent
<1> QED
  BY <1>6, <1>7, <1>9, <1>10

\* A guarded form that is still there and has a write sent before: that one failed,
\* or succeeded in a dialog that fades out.
LEMMA SentAgain ==
  ASSUME Inv, NEW c \in Parts, NEW a \in DOMAIN component[c].acts, Send(c, a),
         Once(Sent(c, a)), NEW i \in Earlier(c, a)
  PROVE  Settled(writes[i], c)
<1> DEFINE w == writes[i]
<1>1. i \in 1..Len(writes) /\ w.by = c /\ w.act = a /\ c \in w.live
  BY DEF Earlier
<1>2. component[c].acts[a].then = "closes" /\ <<c, a>> \notin Repeatable
  BY DEF Once, Sent, ActOf
<1>3. component[c].acts[a].guarded
  BY <1>2 DEF Inv, WellMounted, Sound, Parts
<1>4. Observer(c) \in w.live /\ (w.client = "ok" => Fades(c))
  BY <1>1, <1>2, <1>3 DEF Inv, FormsOK, Mounted, Closed, ActOf
<1>5. ~ Pending(c, a)
  BY <1>3 DEF Send, Submitted
<1>6. w.client # "pending"
  BY <1>1, <1>4, <1>5 DEF Pending
<1>7. w.client \in {"pending", "ok", "failed"}
  BY <1>1, Fields DEF Inv
<1> QED
  BY <1>4, <1>6, <1>7 DEF Settled

LEMMA SendStep ==
  ASSUME Inv, NEW c \in Parts, NEW a \in DOMAIN component[c].acts, Send(c, a)
  PROVE  Inv'
<1> DEFINE n == Len(writes) + 1
<1>1. writes' = Append(writes, Sent(c, a)) /\ UNCHANGED <<key, screen, query, version, acked, mishaps>>
  BY DEF Send, Submitted, Sent
<1>2. Sent(c, a) \in Write /\ writes \in Seq(Write) /\ Len(writes) \in Nat
  BY SentIsMounted, LenProperties DEF Inv, WritesOK
<1>3. /\ writes' \in Seq(Write) /\ Len(writes') = n /\ writes'[n] = Sent(c, a)
      /\ \A j \in 1..Len(writes) : writes'[j] = writes[j]
  BY <1>1, <1>2, AppendProperties
<1>4. /\ component' = component /\ key' = key /\ Parts' = Parts /\ Write' = Write
      /\ shown' = shown /\ fading' = fading /\ version' = version
      /\ \A d : Fades(d)' = Fades(d)
  BY <1>1 DEF screen, component, Parts, Write, Fades
<1>5. /\ Sent(c, a).by = c /\ Sent(c, a).act = a /\ Sent(c, a).after = Earlier(c, a)
      /\ Sent(c, a).at = 0
  BY DEF Sent
<1>6. WellMounted' /\ ScreenOK' /\ CountsOK' /\ Serves(query', acked')
  BY <1>1, <1>4 DEF Inv, WellMounted, ScreenOK, CountsOK, Holders
<1>7. WritesOK'
  <2>1. ASSUME NEW i \in 1..n
        PROVE  /\ writes'[i].act \in DOMAIN component[writes'[i].by].acts
               /\ writes'[i].after \subseteq 1..(i - 1)
               /\ writes'[i].at <= version
    <3>1. CASE i = n
      <4>1. version \in Nat /\ n - 1 = Len(writes) /\ Earlier(c, a) \subseteq 1..Len(writes)
        BY <1>2, SentIsMounted DEF Inv, CountsOK
      <4> QED
        BY <1>3, <1>5, <3>1, <4>1
    <3>2. CASE i \in 1..Len(writes)
      BY <1>3, <3>2, Fields DEF Inv
    <3> QED
      BY <1>2, <3>1, <3>2
  <2> QED
    BY <1>3, <1>4, <2>1 DEF WritesOK
<1>8. ASSUME NEW j \in 1..n
      PROVE  /\ Mounted(writes[j])' /\ Closed(writes[j])'
             /\ Once(writes[j])' => \A i \in writes'[j].after :
                                       Settled(writes'[i], writes'[j].by)
  <2> DEFINE w == writes'[j]
  <2>1. /\ Mounted(writes[j])' <=> Mounted(w)
        /\ Closed(writes[j])' <=> Closed(w)
        /\ Once(writes[j])' <=> Once(w)
    BY <1>4 DEF Mounted, Closed, Once, ActOf, Observer
  <2>2. CASE j = n
    <3>1. w = Sent(c, a)
      BY <1>3, <2>2
    <3>2. \A i \in Earlier(c, a) : writes'[i] = writes[i]
      BY <1>3, SentIsMounted
    <3> QED
      BY <1>5, <2>1, <3>1, <3>2, SentIsMounted, SentAgain
  <2>3. CASE j \in 1..Len(writes)
    <3>1. w = writes[j]
      BY <1>3, <2>3
    <3>2. \A i \in writes[j].after : i \in 1..Len(writes) /\ writes'[i] = writes[i]
      BY <1>2, <1>3, <2>3, Fields DEF Inv
    <3> QED
      BY <2>1, <2>3, <3>1, <3>2 DEF Inv, FormsOK
  <2> QED
    BY <1>2, <2>2, <2>3
<1>9. FormsOK'
  BY <1>3, <1>4, <1>8 DEF FormsOK, Settled
<1> QED
  BY <1>3, <1>6, <1>7, <1>9 DEF Inv

-----------------------------------------------------------------------------
(* The theorems.                                                           *)

LEMMA InitHolds == Init => Inv
<1> SUFFICES ASSUME Init PROVE Inv
  OBVIOUS
<1>1. WellMounted
  BY PanelAssumption DEF Init, WellMounted, component, Concerned
<1>2. ScreenOK
  BY DEF Init, ScreenOK
<1>3. CountsOK /\ Serves(query, acked)
  BY EventsAssumption DEF Init, CountsOK, Entry, NoData, Serves, Fresh
<1>4. WritesOK /\ FormsOK
  BY EmptySeq DEF Init, WritesOK, FormsOK
<1> QED
  BY <1>1, <1>2, <1>3, <1>4 DEF Inv

LEMMA NextKeeps == Inv /\ [Next]_vars => Inv'
<1> SUFFICES ASSUME Inv, [Next]_vars PROVE Inv'
  OBVIOUS
<1>1. ASSUME NEW c \in Parts, Visit(c) \/ ChooseTab(c) \/ Open(c) \/ Cancel(c) \/ FadeOut(c)
      PROVE  Inv'
  BY <1>1, VisitStep, ChooseTabStep, OpenStep, CancelStep, FadeOutStep
<1>2. CASE GoElsewhere
  BY <1>2, GoElsewhereStep
<1>3. ASSUME NEW c \in Parts, NEW a \in DOMAIN component[c].acts, Send(c, a)  PROVE Inv'
  BY <1>3, SendStep
<1>4. ASSUME NEW i \in 1..Len(writes), Apply(i) \/ Succeed(i) \/ Fail(i)  PROVE Inv'
  BY <1>4, ApplyStep, SucceedStep, FailStep
<1>5. CASE Poll \/ Focus \/ PressRefetch \/ ServerReads \/ Arrive \/ FetchFails \/ GoStale
  BY <1>5, FetchStep
<1>6. CASE OthersChange
  BY <1>6, OthersChangeStep
<1>7. CASE UNCHANGED vars
  <2>1. Moves({}, {}, {})
    BY <1>7, StandingStill DEF vars, screen, Inv
  <2>2. CountsOK' /\ Serves(query', acked') /\ version' >= version
    BY <1>7 DEF vars, Inv, CountsOK
  <2> QED
    BY <1>7, <2>1, <2>2, StandingStep DEF vars
<1> QED
  BY <1>1, <1>2, <1>3, <1>4, <1>5, <1>6, <1>7 DEF Next

LEMMA InvHolds == Spec => []Inv
BY InitHolds, NextKeeps, PTL DEF Spec

\* Whatever is opened, closed or left while answers are on their way, the screen
\* holds one page at most and nothing without what it is mounted in, and no data
\* is newer than the server's (the onSuccess callbacks of the pages).
THEOREM TypeCorrect == Spec => []TypeOK
<1>1. Inv => TypeOK
  <2> SUFFICES ASSUME Inv PROVE TypeOK
    OBVIOUS
  <2>1. ASSUME NEW i \in 1..Len(writes)
        PROVE  /\ writes[i].server \in {"waiting", "applied"} /\ writes[i].at \in 0..version
    <3>1. writes[i] \in Write /\ writes[i].at <= version /\ version \in Nat
      BY Fields DEF Inv, CountsOK
    <3> QED
      BY <3>1 DEF Write
  <2> QED
    BY <2>1, Fields DEF TypeOK, Inv, ScreenOK, CountsOK, Entry
<1> QED
  BY <1>1, InvHolds, PTL

\* However a user's writes, the fetches of the key and the mounting of its readers
\* interleave, data taken for fresh holds every write the user was told of, unless a
\* fetch that could not be restarted, or failed, is known to be in the way
\* (invalidateQueries in the onSuccess of every mutation of the pages).
THEOREM FreshDataHoldsOwnWrites == Spec => []ReadsOwnWrites
<1>1. Inv => ReadsOwnWrites
  BY DEF Inv, Serves, ReadsOwnWrites, Idle
<1> QED
  BY <1>1, InvHolds, PTL

\* However often a form is submitted from one opening, when the server has applied
\* it twice the first submission is settled, and by a success only in a dialog that
\* fades out (FormsOK: it was so when the second was sent) (disabled={isPending}, the onClose of
\* onSuccess and AnimatePresence in the pages' forms).
THEOREM FormsApplyOnce == Spec => []AppliedAgainOnlyOnceSettled
<1>1. Inv => AppliedAgainOnlyOnceSettled
  BY DEF Inv, FormsOK, Once, Settled, AppliedAgainOnlyOnceSettled
<1> QED
  BY <1>1, InvHolds, PTL
=============================================================================
