----------------------------- MODULE MenusProofs -----------------------------
(***************************************************************************)
(* Proofs about Menus, for any players, any number of ids and menus, any   *)
(* menus with callbacks and any nesting of them; and about the pages of    *)
(* any menu, with whatever items and blanks.                               *)
(***************************************************************************)
EXTENDS Menus, SequenceTheorems, WellFoundedInduction, TLAPS

-----------------------------------------------------------------------------
(* The inductive invariant *)

IsStack(s) == s \in Seq({s[k] : k \in DOMAIN s})

FrameFields == {"op", "p", "id", "obj", "page", "legend", "n", "todo", "calling"}
ScreenFields == {"id", "page", "keys", "text"}

Fitting == /\ IsStack(frames) /\ \A k \in 1 .. Len(frames) : DOMAIN frames[k] = FrameFields
          /\ DOMAIN screen = Players /\ \A p \in Players : DOMAIN screen[p] = ScreenFields

\* Two menus that are there are two allocations.
AllocationsDiffer ==
  /\ \A i \in Id : Live(i) => menu[i].obj \in 1 .. made
  /\ \A i, j \in Id : Live(i) /\ Live(j) /\ menu[i].obj = menu[j].obj => i = j

\* A screen belongs to a player in the game and has a menu that is there.
ScreensDenote ==
  \A p \in Players : screen[p].id # -1 => Live(screen[p].id) /\ p \in ingame

Drawing == {"text", "display", "turn"}

\* What a native relies on while it waits.  The menu it draws can only be found
\* again under its id; the menu it destroys is there and dying, and nobody it has
\* looked at has it on the screen.
Placed(k) ==
  LET f == frames[k]
  IN  /\ f.op \in {"turn", "leave"} => k = 1
      /\ f.op \in Drawing \cup {"show"} => f.p \in ingame
      /\ f.op = "leave" => f.p \in Players \ ingame
      /\ f.op = "text" => f.page \in Nat
      /\ f.op \in Drawing => /\ f.id \in Id /\ f.obj \in 1 .. made
                             /\ \A i \in Id : Live(i) /\ menu[i].obj = f.obj => i = f.id
      /\ f.op = "destroy" => /\ Live(f.id) /\ menu[f.id].dying
                             /\ \A q \in Players \ f.todo : screen[q].id # f.id

FramesPlaced == \A k \in 1 .. Len(frames) : Placed(k)

\* No native above a menu_destroy draws or destroys its menu.
DestroysApart ==
  \A j, k \in 1 .. Len(frames) :
    k < j /\ frames[k].op = "destroy" /\ frames[j].op \in {"destroy", "display", "text"}
      => frames[j].id # frames[k].id

StaleKnown == stale \in {"no", "item callback", "id in use again"}

IInv == /\ StateOK /\ Fitting /\ FreeIdsExact /\ AllocationsDiffer /\ ScreensDenote
        /\ FramesPlaced /\ DestroysApart /\ HandlerToldOnce /\ StaleKnown

-----------------------------------------------------------------------------
(* Records of menus, frames and screens *)

LEMMA NoMenuFacts == NoMenu \in Records /\ NoMenu.obj = 0 /\ ~NoMenu.dying
BY MenusAssumption DEF NoMenu, Records

LEMMA NewMenuFacts ==
  ASSUME NEW o \in Obj
  PROVE  /\ NewMenu(o) \in Records /\ NewMenu(o).obj = o /\ ~NewMenu(o).dying /\ NewMenu(o) # NoMenu
         /\ NewMenu(o).per = PerPage /\ NewMenu(o).items = <<>> /\ ~NewMenu(o).force
<1>1. PerPage \in 0 .. 7 /\ o \in 0 .. MaxMade /\ o # 0
  BY MenusAssumption DEF Obj
<1>2. PICK n \in 0 .. MaxMade : n = o
  BY <1>1
<1>3. PICK q \in 0 .. 7 : q = PerPage
  BY <1>1
<1>4. PICK m \in Records : m = NoMenu
  BY NoMenuFacts
<1> DEFINE r == [m EXCEPT !.obj = n, !.per = q]
<1>5. NewMenu(o) = r
  BY <1>2, <1>3, <1>4 DEF NewMenu
<1>6. /\ r \in Records /\ r.obj = n /\ r.dying = m.dying
      /\ r.per = q /\ r.items = m.items /\ r.force = m.force
  BY DEF Records
<1> HIDE DEF r
<1>7. m.items = <<>> /\ ~m.force /\ ~m.dying
  BY <1>4 DEF NoMenu
<1> QED
  BY <1>1, <1>2, <1>3, <1>5, <1>6, <1>7, NoMenuFacts, Zenon

LEMMA ItemAdded ==
  ASSUME NEW m \in Records, NEW item \in Items
  PROVE  LET r == [m EXCEPT !.items = Append(@, item)]
         IN  r \in Records /\ r.obj = m.obj /\ r.dying = m.dying
<1> DEFINE its == Append(m.items, item)
<1>1. m.items \in Seq(Items)
  BY DEF Records
<1>2. its \in Seq(Items)
  BY <1>1, AppendProperties
<1> HIDE DEF its
<1>3. LET r == [m EXCEPT !.items = its] IN r \in Records /\ r.obj = m.obj /\ r.dying = m.dying
  BY <1>2 DEF Records
<1> QED
  BY <1>3 DEF its

LEMMA DyingSet ==
  ASSUME NEW m \in Records
  PROVE  LET r == [m EXCEPT !.dying = TRUE]
         IN  r \in Records /\ r.obj = m.obj /\ r.dying = TRUE
BY DEF Records

LEMMA PageCountTyped ==
  ASSUME NEW m \in Records
  PROVE  PageCount(m) \in Int
<1>1. m.items \in Seq(Items) /\ m.per \in Nat
  BY DEF Records
<1>2. Len(m.items) \in Nat
  BY <1>1, LenProperties
<1> QED
  BY <1>1, <1>2 DEF PageCount, Count

\* Two frames that differ in what they draw, count or wait for.
Alike(g, f) == /\ DOMAIN g = FrameFields /\ g.op = f.op /\ g.p = f.p /\ g.id = f.id
               /\ g.obj = f.obj /\ g.page = f.page /\ g.todo = f.todo

LEMMA FrameFacts ==
  ASSUME NEW op, NEW p, NEW id, NEW obj, NEW pg
  PROVE  LET f == Frame(op, p, id, obj, pg)
         IN  /\ DOMAIN f = FrameFields /\ f.op = op /\ f.p = p /\ f.id = id /\ f.obj = obj
             /\ f.page = pg /\ f.todo = {}
BY DEF Frame, FrameFields

LEMMA CallbackFacts ==
  ASSUME NEW f, DOMAIN f = FrameFields
  PROVE  Alike(Callback(f), f)
BY DEF Callback, FrameFields, Alike

LEMMA RoundFacts ==
  ASSUME NEW f, DOMAIN f = FrameFields
  PROVE  Alike(Callback([f EXCEPT !.n = @ + 1]), f)
BY DEF Callback, FrameFields, Alike

LEMMA DrawnFacts ==
  ASSUME NEW f, DOMAIN f = FrameFields, NEW o, NEW l
  PROVE  LET g == [f EXCEPT !.op = "text", !.obj = o, !.legend = l]
         IN  /\ DOMAIN g = FrameFields /\ g.op = "text" /\ g.p = f.p /\ g.id = f.id
             /\ g.obj = o /\ g.page = f.page /\ g.todo = f.todo
BY DEF FrameFields

LEMMA PageFacts ==
  ASSUME NEW f, DOMAIN f = FrameFields, NEW pg
  PROVE  LET g == [f EXCEPT !.page = pg]
         IN  /\ DOMAIN g = FrameFields /\ g.op = f.op /\ g.p = f.p /\ g.id = f.id
             /\ g.obj = f.obj /\ g.page = pg /\ g.todo = f.todo
BY DEF FrameFields

LEMMA TodoFacts ==
  ASSUME NEW f, DOMAIN f = FrameFields, NEW S
  PROVE  LET g == [f EXCEPT !.todo = S]
         IN  /\ DOMAIN g = FrameFields /\ g.op = f.op /\ g.p = f.p /\ g.id = f.id
             /\ g.obj = f.obj /\ g.page = f.page /\ g.todo = S
BY DEF FrameFields

LEMMA LookedFacts ==
  ASSUME NEW f, DOMAIN f = FrameFields, NEW q
  PROVE  LET g == Callback([f EXCEPT !.todo = @ \ {q}])
         IN  /\ DOMAIN g = FrameFields /\ g.op = f.op /\ g.p = f.p /\ g.id = f.id
             /\ g.obj = f.obj /\ g.page = f.page /\ g.todo = f.todo \ {q}
BY DEF Callback, FrameFields

LEMMA LastCallFacts ==
  DOMAIN LastCall = FrameFields /\ LastCall.op = "close" /\ FrameTyped(LastCall)
<1> DEFINE f == Frame("close", Nobody, -1, 0, 0)
<1>1. /\ DOMAIN f = FrameFields /\ f.op = "close" /\ f.p = Nobody /\ f.id = -1 /\ f.obj = 0
      /\ f.page = 0 /\ f.todo = {}
  BY FrameFacts
<1>2. LastCall = Callback(f)
  BY DEF LastCall, Callback
<1> HIDE DEF f
<1>3. Alike(LastCall, f)
  BY <1>1, <1>2, CallbackFacts
<1> QED
  BY <1>1, <1>3, MenusAssumption DEF Alike, FrameTyped, Ops

LEMMA BlankFacts ==
  ASSUME NEW pg
  PROVE  LET s == Blank(pg) IN DOMAIN s = ScreenFields /\ s.id = -1 /\ s.page = pg
BY DEF Blank, ScreenFields

-----------------------------------------------------------------------------
(* The stack of natives *)

LEMMA StackTyped ==
  ASSUME NEW s, IsStack(s)
  PROVE  Len(s) \in Nat /\ DOMAIN s = 1 .. Len(s)
BY LenProperties DEF IsStack

LEMMA Levels ==
  ASSUME NEW n \in Nat
  PROVE  n \in 0 .. n /\ n + 1 \in 1 .. n + 1
         /\ \A k \in 1 .. n - 1 : k \in 1 .. n /\ n # 1
OBVIOUS

LEMMA StackOf ==
  ASSUME NEW S, NEW s \in Seq(S)
  PROVE  IsStack(s)
<1> DEFINE T == {s[k] : k \in DOMAIN s}
<1>1. Len(s) \in Nat /\ DOMAIN s = 1 .. Len(s) /\ s \in [1 .. Len(s) -> S]
  BY LenProperties
<1>2. s \in [1 .. Len(s) -> T]
  BY <1>1
<1>3. s \in Seq(T)
  <2> HIDE DEF T
  <2> QED
    BY <1>1, <1>2, SeqDef
<1> QED
  BY <1>3 DEF IsStack

LEMMA Wider ==
  ASSUME NEW s, IsStack(s), NEW f
  PROVE  \E S : s \in Seq(S) /\ f \in S
<1> DEFINE T == {s[k] : k \in DOMAIN s}
           S == T \cup {f}
<1>1. s \in Seq(T)
  BY DEF IsStack
<1>2. Len(s) \in Nat /\ s \in [1 .. Len(s) -> T]
  <2> HIDE DEF T
  <2> QED
    BY <1>1, LenProperties
<1>3. s \in [1 .. Len(s) -> S]
  <2> HIDE DEF T
  <2> QED
    BY <1>2
<1>4. s \in Seq(S)
  <2> HIDE DEF S
  <2> QED
    BY <1>2, <1>3, SeqDef
<1> QED
  BY <1>4

LEMMA Pushed ==
  ASSUME NEW s, IsStack(s), NEW f
  PROVE  LET t == Append(s, f)
         IN  /\ IsStack(t) /\ Len(t) = Len(s) + 1 /\ t[Len(s) + 1] = f
             /\ \A k \in 1 .. Len(s) : t[k] = s[k]
<1>1. PICK S : s \in Seq(S) /\ f \in S
  BY Wider
<1>2. /\ Append(s, f) \in Seq(S) /\ Len(Append(s, f)) = Len(s) + 1
      /\ Append(s, f)[Len(s) + 1] = f
      /\ \A k \in 1 .. Len(s) : Append(s, f)[k] = s[k]
  BY <1>1, AppendProperties
<1> QED
  BY <1>2, StackOf

LEMMA Popped ==
  ASSUME NEW s, IsStack(s), s # <<>>
  PROVE  LET t == SubSeq(s, 1, Len(s) - 1)
         IN  /\ IsStack(t) /\ Len(t) = Len(s) - 1 /\ Len(s) \in Nat \ {0}
             /\ \A k \in 1 .. Len(s) - 1 : t[k] = s[k]
<1> DEFINE S == {s[k] : k \in DOMAIN s}
           m == Len(s) - 1
           t == SubSeq(s, 1, m)
<1>0. s \in Seq(S)
  BY DEF IsStack
<1> HIDE DEF S
<1>1. Len(s) \in Nat \ {0}
  BY <1>0, EmptySeq
<1>2. 1 \in Int /\ m \in Int /\ m \in Nat
  BY <1>1
<1>3. \A k \in 1 .. m : s[k] \in S
  BY <1>0, <1>1, ElementOfSeq
<1> HIDE DEF m
<1>4. /\ t \in Seq(S) /\ Len(t) = (IF 1 <= m THEN m - 1 + 1 ELSE 0)
      /\ \A k \in 1 .. m - 1 + 1 : t[k] = s[1 + k - 1]
  BY <1>2, <1>3, SubSeqProperties
<1>5. Len(t) = m /\ \A k \in 1 .. m : t[k] = s[k]
  <2>1. (IF 1 <= m THEN m - 1 + 1 ELSE 0) = m /\ m - 1 + 1 = m
    BY <1>2
  <2>2. \A k \in 1 .. m : 1 + k - 1 = k
    BY <1>2
  <2> QED
    BY <1>4, <2>1, <2>2
<1>6. IsStack(t)
  BY <1>4, StackOf
<1> QED
  BY <1>1, <1>5, <1>6 DEF m

LEMMA OneFrame ==
  ASSUME NEW f
  PROVE  <<f>> = Append(<<>>, f) /\ IsStack(<<>>) /\ Len(<<>>) = 0
<1>1. <<>> \in Seq({f}) /\ Len(<<>>) = 0
  BY EmptySeq
<1>2. <<f>> = Append(<<>>, f)
  OBVIOUS
<1> QED
  BY <1>1, <1>2, StackOf

-----------------------------------------------------------------------------
(* What the natives that wait rely on *)

StackGood == /\ IsStack(frames)
             /\ \A k \in 1 .. Len(frames) : DOMAIN frames[k] = FrameFields /\ FrameTyped(frames[k])
             /\ FramesPlaced /\ DestroysApart

\* A step leaves the menus, players and screens as the first m of them need it.
World(m) ==
  /\ ingame' = ingame /\ made' \in Nat /\ made <= made'
  /\ \A i \in Id : Live(i)' => (Live(i) /\ menu'[i].obj = menu[i].obj) \/ menu'[i].obj > made
  /\ \A k \in 1 .. m, i \in Id : frames[k].op = "destroy" /\ frames[k].id = i =>
       /\ Live(i)' /\ menu'[i].dying
       /\ \A q \in Players : screen'[q].id = screen[q].id \/ screen'[q].id # i

\* Frame g finds what it needs at level k.
Settles(g, k) ==
  /\ DOMAIN g = FrameFields /\ FrameTyped(g)
  /\ g.op \in {"turn", "leave"} => k = 1
  /\ g.op \in Drawing \cup {"show"} => g.p \in ingame'
  /\ g.op = "leave" => g.p \in Players \ ingame'
  /\ g.op = "text" => g.page \in Nat
  /\ g.op \in Drawing => /\ g.id \in Id /\ g.obj \in 1 .. made'
                         /\ \A i \in Id : Live(i)' /\ menu'[i].obj = g.obj => i = g.id
  /\ g.op = "destroy" => /\ g.id \in Id
                         /\ \A i \in Id : i = g.id =>
                              /\ Live(i)' /\ menu'[i].dying
                              /\ \A q \in Players \ g.todo : screen'[q].id # i
  /\ \A j \in 1 .. k - 1 : frames[j].op = "destroy" /\ g.op \in {"destroy", "display", "text"}
                             => g.id # frames[j].id

LEMMA PlaceKept ==
  ASSUME IInv, NEW m \in 0 .. Len(frames), World(m), NEW k \in 1 .. m, frames'[k] = frames[k]
  PROVE  Placed(k)'
<1>1. Len(frames) \in Nat /\ made \in Nat
  BY StackTyped DEF IInv, Fitting, StateOK
<1>2. Placed(k)
  BY <1>1 DEF IInv, FramesPlaced
<1> DEFINE f == frames[k]
<1>3. CASE f.op \in Drawing
  <2>1. /\ f.id \in Id /\ f.obj \in 1 .. made /\ f.p \in ingame
        /\ \A i \in Id : Live(i) /\ menu[i].obj = f.obj => i = f.id
        /\ f.op = "text" => f.page \in Nat
        /\ f.op = "turn" => k = 1
        /\ f.op # "leave" /\ f.op # "destroy"
    BY <1>2, <1>3 DEF Placed, Drawing
  <2>2. /\ ingame' = ingame /\ f.obj \in 1 .. made'
        /\ \A i \in Id : Live(i)' /\ menu'[i].obj = f.obj => i = f.id
    BY <1>1, <2>1 DEF World
  <2> QED
    BY <2>1, <2>2 DEF Placed
<1>4. CASE f.op = "destroy"
  <2>1. /\ Live(f.id) /\ f.id \in Id /\ menu[f.id].dying
        /\ \A q \in Players \ f.todo : screen[q].id # f.id
    BY <1>2, <1>4 DEF Placed, Live
  <2>2. PICK i \in Id : i = f.id
    BY <2>1
  <2>3. /\ Live(i)' /\ menu'[i].dying
        /\ \A q \in Players : screen'[q].id = screen[q].id \/ screen'[q].id # i
    BY <1>4, <2>2 DEF World
  <2>4. \A q \in Players \ f.todo : screen'[q].id # i
    BY <2>1, <2>2, <2>3
  <2> QED
    BY <1>4, <2>2, <2>3, <2>4 DEF Placed, Drawing, Live
<1>5. CASE f.op \notin Drawing \cup {"destroy"}
  BY <1>2, <1>5 DEF Placed, World
<1> QED
  BY <1>3, <1>4, <1>5

LEMMA StackStep ==
  ASSUME IInv, NEW m \in 0 .. Len(frames), NEW g, World(m), IsStack(frames'),
         \A k \in 1 .. m : frames'[k] = frames[k],
         \/ Len(frames') = m
         \/ Len(frames') = m + 1 /\ frames'[m + 1] = g /\ Settles(g, m + 1)
  PROVE  StackGood'
<1>1. Len(frames) \in Nat /\ \A k \in 1 .. m : k \in 1 .. Len(frames)
  BY StackTyped DEF IInv, Fitting
<1>2. \A k \in 1 .. Len(frames') :
        \/ k \in 1 .. m
        \/ k = m + 1 /\ Len(frames') = m + 1 /\ frames'[k] = g /\ Settles(g, k) /\ k \notin 1 .. m
  BY <1>1
<1>3. ASSUME NEW k \in 1 .. Len(frames')
      PROVE  DOMAIN frames'[k] = FrameFields /\ FrameTyped(frames'[k])
  <2>1. CASE k \in 1 .. m
    BY <2>1, <1>1 DEF IInv, Fitting, StateOK
  <2>2. CASE k = m + 1
    BY <2>2, <1>2 DEF Settles
  <2> QED
    BY <2>1, <2>2, <1>2
<1>4. ASSUME NEW k \in 1 .. Len(frames')
      PROVE  Placed(k)'
  <2>1. CASE k \in 1 .. m
    BY <2>1, PlaceKept
  <2>2. CASE k \notin 1 .. m
    <3>1. Settles(g, k) /\ frames'[k] = g
      BY <2>2, <1>2
    <3>2. CASE g.op = "destroy"
      <4>1. PICK i \in Id : i = g.id
        BY <3>1, <3>2 DEF Settles
      <4>2. Live(i)' /\ menu'[i].dying /\ \A q \in Players \ g.todo : screen'[q].id # i
        BY <3>1, <3>2, <4>1 DEF Settles
      <4> QED
        BY <3>1, <3>2, <4>1, <4>2 DEF Placed, Live, Drawing
    <3>3. CASE g.op # "destroy"
      BY <3>1, <3>3 DEF Settles, Placed
    <3> QED
      BY <3>2, <3>3
  <2> QED
    BY <2>1, <2>2
<1>5. ASSUME NEW j \in 1 .. Len(frames'), NEW k \in 1 .. Len(frames'), k < j,
             frames'[k].op = "destroy", frames'[j].op \in {"destroy", "display", "text"}
      PROVE  frames'[j].id # frames'[k].id
  <2>1. k \in 1 .. m
    BY <1>2, <1>5, <1>1
  <2>2. CASE j \in 1 .. m
    BY <2>1, <2>2, <1>1, <1>5 DEF IInv, DestroysApart
  <2>3. CASE j \notin 1 .. m
    <3>1. Settles(g, j) /\ frames'[j] = g /\ j = m + 1
      BY <2>3, <1>2
    <3>2. k \in 1 .. j - 1
      BY <3>1, <2>1
    <3> QED
      BY <3>1, <3>2, <2>1, <1>5 DEF Settles
  <2> QED
    BY <2>2, <2>3
<1> QED
  BY <1>3, <1>4, <1>5 DEF StackGood, FramesPlaced, DestroysApart

Transits(f, p, o) == f.p = p /\ f.op \in {"turn", "text"} /\ f.obj = o

LEMMA TransitFacts ==
  ASSUME NEW p, NEW o
  PROVE  /\ o \in InTransit(p) <=> \E k \in 1 .. Len(frames) : Transits(frames[k], p, o)
         /\ o \in InTransit(p)' <=> \E k \in 1 .. Len(frames') : Transits(frames'[k], p, o)
BY DEF InTransit, Transits

\* A native calls another, or calls a handler.
LEMMA PushStep ==
  ASSUME IInv, NEW g, frames' = Append(frames, g), World(Len(frames)), Settles(g, Len(frames) + 1)
  PROVE  /\ StackGood'
         /\ \A p : InTransit(p) \subseteq InTransit(p)'
         /\ \A p, o : Transits(g, p, o) => o \in InTransit(p)'
<1>1. IsStack(frames) /\ Len(frames) \in Nat
  BY StackTyped DEF IInv, Fitting
<1>2. /\ IsStack(frames') /\ Len(frames') = Len(frames) + 1 /\ frames'[Len(frames) + 1] = g
      /\ \A k \in 1 .. Len(frames) : frames'[k] = frames[k]
  BY <1>1, Pushed
<1>3. StackGood'
  <2>1. Len(frames) \in 0 .. Len(frames)
    BY <1>1
  <2> QED
    BY <1>2, <2>1, StackStep
<1>4. \A k \in 1 .. Len(frames) : k \in 1 .. Len(frames')
  BY <1>1, <1>2
<1>5. Len(frames) + 1 \in 1 .. Len(frames')
  BY <1>1, <1>2
<1>6. ASSUME NEW p, NEW o, o \in InTransit(p)  PROVE o \in InTransit(p)'
  BY <1>2, <1>4, <1>6, TransitFacts
<1>7. ASSUME NEW p, NEW o, Transits(g, p, o)  PROVE o \in InTransit(p)'
  BY <1>2, <1>5, <1>7, TransitFacts
<1> QED
  BY <1>3, <1>6, <1>7

\* The native on top goes on as g.
LEMMA SwapStep ==
  ASSUME IInv, frames # <<>>, NEW g, frames' = Instead(g), World(Len(frames) - 1),
         Settles(g, Len(frames))
  PROVE  /\ StackGood'
         /\ \A p, o : o \in InTransit(p) /\ ~Transits(Top, p, o) => o \in InTransit(p)'
         /\ \A p, o : Transits(g, p, o) => o \in InTransit(p)'
<1> DEFINE m == Len(frames) - 1
<1>1. /\ IsStack(Below) /\ Len(Below) = m /\ Len(frames) \in Nat \ {0}
      /\ \A k \in 1 .. m : Below[k] = frames[k]
  BY Popped DEF IInv, Fitting, Below
<1>2. /\ IsStack(frames') /\ Len(frames') = m + 1 /\ frames'[m + 1] = g
      /\ \A k \in 1 .. m : frames'[k] = frames[k]
  <2>1. frames' = Append(Below, g)
    BY DEF Instead
  <2> QED
    BY <1>1, <2>1, Pushed
<1>3. m \in 0 .. Len(frames) /\ m + 1 = Len(frames)
  BY <1>1
<1>4. StackGood'
  <2>1. World(m) /\ Settles(g, m + 1)
    BY <1>3
  <2> HIDE DEF m
  <2> QED
    BY <1>2, <1>3, <2>1, StackStep
<1>5. \A k \in 1 .. Len(frames) : k = Len(frames) \/ (k \in 1 .. m /\ k \in 1 .. Len(frames'))
  BY <1>1, <1>2
<1>6. ASSUME NEW p, NEW o, o \in InTransit(p), ~Transits(Top, p, o)  PROVE o \in InTransit(p)'
  <2>1. PICK k \in 1 .. Len(frames) : Transits(frames[k], p, o)
    BY <1>6, TransitFacts
  <2>2. k # Len(frames)
    BY <1>6, <2>1 DEF Top
  <2> QED
    BY <1>2, <1>5, <2>1, <2>2, TransitFacts
<1>7. ASSUME NEW p, NEW o, Transits(g, p, o)  PROVE o \in InTransit(p)'
  <2>1. m + 1 \in 1 .. Len(frames')
    BY <1>1, <1>2
  <2> QED
    BY <1>2, <1>7, <2>1, TransitFacts
<1> QED
  BY <1>4, <1>6, <1>7

\* The native on top returns.
LEMMA PopStep ==
  ASSUME IInv, frames # <<>>, frames' = Below, World(Len(frames) - 1)
  PROVE  /\ StackGood'
         /\ \A p, o : o \in InTransit(p) /\ ~Transits(Top, p, o) => o \in InTransit(p)'
<1> DEFINE m == Len(frames) - 1
<1>1. /\ IsStack(Below) /\ Len(Below) = m /\ Len(frames) \in Nat \ {0}
      /\ \A k \in 1 .. m : Below[k] = frames[k]
  BY Popped DEF IInv, Fitting, Below
<1>2. m \in 0 .. Len(frames)
  BY <1>1
<1>3. StackGood'
  <2> HIDE DEF m
  <2> QED
    BY <1>1, <1>2, StackStep DEF m
<1>4. \A k \in 1 .. Len(frames) : k = Len(frames) \/ k \in 1 .. Len(frames')
  BY <1>1
<1>5. ASSUME NEW p, NEW o, o \in InTransit(p), ~Transits(Top, p, o)  PROVE o \in InTransit(p)'
  <2>1. PICK k \in 1 .. Len(frames) : Transits(frames[k], p, o)
    BY <1>5, TransitFacts
  <2>2. k # Len(frames)
    BY <1>5, <2>1 DEF Top
  <2> QED
    BY <1>1, <1>4, <2>1, <2>2, TransitFacts
<1> QED
  BY <1>3, <1>5

\* The stack stays as it is.
LEMMA StayStep ==
  ASSUME IInv, frames' = frames, World(Len(frames))
  PROVE  StackGood' /\ \A p : InTransit(p)' = InTransit(p)
<1>1. IsStack(frames) /\ Len(frames) \in Nat /\ Len(frames) \in 0 .. Len(frames)
  BY StackTyped DEF IInv, Fitting
<1>2. StackGood'
  BY <1>1, StackStep
<1> QED
  BY <1>2 DEF InTransit

-----------------------------------------------------------------------------
(* The parts of the invariant *)

Tables == /\ len \in 0 .. MaxIds /\ made \in 0 .. MaxMade
          /\ menu \in [Id -> Records]
          /\ \A i \in Id : menu[i] = NoMenu \/ menu[i].obj \in Obj
          /\ freeIds \in Seq(Id)
          /\ FreeIdsExact /\ AllocationsDiffer

Screens == /\ ingame \subseteq Players
           /\ DOMAIN screen = Players
           /\ \A p \in Players : /\ DOMAIN screen[p] = ScreenFields
                                 /\ screen[p].id \in Id \cup {-1} /\ screen[p].page \in Nat
           /\ ScreensDenote

ToldRight == /\ waiting \in [Players -> SUBSET Obj] /\ extra \in BOOLEAN
             /\ HandlerToldOnce /\ StaleKnown

LEMMA Parts == IInv <=> Tables /\ Screens /\ StackGood /\ ToldRight
BY DEF IInv, StateOK, Fitting, Tables, Screens, StackGood, ToldRight

LEMMA PartsNext == IInv' <=> Tables' /\ Screens' /\ StackGood' /\ ToldRight'
BY DEF IInv, StateOK, Fitting, Tables, Screens, StackGood, ToldRight

LEMMA TablesSame ==
  ASSUME IInv, UNCHANGED tableVars
  PROVE  /\ Tables'
         /\ \A i : Live(i)' <=> Live(i)
<1>1. UNCHANGED <<len, menu, freeIds, made>>
  BY DEF tableVars
<1>2. Tables
  BY Parts
<1>3. FreeIdsExact'
  BY <1>1, <1>2 DEF Tables, FreeIdsExact
<1>4. AllocationsDiffer'
  BY <1>1, <1>2 DEF Tables, AllocationsDiffer, Live
<1> QED
  BY <1>1, <1>2, <1>3, <1>4 DEF Tables, Live

LEMMA ShownFacts ==
  ASSUME NEW p
  PROVE  /\ Live(screen[p].id) => Shown(p) = {menu[screen[p].id].obj}
         /\ ~Live(screen[p].id) => Shown(p) = {}
         /\ Live(screen[p].id)' => Shown(p)' = {menu'[screen'[p].id].obj}
         /\ ~Live(screen[p].id)' => Shown(p)' = {}
BY DEF Shown

\* A dying menu stays with the native that destroys it.
LEMMA DestroyFacts ==
  ASSUME IInv, NEW k \in 1 .. Len(frames), NEW i \in Id, frames[k].op = "destroy", frames[k].id = i
  PROVE  Live(i) /\ menu[i].dying /\ \A q \in Players \ frames[k].todo : screen[q].id # i
BY DEF IInv, FramesPlaced, Placed

LEMMA Blanked ==
  ASSUME IInv, UNCHANGED tableVars, ingame' = ingame,
         \A q \in Players : screen'[q].id \in {screen[q].id, -1},
         NEW m \in 0 .. Len(frames)
  PROVE  World(m)
<1>1. UNCHANGED <<len, menu, freeIds, made>> /\ \A i : Live(i)' <=> Live(i)
  BY TablesSame DEF tableVars
<1>2. made' \in Nat /\ made <= made'
  BY <1>1 DEF IInv, StateOK
<1>3. ASSUME NEW k \in 1 .. m, NEW i \in Id, frames[k].op = "destroy", frames[k].id = i
      PROVE  /\ Live(i)' /\ menu'[i].dying
             /\ \A q \in Players : screen'[q].id = screen[q].id \/ screen'[q].id # i
  <2>1. k \in 1 .. Len(frames)
    BY StackTyped DEF IInv, Fitting
  <2>2. Live(i) /\ menu[i].dying
    BY <1>3, <2>1, DestroyFacts
  <2>3. i # -1
    BY DEF Id
  <2> QED
    BY <1>1, <2>2, <2>3
<1> QED
  BY <1>1, <1>2, <1>3 DEF World

\* Nothing happens on the screens, and nobody is told anything.
LEMMA ScreensSame ==
  ASSUME IInv, UNCHANGED <<tableVars, ingame, screen>>
  PROVE  /\ Screens' /\ (\A p : Shown(p)' = Shown(p))
         /\ \A m \in 0 .. Len(frames) : World(m)
<1>1. UNCHANGED <<len, menu, freeIds, made>> /\ \A i : Live(i)' <=> Live(i)
  BY TablesSame DEF tableVars
<1>2. Screens
  BY Parts
<1>3. Screens'
  BY <1>1, <1>2 DEF Screens, ScreensDenote
<1>4. \A p : Shown(p)' = Shown(p)
  BY <1>1, ShownFacts
<1> QED
  BY <1>3, <1>4, Blanked

LEMMA ToldSame ==
  ASSUME IInv, UNCHANGED histVars, \A p \in Players : Shown(p)' = Shown(p),
         \A p \in Players : \A o : o \in InTransit(p) => o \in InTransit(p)'
  PROVE  ToldRight'
<1>1. ToldRight /\ UNCHANGED <<waiting, extra, stale>>
  BY Parts DEF histVars
<1>2. HandlerToldOnce'
  BY <1>1 DEF ToldRight, HandlerToldOnce
<1> QED
  BY <1>1, <1>2 DEF ToldRight, StaleKnown

-----------------------------------------------------------------------------
(* Close *)

\* The menu of player p goes off the screen; p may also come or go.
LEMMA OffScreen ==
  ASSUME IInv, NEW p \in Players, screen' = [screen EXCEPT ![p] = Blank(screen[p].page)],
         UNCHANGED tableVars, ingame' \in {ingame, ingame \cup {p}, ingame \ {p}}
  PROVE  /\ Tables' /\ Screens'
         /\ ingame' = ingame => \A m \in 0 .. Len(frames) : World(m)
         /\ screen'[p].id = -1 /\ \A q \in Players : q # p => screen'[q] = screen[q]
         /\ Shown(p)' = {} /\ \A q \in Players : q # p => Shown(q)' = Shown(q)
<1>1. Screens /\ UNCHANGED <<len, menu, freeIds, made>>
  BY Parts DEF tableVars
<1>2. /\ DOMAIN screen' = Players /\ screen'[p] = Blank(screen[p].page)
      /\ \A q \in Players : q # p => screen'[q] = screen[q]
  BY <1>1 DEF Screens
<1>3. /\ DOMAIN screen'[p] = ScreenFields /\ screen'[p].id = -1 /\ screen'[p].page \in Nat
  BY <1>1, <1>2, BlankFacts DEF Screens
<1>4. Tables' /\ \A i : Live(i)' <=> Live(i)
  BY TablesSame
<1>5. Screens'
  <2>1. ingame' \subseteq Players /\ \A q \in Players : q # p /\ q \in ingame => q \in ingame'
    BY <1>1 DEF Screens
  <2> QED
    BY <1>1, <1>2, <1>3, <1>4, <2>1 DEF Screens, ScreensDenote
<1>6. ingame' = ingame => \A m \in 0 .. Len(frames) : World(m)
  <2>1. \A q \in Players : screen'[q].id \in {screen[q].id, -1}
    BY <1>2, <1>3
  <2> QED
    BY <2>1, Blanked
<1>7. ~Live(screen[p].id)'
  BY <1>3 DEF Live, Id
<1>8. \A q \in Players : q # p => Shown(q)' = Shown(q)
  BY <1>1, <1>2, <1>4, ShownFacts
<1> QED
  BY <1>2, <1>3, <1>4, <1>5, <1>6, <1>7, <1>8, ShownFacts

\* The handler of a menu that goes off the screen is told of it, for the first time.
LEMMA ToldOnce ==
  ASSUME IInv, NEW p \in Players, Live(screen[p].id), Told(p, menu[screen[p].id].obj),
         Shown(p)' = {}, \A q \in Players : q # p => Shown(q)' = Shown(q),
         \A q \in Players : \A o : o \in InTransit(q) => o \in InTransit(q)'
  PROVE  ToldRight'
<1> DEFINE o == menu[screen[p].id].obj
<1>0. ToldRight /\ Shown(p) = {o}
  BY Parts, ShownFacts
<1>1. /\ waiting' = [waiting EXCEPT ![p] = waiting[p] \ {o}]
      /\ extra' = (extra \/ o \notin waiting[p]) /\ stale' = stale
  BY DEF Told
<1>2. o \in waiting[p] /\ ~extra
  BY <1>0 DEF ToldRight, HandlerToldOnce
<1> HIDE DEF o
<1>3. /\ waiting' \in [Players -> SUBSET Obj] /\ waiting'[p] = waiting[p] \ {o}
      /\ \A q \in Players : q # p => waiting'[q] = waiting[q]
  BY <1>0, <1>1 DEF ToldRight
<1>4. ASSUME NEW q \in Players
      PROVE  Shown(q)' \subseteq waiting'[q] /\ waiting'[q] \subseteq (Shown(q) \cup InTransit(q))'
  <2>1. Shown(q) \subseteq waiting[q] /\ waiting[q] \subseteq Shown(q) \cup InTransit(q)
    BY <1>0 DEF ToldRight, HandlerToldOnce
  <2>2. CASE q = p
    BY <2>1, <2>2, <1>0, <1>3
  <2>3. CASE q # p
    BY <2>1, <2>3, <1>3
  <2> QED
    BY <2>2, <2>3
<1>5. ~extra'
  BY <1>1, <1>2
<1> QED
  BY <1>0, <1>1, <1>3, <1>4, <1>5 DEF ToldRight, HandlerToldOnce, StaleKnown

LEMMA CloseFacts ==
  ASSUME IInv, NEW p \in Players, NEW fs, Live(screen[p].id), Close(p, fs)
  PROVE  /\ Tables' /\ Screens' /\ frames' = fs
         /\ \A m \in 0 .. Len(frames) : World(m)
         /\ UNCHANGED tableVars /\ ingame' = ingame
         /\ screen'[p].id = -1 /\ \A q \in Players : q # p => screen'[q] = screen[q]
         /\ (\A q \in Players : \A o : o \in InTransit(q) => o \in InTransit(q)') => ToldRight'
<1>1. /\ Told(p, menu[screen[p].id].obj)
      /\ screen' = [screen EXCEPT ![p] = Blank(screen[p].page)]
      /\ frames' = fs /\ UNCHANGED tableVars /\ ingame' = ingame
  BY DEF Close
<1>2. /\ Tables' /\ Screens' /\ \A m \in 0 .. Len(frames) : World(m)
      /\ screen'[p].id = -1 /\ \A q \in Players : q # p => screen'[q] = screen[q]
      /\ Shown(p)' = {} /\ \A q \in Players : q # p => Shown(q)' = Shown(q)
  BY <1>1, OffScreen
<1> QED
  BY <1>1, <1>2, ToldOnce

-----------------------------------------------------------------------------
(* The native on top *)

LEMMA TopFacts ==
  ASSUME IInv, frames # <<>>
  PROVE  /\ Len(frames) \in Nat \ {0} /\ Len(frames) - 1 \in 0 .. Len(frames)
         /\ Len(frames) \in 0 .. Len(frames)
         /\ DOMAIN Top = FrameFields /\ FrameTyped(Top)
         /\ Top.op \in {"turn", "leave"} => Len(frames) = 1
         /\ Top.op \in Drawing \cup {"show"} => Top.p \in ingame
         /\ Top.op = "leave" => Top.p \in Players \ ingame
         /\ Top.op = "text" => Top.page \in Nat
         /\ Top.op \in Drawing => /\ Top.id \in Id /\ Top.obj \in 1 .. made
                                  /\ \A i \in Id : Live(i) /\ menu[i].obj = Top.obj => i = Top.id
         /\ Top.op = "destroy" => /\ Live(Top.id) /\ menu[Top.id].dying /\ Top.id \in Id
                                  /\ \A q \in Players \ Top.todo : screen[q].id # Top.id
         /\ \A j \in 1 .. Len(frames) - 1 :
              frames[j].op = "destroy" /\ Top.op \in {"destroy", "display", "text"}
                => Top.id # frames[j].id
<1>1. Len(frames) \in Nat \ {0}
  BY Popped DEF IInv, Fitting
<1>2. Len(frames) \in 1 .. Len(frames) /\ Len(frames) - 1 \in 0 .. Len(frames)
      /\ Len(frames) \in 0 .. Len(frames)
      /\ \A j \in 1 .. Len(frames) - 1 : j \in 1 .. Len(frames) /\ j < Len(frames)
  BY <1>1
<1>3. Placed(Len(frames)) /\ DOMAIN Top = FrameFields /\ FrameTyped(Top)
  BY <1>2 DEF IInv, FramesPlaced, Fitting, StateOK, Top
<1>4. \A j \in 1 .. Len(frames) - 1 :
        frames[j].op = "destroy" /\ Top.op \in {"destroy", "display", "text"}
          => Top.id # frames[j].id
  BY <1>2 DEF IInv, DestroysApart, Top
<1> QED
  BY <1>1, <1>2, <1>3, <1>4 DEF Placed, Top, Live

\* A frame like the one on top finds what that one found.
LEMMA AlikeSettles ==
  ASSUME IInv, frames # <<>>, NEW g, Alike(g, Top), World(Len(frames)), Top.op # "destroy",
         Top.op # "leave"
  PROVE  Settles(g, Len(frames))
<1>1. /\ DOMAIN g = FrameFields /\ g.op = Top.op /\ g.p = Top.p /\ g.id = Top.id
      /\ g.obj = Top.obj /\ g.page = Top.page /\ g.todo = Top.todo
  BY DEF Alike
<1>2. FrameTyped(g)
  BY <1>1, TopFacts DEF FrameTyped
<1>3. ASSUME Top.op \in Drawing
      PROVE  /\ g.id \in Id /\ g.obj \in 1 .. made'
             /\ \A i \in Id : Live(i)' /\ menu'[i].obj = g.obj => i = g.id
  <2>1. /\ Top.id \in Id /\ Top.obj \in 1 .. made
        /\ \A i \in Id : Live(i) /\ menu[i].obj = Top.obj => i = Top.id
    BY <1>3, TopFacts
  <2>2. made \in Nat
    BY DEF IInv, StateOK
  <2> QED
    BY <1>1, <2>1, <2>2 DEF World
<1> QED
  BY <1>1, <1>2, <1>3, TopFacts DEF Settles, World

LEMMA UseDeletedKept ==
  ASSUME IInv, NEW how \in {"item callback", "id in use again"}, UseDeleted(how)
  PROVE  IInv'
<1>1. UNCHANGED <<tableVars, ingame, screen>> /\ frames' = frames
      /\ UNCHANGED <<waiting, extra>> /\ stale' = how
  BY DEF UseDeleted
<1>2. Tables' /\ Screens' /\ (\A p : Shown(p)' = Shown(p))
      /\ \A m \in 0 .. Len(frames) : World(m)
  BY <1>1, TablesSame, ScreensSame
<1>3. Len(frames) \in 0 .. Len(frames)
  <2>1. Len(frames) \in Nat
    BY StackTyped DEF IInv, Fitting
  <2> QED
    BY <2>1, Levels
<1>4. StackGood' /\ \A p : InTransit(p)' = InTransit(p)
  BY <1>1, <1>2, <1>3, StayStep
<1>5. ToldRight'
  BY <1>1, <1>2, <1>4, Parts DEF ToldRight, HandlerToldOnce, StaleKnown
<1> QED
  BY <1>2, <1>4, <1>5, PartsNext

LEMMA GiveUpKept ==
  ASSUME IInv, frames # <<>>, NEW gone, GiveUp(gone),
         Top.op \in {"turn", "text"} => Top.obj \in gone
  PROVE  IInv'
<1>0. ToldRight
  BY Parts
<1>1. /\ UNCHANGED <<tableVars, ingame, screen>> /\ frames' = Below
      /\ waiting' = [p \in Players |-> IF p = Top.p THEN waiting[p] \ (gone \ Shown(p)) ELSE waiting[p]]
      /\ UNCHANGED <<extra, stale>>
  BY DEF GiveUp
<1>2. Tables' /\ Screens' /\ (\A p : Shown(p)' = Shown(p))
      /\ \A m \in 0 .. Len(frames) : World(m)
  BY <1>1, TablesSame, ScreensSame
<1>3. StackGood' /\ \A p, o : o \in InTransit(p) /\ ~Transits(Top, p, o) => o \in InTransit(p)'
  BY <1>1, <1>2, TopFacts, PopStep
<1>4. waiting' \in [Players -> SUBSET Obj]
  BY <1>0, <1>1 DEF ToldRight
<1>5. ASSUME NEW p \in Players
      PROVE  Shown(p)' \subseteq waiting'[p] /\ waiting'[p] \subseteq (Shown(p) \cup InTransit(p))'
  <2>1. Shown(p) \subseteq waiting[p] /\ waiting[p] \subseteq Shown(p) \cup InTransit(p)
    BY <1>0 DEF ToldRight, HandlerToldOnce
  <2>2. waiting'[p] = IF p = Top.p THEN waiting[p] \ (gone \ Shown(p)) ELSE waiting[p]
    BY <1>1
  <2>3. Shown(p)' \subseteq waiting'[p]
    BY <1>2, <2>1, <2>2
  <2>4. ASSUME NEW o \in waiting'[p]  PROVE o \in (Shown(p) \cup InTransit(p))'
    <3>1. o \in waiting[p] /\ (p = Top.p => o \notin gone \/ o \in Shown(p))
      BY <2>2, <2>4
    <3>2. o \in Shown(p) \/ ~Transits(Top, p, o)
      BY <3>1 DEF Transits
    <3> QED
      BY <1>2, <1>3, <2>1, <3>1, <3>2
  <2> QED
    BY <2>3, <2>4
<1>6. ToldRight'
  BY <1>0, <1>1, <1>4, <1>5 DEF ToldRight, HandlerToldOnce, StaleKnown
<1> QED
  BY <1>2, <1>3, <1>6, PartsNext

LEMMA ShowKept ==
  ASSUME IInv, frames # <<>>, NEW f, NEW before, NEW gone, Show(f, before, gone), Top.op \in Drawing,
         f.p = Top.p, f.id = Top.id, Live(f.id), menu[f.id].obj = f.obj, f.page \in Nat,
         Top.op \in {"turn", "text"} => Top.obj \in gone \cup {f.obj}
  PROVE  IInv'
<1>0. Tables /\ Screens /\ ToldRight
  BY Parts
<1> DEFINE s == [id |-> f.id, page |-> f.page, keys |-> {l[1] : l \in f.legend},
                 text |-> before \cup ({f.page} \X f.legend)]
           p0 == f.p
<1>1. /\ screen' = [screen EXCEPT ![p0] = s]
      /\ waiting' = [waiting EXCEPT ![p0] = (waiting[p0] \ (Shown(p0) \cup gone)) \cup {f.obj}]
      /\ frames' = Below /\ UNCHANGED tableVars /\ ingame' = ingame
      /\ UNCHANGED <<extra, stale>>
  BY DEF Show
<1>2. DOMAIN s = ScreenFields /\ s.id = f.id /\ s.page = f.page
  BY DEF ScreenFields
<1>3. p0 \in Players /\ p0 \in ingame /\ f.id \in Id /\ f.obj \in Obj
  <2>1. Top.p \in ingame /\ ingame \subseteq Players
    BY <1>0, TopFacts DEF Screens
  <2>2. f.id \in Id /\ menu[f.id] # NoMenu
    BY DEF Live
  <2> QED
    BY <1>0, <2>1, <2>2 DEF Tables
<1> HIDE DEF s, p0
<1>4. /\ DOMAIN screen' = Players /\ screen'[p0] = s
      /\ \A q \in Players : q # p0 => screen'[q] = screen[q]
  BY <1>0, <1>1, <1>3 DEF Screens
<1>5. Tables' /\ (\A i : Live(i)' <=> Live(i)) /\ menu' = menu /\ made' = made
  BY <1>1, TablesSame DEF tableVars
<1>6. Screens'
  <2>1. \A q \in Players : /\ DOMAIN screen'[q] = ScreenFields
                           /\ screen'[q].id \in Id \cup {-1} /\ screen'[q].page \in Nat
    BY <1>0, <1>2, <1>3, <1>4 DEF Screens
  <2>2. \A q \in Players : screen'[q].id # -1 => Live(screen'[q].id) /\ q \in ingame
    BY <1>0, <1>2, <1>3, <1>4 DEF Screens, ScreensDenote
  <2>3. ScreensDenote'
    BY <1>1, <1>5, <2>2 DEF ScreensDenote
  <2> QED
    BY <1>0, <1>1, <1>4, <2>1, <2>3 DEF Screens
<1>7. World(Len(frames) - 1)
  <2>1. ASSUME NEW k \in 1 .. Len(frames) - 1, NEW i \in Id, frames[k].op = "destroy", frames[k].id = i
        PROVE  /\ Live(i)' /\ menu'[i].dying
               /\ \A q \in Players : screen'[q].id = screen[q].id \/ screen'[q].id # i
    <3>0. Len(frames) \in Nat \ {0}
      BY TopFacts
    <3>1. k \in 1 .. Len(frames) /\ Len(frames) # 1
      BY <3>0, Levels
    <3>2. Live(i) /\ menu[i].dying
      BY <2>1, <3>1, DestroyFacts
    <3>3. f.id # i
      <4>1. Top.op \in {"display", "text"}
        BY <3>1, TopFacts DEF Drawing
      <4> QED
        BY <2>1, <4>1, TopFacts
    <3> QED
      BY <1>2, <1>4, <1>5, <3>2, <3>3
  <2>2. made \in Nat
    BY <1>0 DEF Tables
  <2> QED
    BY <1>1, <1>5, <2>1, <2>2 DEF World
<1>8. StackGood' /\ \A p, o : o \in InTransit(p) /\ ~Transits(Top, p, o) => o \in InTransit(p)'
  BY <1>1, <1>7, PopStep
<1>9. /\ \A q \in Players : q # p0 => Shown(q)' = Shown(q)
      /\ Shown(p0)' = {f.obj}
  <2>1. ASSUME NEW q \in Players, q # p0  PROVE Shown(q)' = Shown(q)
    <3>1. screen'[q] = screen[q] /\ (Live(screen[q].id)' <=> Live(screen[q].id))
      BY <1>4, <1>5, <2>1
    <3> QED
      BY <1>5, <3>1, ShownFacts
  <2>2. Live(screen[p0].id)'
    BY <1>2, <1>4, <1>5
  <2> QED
    BY <1>2, <1>4, <1>5, <2>1, <2>2, ShownFacts
<1>10. ToldRight'
  <2>1. /\ waiting' \in [Players -> SUBSET Obj]
        /\ waiting'[p0] = (waiting[p0] \ (Shown(p0) \cup gone)) \cup {f.obj}
        /\ \A q \in Players : q # p0 => waiting'[q] = waiting[q]
    BY <1>0, <1>1, <1>3 DEF ToldRight
  <2>2. ASSUME NEW q \in Players
        PROVE  Shown(q)' \subseteq waiting'[q] /\ waiting'[q] \subseteq (Shown(q) \cup InTransit(q))'
    <3>1. Shown(q) \subseteq waiting[q] /\ waiting[q] \subseteq Shown(q) \cup InTransit(q)
      BY <1>0 DEF ToldRight, HandlerToldOnce
    <3>2. CASE q = p0
      <4>1. Shown(q)' \subseteq waiting'[q]
        BY <3>2, <1>9, <2>1
      <4>2. ASSUME NEW o \in waiting'[q]  PROVE o \in (Shown(q) \cup InTransit(q))'
        <5>1. o = f.obj \/ (o \in waiting[q] /\ o \notin Shown(q) /\ o \notin gone)
          BY <3>2, <2>1, <4>2
        <5>2. CASE o = f.obj
          BY <3>2, <5>2, <1>9
        <5>3. CASE o # f.obj
          <6>1. ~Transits(Top, q, o)
            BY <5>1, <5>3 DEF Transits
          <6> QED
            BY <3>1, <5>1, <5>3, <6>1, <1>8
        <5> QED
          BY <5>2, <5>3
      <4> QED
        BY <4>1, <4>2
    <3>3. CASE q # p0
      <4>1. \A o : ~Transits(Top, q, o)
        BY <3>3 DEF Transits, p0
      <4> QED
        BY <3>1, <3>3, <4>1, <1>8, <1>9, <2>1
    <3> QED
      BY <3>2, <3>3
  <2> QED
    BY <1>0, <1>1, <2>1, <2>2 DEF ToldRight, HandlerToldOnce, StaleKnown
<1> QED
  BY <1>5, <1>6, <1>8, <1>10, PartsNext

LEMMA LiveMenu ==
  ASSUME IInv, NEW i, Live(i)
  PROVE  /\ i \in Id /\ menu[i] \in Records /\ menu[i].obj \in Obj /\ menu[i].obj \in 1 .. made
         /\ i # -1 /\ made \in Nat /\ menu[i].obj \in 0 .. MaxMade
         /\ \A j \in Id : Live(j) /\ menu[j].obj = menu[i].obj => j = i
<1>1. i \in Id /\ menu[i] # NoMenu
  BY DEF Live
<1>2. Tables
  BY Parts
<1>3. menu[i] \in Records /\ menu[i].obj \in Obj /\ menu[i].obj \in 1 .. made /\ made \in Nat
  BY <1>1, <1>2 DEF Tables, AllocationsDiffer
<1>4. \A j \in Id : Live(j) /\ menu[j].obj = menu[i].obj => j = i
  BY <1>1, <1>2 DEF Tables, AllocationsDiffer
<1>5. i # -1
  BY <1>1 DEF Id
<1>6. menu[i].obj \in 0 .. MaxMade
  BY <1>3 DEF Records
<1> QED
  BY <1>1, <1>3, <1>4, <1>5, <1>6

\* The page is about to be drawn: nothing the native found has changed.
LEMMA DisplayKept ==
  ASSUME IInv, frames # <<>>, Top.op \in {"display", "turn"},
         NEW f, DOMAIN f = FrameFields, f.p = Top.p, f.id = Top.id, f.obj = Top.obj,
         f.todo = Top.todo, f.page \in Int, Live(f.id),
         Top.op = "display" => menu[f.id].obj = f.obj,
         Display(f, menu[f.id])
  PROVE  IInv'
<1> DEFINE m == menu[f.id]
           l == Legend(m, f.page)
           drawn == [f EXCEPT !.op = "text", !.obj = m.obj, !.legend = l]
<1>1. \/ GiveUp({f.obj})
      \/ /\ f.page \in 0 .. PageCount(m) - 1 /\ frames' = Instead(Callback(drawn))
         /\ waiting' = [waiting EXCEPT ![f.p] = IF f.obj = m.obj THEN waiting[f.p]
                                                ELSE waiting[f.p] \ {f.obj}]
         /\ UNCHANGED <<tableVars, ingame, screen, extra, stale>>
      \/ f.page \in 0 .. PageCount(m) - 1 /\ Show(drawn, {}, {f.obj})
  BY DEF Display
<1>2. /\ m \in Records /\ m.obj \in Obj /\ m.obj \in 1 .. made /\ m.obj \in 0 .. MaxMade
      /\ f.id \in Id /\ \A j \in Id : Live(j) /\ menu[j].obj = m.obj => j = f.id
  BY LiveMenu
<1> HIDE DEF l, m
<1>3. /\ DOMAIN drawn = FrameFields /\ drawn.op = "text" /\ drawn.p = f.p /\ drawn.id = f.id
      /\ drawn.obj = m.obj /\ drawn.page = f.page /\ drawn.todo = f.todo
  BY DrawnFacts
<1> HIDE DEF drawn
<1>4. PageCount(m) \in Int
  BY <1>2, PageCountTyped
<1>5. f.page \in 0 .. PageCount(m) - 1 => f.page \in Nat
  BY <1>4
<1>6. CASE GiveUp({f.obj})
  BY <1>6, GiveUpKept
<1>7. CASE f.page \in 0 .. PageCount(m) - 1 /\ Show(drawn, {}, {f.obj})
  <2>1. drawn.page \in Nat /\ Live(drawn.id) /\ menu[drawn.id].obj = drawn.obj
    BY <1>3, <1>5, <1>7 DEF m
  <2> QED
    BY <1>3, <1>7, <2>1, ShowKept DEF Drawing
<1>8. CASE /\ f.page \in 0 .. PageCount(m) - 1 /\ frames' = Instead(Callback(drawn))
           /\ waiting' = [waiting EXCEPT ![f.p] = IF f.obj = m.obj THEN waiting[f.p]
                                                  ELSE waiting[f.p] \ {f.obj}]
           /\ UNCHANGED <<tableVars, ingame, screen, extra, stale>>
  <2> DEFINE g == Callback(drawn)
  <2>1. Alike(g, drawn)
    BY <1>3, CallbackFacts
  <2>2. /\ DOMAIN g = FrameFields /\ g.op = "text" /\ g.p = Top.p /\ g.id = Top.id
        /\ g.obj = m.obj /\ g.page = f.page /\ g.todo = Top.todo /\ g.page \in Nat
    BY <1>3, <1>5, <1>8, <2>1 DEF Alike
  <2> HIDE DEF g
  <2>3. /\ Tables' /\ Screens' /\ (\A p : Shown(p)' = Shown(p))
        /\ (\A k \in 0 .. Len(frames) : World(k)) /\ \A i : Live(i)' <=> Live(i)
    BY <1>8, TablesSame, ScreensSame
  <2>4. World(Len(frames) - 1) /\ UNCHANGED <<menu, made, ingame>>
    BY <1>8, <2>3, TopFacts DEF tableVars
  <2>5. FrameTyped(g)
    BY <1>2, <2>2, TopFacts DEF FrameTyped, Ops
  <2>6. Top.p \in ingame /\ \A j \in 1 .. Len(frames) - 1 : frames[j].op = "destroy" => g.id # frames[j].id
    <3>1. CASE Top.op = "display"
      BY <3>1, <2>2, TopFacts DEF Drawing
    <3>2. CASE Top.op = "turn"
      <4>1. Len(frames) = 1
        BY <3>2, TopFacts
      <4>2. 1 .. Len(frames) - 1 = {}
        BY <4>1
      <4> QED
        BY <3>2, <4>2, TopFacts DEF Drawing
    <3> QED
      BY <3>1, <3>2
  <2>7. Settles(g, Len(frames))
    BY <1>2, <2>2, <2>3, <2>4, <2>5, <2>6 DEF Settles
  <2>8. /\ StackGood'
        /\ \A p, o : o \in InTransit(p) /\ ~Transits(Top, p, o) => o \in InTransit(p)'
        /\ \A p, o : Transits(g, p, o) => o \in InTransit(p)'
    BY <1>8, <2>4, <2>7, SwapStep DEF g
  <2>9. ToldRight'
    <3>0. ToldRight /\ Top.p \in Players
      BY <2>6, Parts DEF Screens
    <3>1. /\ waiting' \in [Players -> SUBSET Obj]
          /\ \A q \in Players : q # f.p => waiting'[q] = waiting[q]
          /\ waiting'[f.p] = IF f.obj = m.obj THEN waiting[f.p] ELSE waiting[f.p] \ {f.obj}
      BY <1>8, <3>0 DEF ToldRight
    <3>2. f.obj # m.obj => f.obj \notin Shown(f.p)
      <4>1. ASSUME f.obj \in Shown(f.p)  PROVE f.obj = m.obj
        <5>1. Live(screen[f.p].id) /\ menu[screen[f.p].id].obj = f.obj
          BY <4>1, ShownFacts
        <5>2. screen[f.p].id \in Id
          BY <5>1 DEF Live
        <5>3. screen[f.p].id = f.id
          BY <5>1, <5>2, TopFacts DEF Drawing
        <5> QED
          BY <5>1, <5>3 DEF m
      <4> QED
        BY <4>1
    <3>3. ASSUME NEW q \in Players
          PROVE  Shown(q)' \subseteq waiting'[q] /\ waiting'[q] \subseteq (Shown(q) \cup InTransit(q))'
      <4>1. Shown(q) \subseteq waiting[q] /\ waiting[q] \subseteq Shown(q) \cup InTransit(q)
        BY <3>0 DEF ToldRight, HandlerToldOnce
      <4>2. Shown(q)' \subseteq waiting'[q]
        BY <2>3, <3>1, <3>2, <4>1
      <4>3. ASSUME NEW o \in waiting'[q]  PROVE o \in (Shown(q) \cup InTransit(q))'
        <5>1. o \in waiting[q] /\ (q = f.p /\ o = f.obj => f.obj = m.obj)
          BY <3>1, <4>3
        <5>2. Transits(Top, q, o) => Transits(g, q, o)
          BY <5>1, <2>2 DEF Transits
        <5> QED
          BY <2>3, <2>8, <4>1, <5>1, <5>2
      <4> QED
        BY <4>2, <4>3
    <3> QED
      BY <1>8, <3>0, <3>1, <3>3 DEF ToldRight, HandlerToldOnce, StaleKnown
  <2> QED
    BY <2>3, <2>8, <2>9, PartsNext
<1> QED
  BY <1>1, <1>6, <1>7, <1>8

LEMMA DrawnKept ==
  ASSUME IInv, Drawn
  PROVE  IInv'
<1>1. frames # <<>> /\ Top.op = "text"
  BY DEF Drawn, Resumes
<1>2. CASE Live(Top.id) /\ menu[Top.id].obj = Top.obj
  <2>1. Show(Top, text[Top.obj], {})
    BY <1>2 DEF Drawn
  <2> QED
    BY <1>1, <1>2, <2>1, TopFacts, ShowKept DEF Drawing
<1>3. CASE ~(Live(Top.id) /\ menu[Top.id].obj = Top.obj)
  <2>1. UseDeleted("item callback")
    BY <1>3 DEF Drawn
  <2> QED
    BY <2>1, UseDeletedKept
<1> QED
  BY <1>2, <1>3

LEMMA RoundKept ==
  ASSUME IInv, frames # <<>>, Top.op \in {"display", "show"}, MoreToClose(Top), Round(Top)
  PROVE  IInv'
<1> DEFINE g == Callback([Top EXCEPT !.n = @ + 1])
<1>1. Top.p \in Players /\ Live(screen[Top.p].id)
  <2>1. Top.p \in ingame /\ ingame \subseteq Players
    BY TopFacts, Parts DEF Screens, Drawing
  <2> QED
    BY <2>1 DEF MoreToClose
<1>2. Close(Top.p, Instead(g))
  BY DEF Round
<1>3. Alike(g, Top)
  BY TopFacts, RoundFacts
<1> HIDE DEF g
<1>4. /\ Tables' /\ Screens' /\ frames' = Instead(g)
      /\ \A m \in 0 .. Len(frames) : World(m)
      /\ (\A q \in Players : \A o : o \in InTransit(q) => o \in InTransit(q)') => ToldRight'
  BY <1>1, <1>2, CloseFacts
<1>5. World(Len(frames)) /\ World(Len(frames) - 1)
  BY <1>4, TopFacts
<1>6. Settles(g, Len(frames))
  BY <1>3, <1>5, AlikeSettles
<1>7. StackGood' /\ \A p, o : o \in InTransit(p) /\ ~Transits(Top, p, o) => o \in InTransit(p)'
  BY <1>4, <1>5, <1>6, SwapStep
<1>8. \A q \in Players : \A o : o \in InTransit(q) => o \in InTransit(q)'
  BY <1>7 DEF Transits
<1> QED
  BY <1>4, <1>7, <1>8, PartsNext

LEMMA GoOnDisplayingKept ==
  ASSUME IInv, GoOnDisplaying
  PROVE  IInv'
<1>1. /\ frames # <<>> /\ Top.op = "display"
      /\ \/ MoreToClose(Top) /\ Round(Top)
         \/ GiveUp({})
         \/ Live(Top.id) /\ menu[Top.id].obj = Top.obj /\ Display(Top, menu[Top.id])
         \/ UseDeleted("id in use again")
  BY DEF GoOnDisplaying, Resumes
<1>2. CASE Live(Top.id) /\ menu[Top.id].obj = Top.obj /\ Display(Top, menu[Top.id])
  <2>1. DOMAIN Top = FrameFields /\ Top.page \in Int
    BY <1>1, TopFacts DEF FrameTyped
  <2> QED
    BY <1>1, <1>2, <2>1, DisplayKept
<1>3. CASE MoreToClose(Top) /\ Round(Top)
  BY <1>1, <1>3, RoundKept
<1>4. CASE GiveUp({})
  BY <1>1, <1>4, GiveUpKept
<1>5. CASE UseDeleted("id in use again")
  BY <1>5, UseDeletedKept
<1> QED
  BY <1>1, <1>2, <1>3, <1>4, <1>5

LEMMA GoOnTurningKept ==
  ASSUME IInv, GoOnTurning
  PROVE  IInv'
<1> DEFINE pg == screen[Top.p].page + Top.page
           f == [Top EXCEPT !.page = pg]
<1>1. /\ frames # <<>> /\ Top.op = "turn"
      /\ \/ Live(f.id) /\ Display(f, menu[f.id])
         \/ GiveUp({f.obj})
  BY DEF GoOnTurning, Resumes
<1>2. pg \in Int
  <2>1. Top.p \in ingame /\ ingame \subseteq Players /\ Top.page \in Int
    BY <1>1, TopFacts, Parts DEF Screens, Drawing, FrameTyped
  <2>2. screen[Top.p].page \in Nat
    BY <2>1, Parts DEF Screens
  <2> QED
    BY <2>1, <2>2
<1> HIDE DEF pg
<1>3. /\ DOMAIN f = FrameFields /\ f.op = Top.op /\ f.p = Top.p /\ f.id = Top.id
      /\ f.obj = Top.obj /\ f.page = pg /\ f.todo = Top.todo
  BY <1>1, TopFacts, PageFacts
<1> HIDE DEF f
<1>4. CASE Live(f.id) /\ Display(f, menu[f.id])
  BY <1>1, <1>2, <1>3, <1>4, DisplayKept
<1>5. CASE GiveUp({f.obj})
  BY <1>1, <1>3, <1>5, GiveUpKept
<1> QED
  BY <1>1, <1>4, <1>5

-----------------------------------------------------------------------------
(* Natives that start or return *)

LEMMA CloseSettles ==
  ASSUME NEW g, DOMAIN g = FrameFields, FrameTyped(g), g.op = "close", NEW k
  PROVE  Settles(g, k)
BY DEF Settles, Drawing

\* Only pages change on the screens.
LEMMA PagesOnly ==
  ASSUME IInv, UNCHANGED <<tableVars, ingame>>, DOMAIN screen' = Players,
         \A q \in Players : /\ DOMAIN screen'[q] = ScreenFields
                            /\ screen'[q].id = screen[q].id /\ screen'[q].page \in Nat
  PROVE  /\ Screens' /\ (\A q \in Players : Shown(q)' = Shown(q))
         /\ \A m \in 0 .. Len(frames) : World(m)
<1>1. UNCHANGED <<len, menu, freeIds, made>> /\ \A i : Live(i)' <=> Live(i)
  BY TablesSame DEF tableVars
<1>2. Screens
  BY Parts
<1>3. Screens'
  BY <1>1, <1>2 DEF Screens, ScreensDenote
<1>4. ASSUME NEW q \in Players  PROVE Shown(q)' = Shown(q)
  <2>1. screen'[q].id = screen[q].id /\ (Live(screen[q].id)' <=> Live(screen[q].id))
    BY <1>1
  <2> QED
    BY <1>1, <2>1, ShownFacts
<1> QED
  BY <1>3, <1>4, Blanked

LEMMA ClosedKept ==
  ASSUME IInv, Closed
  PROVE  IInv'
<1>1. /\ frames # <<>> /\ Top.op = "close" /\ frames' = Below
      /\ UNCHANGED <<tableVars, ingame, screen>> /\ UNCHANGED histVars
  BY DEF Closed, Resumes
<1>2. /\ Tables' /\ Screens' /\ (\A p : Shown(p)' = Shown(p)) /\ World(Len(frames) - 1)
  BY <1>1, TablesSame, ScreensSame, TopFacts
<1>3. StackGood' /\ \A p, o : o \in InTransit(p) /\ ~Transits(Top, p, o) => o \in InTransit(p)'
  BY <1>1, <1>2, PopStep
<1>4. \A q \in Players : \A o : o \in InTransit(q) => o \in InTransit(q)'
  BY <1>1, <1>3 DEF Transits
<1> QED
  BY <1>1, <1>2, <1>3, <1>4, ToldSame, PartsNext

LEMMA GoOnShowingKept ==
  ASSUME IInv, GoOnShowing
  PROVE  IInv'
<1>1. /\ frames # <<>> /\ Top.op = "show"
      /\ \/ MoreToClose(Top) /\ Round(Top)
         \/ /\ frames' = Below
            /\ screen' = [screen EXCEPT ![Top.p].page = IF Top.n = MaxLoops THEN @ ELSE 0]
            /\ UNCHANGED <<tableVars, ingame>> /\ UNCHANGED histVars
  BY DEF GoOnShowing, Resumes
<1>2. CASE MoreToClose(Top) /\ Round(Top)
  BY <1>1, <1>2, RoundKept
<1>3. CASE /\ frames' = Below
           /\ screen' = [screen EXCEPT ![Top.p].page = IF Top.n = MaxLoops THEN @ ELSE 0]
           /\ UNCHANGED <<tableVars, ingame>> /\ UNCHANGED histVars
  <2> DEFINE p == Top.p
             pg == IF Top.n = MaxLoops THEN screen[p].page ELSE 0
  <2>1. Screens
    BY Parts
  <2>2. p \in Players
    BY <1>1, <2>1, TopFacts DEF Screens
  <2>3. screen' = [screen EXCEPT ![p] = [screen[p] EXCEPT !.page = pg]] /\ pg \in Nat
    BY <1>3, <2>1, <2>2 DEF Screens
  <2> HIDE DEF p, pg
  <2>4. LET s == [screen[p] EXCEPT !.page = pg]
        IN  DOMAIN s = ScreenFields /\ s.id = screen[p].id /\ s.page = pg
    BY <2>1, <2>2 DEF Screens, ScreenFields
  <2>5. /\ DOMAIN screen' = Players /\ screen'[p] = [screen[p] EXCEPT !.page = pg]
        /\ \A q \in Players : q # p => screen'[q] = screen[q]
    BY <2>1, <2>2, <2>3 DEF Screens
  <2>6. \A q \in Players : /\ DOMAIN screen'[q] = ScreenFields
                           /\ screen'[q].id = screen[q].id /\ screen'[q].page \in Nat
    BY <2>1, <2>3, <2>4, <2>5 DEF Screens
  <2>7. /\ Tables' /\ Screens' /\ (\A q \in Players : Shown(q)' = Shown(q))
        /\ World(Len(frames) - 1)
    BY <1>1, <1>3, <2>5, <2>6, TablesSame, PagesOnly, TopFacts
  <2>8. StackGood' /\ \A q, o : o \in InTransit(q) /\ ~Transits(Top, q, o) => o \in InTransit(q)'
    BY <1>1, <1>3, <2>7, PopStep
  <2>9. \A q \in Players : \A o : o \in InTransit(q) => o \in InTransit(q)'
    BY <1>1, <2>8 DEF Transits
  <2> QED
    BY <1>3, <2>7, <2>8, <2>9, ToldSame, PartsNext
<1> QED
  BY <1>1, <1>2, <1>3

LEMMA LeftKept ==
  ASSUME IInv, Left
  PROVE  IInv'
<1> DEFINE p == Top.p
<1>1. /\ frames # <<>> /\ Top.op = "leave" /\ frames' = Below
      /\ screen' = [screen EXCEPT ![p] = Blank(screen[p].page)]
      /\ UNCHANGED <<tableVars, ingame>> /\ UNCHANGED histVars
  BY DEF Left, Resumes
<1>2. Screens
  BY Parts
<1>3. p \in Players /\ screen[p].id = -1
  BY <1>1, <1>2, TopFacts DEF Screens, ScreensDenote
<1> HIDE DEF p
<1>4. /\ DOMAIN screen' = Players /\ screen'[p] = Blank(screen[p].page)
      /\ \A q \in Players : q # p => screen'[q] = screen[q]
  BY <1>1, <1>2, <1>3 DEF Screens
<1>5. DOMAIN screen'[p] = ScreenFields /\ screen'[p].id = -1 /\ screen'[p].page \in Nat
  BY <1>2, <1>3, <1>4, BlankFacts DEF Screens
<1>6. \A q \in Players : /\ DOMAIN screen'[q] = ScreenFields
                         /\ screen'[q].id = screen[q].id /\ screen'[q].page \in Nat
  BY <1>2, <1>3, <1>4, <1>5 DEF Screens
<1>7. /\ Tables' /\ Screens' /\ (\A q \in Players : Shown(q)' = Shown(q))
      /\ World(Len(frames) - 1)
  BY <1>1, <1>4, <1>6, TablesSame, PagesOnly, TopFacts
<1>8. StackGood' /\ \A q, o : o \in InTransit(q) /\ ~Transits(Top, q, o) => o \in InTransit(q)'
  BY <1>1, <1>7, PopStep
<1>9. \A q \in Players : \A o : o \in InTransit(q) => o \in InTransit(q)'
  BY <1>1, <1>8 DEF Transits
<1> QED
  BY <1>1, <1>7, <1>8, <1>9, ToldSame, PartsNext

LEMMA MenuCancelKept ==
  ASSUME IInv, NEW p \in Players, MenuCancel(p)
  PROVE  IInv'
<1>1. Live(screen[p].id) /\ Close(p, Append(frames, LastCall))
  BY DEF MenuCancel
<1>2. /\ Tables' /\ Screens' /\ frames' = Append(frames, LastCall)
      /\ \A m \in 0 .. Len(frames) : World(m)
      /\ (\A q \in Players : \A o : o \in InTransit(q) => o \in InTransit(q)') => ToldRight'
  BY <1>1, CloseFacts
<1>3. Len(frames) \in 0 .. Len(frames)
  BY StackTyped, Levels DEF IInv, Fitting
<1>4. StackGood' /\ \A q : InTransit(q) \subseteq InTransit(q)'
  BY <1>2, <1>3, LastCallFacts, CloseSettles, PushStep
<1> QED
  BY <1>2, <1>4, PartsNext

\* A native starts with a frame that finds what it needs.
LEMMA StartKept ==
  ASSUME IInv, NEW g, frames' = Append(frames, g), UNCHANGED <<tableVars, ingame, screen>>,
         UNCHANGED histVars, Settles(g, Len(frames) + 1)
  PROVE  IInv'
<1>1. Len(frames) \in 0 .. Len(frames)
  BY StackTyped, Levels DEF IInv, Fitting
<1>2. Tables' /\ Screens' /\ (\A q : Shown(q)' = Shown(q)) /\ World(Len(frames))
  BY <1>1, TablesSame, ScreensSame
<1>3. StackGood' /\ \A q : InTransit(q) \subseteq InTransit(q)'
  BY <1>2, PushStep
<1> QED
  BY <1>2, <1>3, ToldSame, PartsNext

LEMMA MenuDisplayKept ==
  ASSUME IInv, NEW p \in Players, NEW id \in Id, NEW pg \in 0 .. MaxItems - 1, MenuDisplay(p, id, pg)
  PROVE  IInv'
<1> DEFINE g == Frame("display", p, id, menu[id].obj, pg)
<1>1. /\ Live(id) /\ ~menu[id].dying /\ p \in ingame /\ frames' = Append(frames, g)
      /\ UNCHANGED <<tableVars, ingame, screen>> /\ UNCHANGED histVars
  BY DEF MenuDisplay, Usable
<1>2. /\ DOMAIN g = FrameFields /\ g.op = "display" /\ g.p = p /\ g.id = id
      /\ g.obj = menu[id].obj /\ g.page = pg /\ g.todo = {}
  BY FrameFacts
<1> HIDE DEF g
<1>3. pg \in Int /\ UNCHANGED <<menu, made, ingame>> /\ \A i : Live(i)' <=> Live(i)
  <2>1. pg \in Int
    BY MenusAssumption
  <2> QED
    BY <1>1, <2>1, TablesSame DEF tableVars
<1>4. FrameTyped(g)
  BY <1>1, <1>2, <1>3, LiveMenu DEF FrameTyped, Ops
<1>5. Len(frames) + 1 - 1 = Len(frames)
  BY StackTyped DEF IInv, Fitting
<1>6. \A j \in 1 .. Len(frames) : frames[j].op = "destroy" => g.id # frames[j].id
  BY <1>1, <1>2, DestroyFacts
<1>7. Settles(g, Len(frames) + 1)
  BY <1>1, <1>2, <1>3, <1>4, <1>5, <1>6, LiveMenu DEF Settles
<1> QED
  BY <1>1, <1>7, StartKept

LEMMA ShowMenuKept ==
  ASSUME IInv, NEW p \in Players, ShowMenu(p)
  PROVE  IInv'
<1> DEFINE g == Frame("show", p, -1, 0, 0)
<1>1. /\ p \in ingame /\ frames' = Append(frames, g)
      /\ UNCHANGED <<tableVars, ingame, screen>> /\ UNCHANGED histVars
  BY DEF ShowMenu
<1>2. /\ DOMAIN g = FrameFields /\ g.op = "show" /\ g.p = p /\ g.id = -1
      /\ g.obj = 0 /\ g.page = 0 /\ g.todo = {}
  BY FrameFacts
<1> HIDE DEF g
<1>3. FrameTyped(g)
  BY <1>2, MenusAssumption DEF FrameTyped, Ops
<1>4. Settles(g, Len(frames) + 1)
  BY <1>1, <1>2, <1>3 DEF Settles, Drawing
<1> QED
  BY <1>1, <1>4, StartKept

-----------------------------------------------------------------------------
(* Menus that come, change and go *)

LEMMA StackIn ==
  ASSUME NEW S, NEW s, IsStack(s), \A k \in 1 .. Len(s) : s[k] \in S
  PROVE  s \in Seq(S)
<1> DEFINE T == {s[k] : k \in DOMAIN s}
<1>1. s \in Seq(T)
  BY DEF IsStack
<1> HIDE DEF T
<1>2. Len(s) \in Nat /\ s \in [1 .. Len(s) -> T]
  BY <1>1, LenProperties
<1>3. s \in [1 .. Len(s) -> S]
  BY <1>2
<1> QED
  BY <1>2, <1>3, SeqDef

\* The menus that are there stay, under their ids, for those on whose screen they are.
LEMMA MenusStay ==
  ASSUME IInv, made' \in Nat, made <= made', UNCHANGED <<ingame, screen>>,
         \A i \in Id : (\E q \in Players : screen[q].id = i) /\ Live(i)
                       => Live(i)' /\ menu'[i].obj = menu[i].obj
  PROVE  Screens' /\ \A q \in Players : Shown(q)' = Shown(q)
<1>1. Screens
  BY Parts
<1>2. ASSUME NEW q \in Players, screen[q].id # -1
      PROVE  /\ Live(screen[q].id) /\ q \in ingame /\ Live(screen[q].id)'
             /\ menu'[screen[q].id].obj = menu[screen[q].id].obj
  <2>1. Live(screen[q].id) /\ q \in ingame /\ screen[q].id \in Id
    BY <1>1, <1>2 DEF Screens, ScreensDenote
  <2>2. PICK i \in Id : i = screen[q].id
    BY <2>1
  <2>3. Live(i)' /\ menu'[i].obj = menu[i].obj
    BY <2>1, <2>2
  <2>4. Live(screen[q].id)'
    BY <2>2, <2>3 DEF Live
  <2> QED
    BY <2>1, <2>2, <2>3, <2>4
<1>3. Screens'
  BY <1>1, <1>2 DEF Screens, ScreensDenote
<1>4. ASSUME NEW q \in Players  PROVE Shown(q)' = Shown(q)
  <2>1. CASE screen[q].id = -1
    <3>1. ~Live(screen[q].id) /\ ~Live(screen[q].id)'
      BY <2>1 DEF Live, Id
    <3> QED
      BY <3>1, ShownFacts
  <2>2. CASE screen[q].id # -1
    BY <1>2, <2>2, ShownFacts
  <2> QED
    BY <2>1, <2>2
<1> QED
  BY <1>3, <1>4

\* Menus come or change; none goes and none becomes another.
LEMMA MenusGrow ==
  ASSUME IInv, made' \in Nat, made <= made', UNCHANGED <<ingame, screen>>,
         \A i \in Id : Live(i) => /\ Live(i)' /\ menu'[i].obj = menu[i].obj
                                  /\ menu[i].dying => menu'[i].dying,
         \A i \in Id : Live(i)' => Live(i) \/ menu'[i].obj > made
  PROVE  /\ Screens' /\ \A q \in Players : Shown(q)' = Shown(q)
         /\ World(Len(frames))
<1>1. Screens' /\ \A q \in Players : Shown(q)' = Shown(q)
  BY MenusStay
<1>2. \A k \in 1 .. Len(frames), i \in Id : frames[k].op = "destroy" /\ frames[k].id = i =>
        /\ Live(i)' /\ menu'[i].dying
        /\ \A q \in Players : screen'[q].id = screen[q].id \/ screen'[q].id # i
  BY DestroyFacts
<1> QED
  BY <1>1, <1>2 DEF World

LEMMA GrownKept ==
  ASSUME IInv, made' \in Nat, made <= made', UNCHANGED <<ingame, screen, frames>>, UNCHANGED histVars,
         \A i \in Id : Live(i) => /\ Live(i)' /\ menu'[i].obj = menu[i].obj
                                  /\ menu[i].dying => menu'[i].dying,
         \A i \in Id : Live(i)' => Live(i) \/ menu'[i].obj > made,
         Tables'
  PROVE  IInv'
<1>1. Screens' /\ (\A q \in Players : Shown(q)' = Shown(q)) /\ World(Len(frames))
  BY MenusGrow
<1>2. StackGood' /\ \A p : InTransit(p)' = InTransit(p)
  BY <1>1, StayStep
<1> QED
  BY <1>1, <1>2, ToldSame, PartsNext

LEMMA MenuCreateKept ==
  ASSUME IInv, MenuCreate
  PROVE  IInv'
<1>0. /\ Tables /\ made \in Nat /\ made < MaxMade /\ len \in Nat /\ made' = made + 1
      /\ UNCHANGED <<ingame, screen, frames>> /\ UNCHANGED histVars
  BY Parts DEF MenuCreate, Tables
<1> DEFINE n == Len(freeIds)
           new == NewMenu(made + 1)
<1>1. /\ new \in Records /\ new.obj = made + 1 /\ ~new.dying /\ new # NoMenu /\ made + 1 \in Obj
      /\ made + 1 \in 0 .. MaxMade
  <2>1. made + 1 \in Obj /\ made + 1 \in 0 .. MaxMade
    BY <1>0, MenusAssumption DEF Obj
  <2> QED
    BY <2>1, NewMenuFacts
<1> HIDE DEF new
<1>2. IsStack(freeIds) /\ n \in Nat /\ \A k \in 1 .. n : freeIds[k] \in Id
  <2>1. freeIds \in Seq(Id)
    BY <1>0 DEF Tables
  <2> QED
    BY <2>1, StackOf, LenProperties, ElementOfSeq
<1>3. \E i0 \in Id :
        /\ ~Live(i0) /\ menu' = [menu EXCEPT ![i0] = new]
        /\ \/ i0 = len /\ len' = len + 1 /\ len < MaxIds /\ freeIds' = freeIds
           \/ /\ freeIds # <<>> /\ i0 = freeIds[n] /\ len' = len /\ i0 < len
              /\ freeIds' = SubSeq(freeIds, 1, n - 1)
  <2>1. CASE freeIds = <<>>
    <3>1. len < MaxIds /\ menu' = [menu EXCEPT ![len] = new] /\ len' = len + 1 /\ freeIds' = freeIds
      BY <2>1 DEF MenuCreate, new
    <3>2. len \in Id /\ ~Live(len)
      BY <1>0, <3>1, MenusAssumption DEF Id, Live
    <3> QED
      BY <3>1, <3>2
  <2>2. CASE freeIds # <<>>
    <3>1. /\ menu' = [menu EXCEPT ![freeIds[n]] = new] /\ len' = len
          /\ freeIds' = SubSeq(freeIds, 1, n - 1)
      BY <2>2 DEF MenuCreate, new
    <3>2. n \in 1 .. n
      <4>1. n \in Nat \ {0}
        BY <1>2, <2>2, Popped
      <4> QED
        BY <4>1
    <3>3. freeIds[n] \in Id /\ freeIds[n] < len /\ ~Live(freeIds[n])
      BY <1>0, <1>2, <3>2 DEF Tables, FreeIdsExact, Live
    <3> QED
      BY <2>2, <3>1, <3>3
  <2> QED
    BY <2>1, <2>2
<1>4. PICK i0 \in Id :
        /\ ~Live(i0) /\ menu' = [menu EXCEPT ![i0] = new]
        /\ \/ i0 = len /\ len' = len + 1 /\ len < MaxIds /\ freeIds' = freeIds
           \/ /\ freeIds # <<>> /\ i0 = freeIds[n] /\ len' = len /\ i0 < len
              /\ freeIds' = SubSeq(freeIds, 1, n - 1)
  BY <1>3
<1>5. /\ menu' \in [Id -> Records] /\ menu'[i0] = new
      /\ \A i \in Id : i # i0 => menu'[i] = menu[i]
  BY <1>0, <1>1, <1>4 DEF Tables
<1>6. /\ Live(i0)' /\ i0 \in Nat
      /\ \A i \in Id : i # i0 => (Live(i)' <=> Live(i))
  <2>1. i0 \in Nat /\ \A i \in Id : i \in Nat
    BY DEF Id
  <2>2. i0 < len'
    BY <1>0, <1>4, <2>1
  <2>3. Live(i0)'
    BY <1>1, <1>5, <2>2 DEF Live
  <2>4. ASSUME NEW i \in Id, i # i0  PROVE i < len' <=> i < len
    BY <1>0, <1>4, <2>1, <2>4
  <2>5. ASSUME NEW i \in Id, i # i0  PROVE Live(i)' <=> Live(i)
    BY <1>5, <2>4, <2>5 DEF Live
  <2> QED
    BY <2>1, <2>3, <2>5
<1>7. AllocationsDiffer'
  <2>1. ASSUME NEW i \in Id, Live(i)'
        PROVE  \/ i = i0 /\ menu'[i].obj = made + 1
               \/ i # i0 /\ Live(i) /\ menu'[i].obj = menu[i].obj /\ menu[i].obj \in 1 .. made
    BY <1>0, <1>1, <1>5, <1>6, <2>1 DEF Tables, AllocationsDiffer
  <2>2. \A i \in Id : Live(i)' => menu'[i].obj \in 1 .. made'
    BY <1>0, <2>1
  <2>3. ASSUME NEW i \in Id, NEW j \in Id, Live(i)', Live(j)', menu'[i].obj = menu'[j].obj
        PROVE  i = j
    <3>1. CASE i = i0 \/ j = i0
      BY <1>0, <2>1, <2>3, <3>1
    <3>2. CASE i # i0 /\ j # i0
      BY <1>0, <2>1, <2>3, <3>2 DEF Tables, AllocationsDiffer
    <3> QED
      BY <3>1, <3>2
  <2> QED
    BY <2>2, <2>3 DEF AllocationsDiffer
<1>8. FreeIdsExact' /\ freeIds' \in Seq(Id) /\ len' \in 0 .. MaxIds
  <2>0. /\ \A k \in 1 .. n : freeIds[k] < len /\ menu[freeIds[k]] = NoMenu
        /\ \A j, k \in 1 .. n : freeIds[j] = freeIds[k] => j = k
        /\ \A i \in Id : i < len /\ menu[i] = NoMenu => \E k \in 1 .. n : freeIds[k] = i
    BY <1>0 DEF Tables, FreeIdsExact
  <2>1. CASE i0 = len /\ len' = len + 1 /\ len < MaxIds /\ freeIds' = freeIds
    <3>1. \A k \in 1 .. n : freeIds[k] < len' /\ freeIds[k] # i0
      <4>1. \A k \in 1 .. n : freeIds[k] \in Nat
        BY <1>2 DEF Id
      <4> QED
        BY <1>0, <2>0, <2>1, <4>1
    <3>2. \A k \in 1 .. n : freeIds[k] < len' /\ menu'[freeIds[k]] = NoMenu
      BY <1>2, <1>5, <2>0, <3>1
    <3>3. ASSUME NEW i \in Id, i < len', menu'[i] = NoMenu
          PROVE  \E k \in 1 .. n : freeIds[k] = i
      <4>1. i # i0 /\ i \in Nat
        BY <1>1, <1>5, <3>3 DEF Id
      <4>2. i < len /\ menu[i] = NoMenu
        BY <1>0, <1>5, <2>1, <3>3, <4>1
      <4> QED
        BY <2>0, <4>2
    <3>4. freeIds' \in Seq(Id) /\ len' \in 0 .. MaxIds
      BY <1>0, <2>1, MenusAssumption DEF Tables
    <3> QED
      BY <2>0, <2>1, <3>2, <3>3, <3>4 DEF FreeIdsExact
  <2>2. CASE /\ freeIds # <<>> /\ i0 = freeIds[n] /\ len' = len /\ i0 < len
             /\ freeIds' = SubSeq(freeIds, 1, n - 1)
    <3>1. /\ IsStack(freeIds') /\ Len(freeIds') = n - 1 /\ n \in Nat \ {0}
          /\ \A k \in 1 .. n - 1 : freeIds'[k] = freeIds[k]
      BY <1>2, <2>2, Popped
    <3>2. n \in 1 .. n /\ \A k \in 1 .. n : k = n \/ k \in 1 .. n - 1
      BY <3>1
    <3>3. \A k \in 1 .. n - 1 : k \in 1 .. n /\ k # n
      BY <3>1
    <3>4. \A k \in 1 .. n - 1 : freeIds[k] # i0
      BY <2>0, <2>2, <3>2, <3>3
    <3>5. \A k \in 1 .. n - 1 : freeIds'[k] < len' /\ menu'[freeIds'[k]] = NoMenu /\ freeIds'[k] \in Id
      BY <1>2, <1>5, <2>0, <2>2, <3>1, <3>3, <3>4
    <3>6. \A j, k \in 1 .. n - 1 : freeIds'[j] = freeIds'[k] => j = k
      BY <2>0, <3>1, <3>3
    <3>7. ASSUME NEW i \in Id, i < len', menu'[i] = NoMenu
          PROVE  \E k \in 1 .. n - 1 : freeIds'[k] = i
      <4>1. i # i0
        BY <1>1, <1>5, <3>7
      <4>2. i < len /\ menu[i] = NoMenu
        BY <1>5, <2>2, <3>7, <4>1
      <4>3. PICK k \in 1 .. n : freeIds[k] = i
        BY <2>0, <4>2
      <4>4. k \in 1 .. n - 1
        BY <2>2, <3>2, <4>1, <4>3
      <4> QED
        BY <3>1, <4>3, <4>4
    <3>8. freeIds' \in Seq(Id) /\ len' \in 0 .. MaxIds
      BY <1>0, <2>2, <3>1, <3>5, StackIn DEF Tables
    <3> QED
      BY <3>1, <3>5, <3>6, <3>7, <3>8 DEF FreeIdsExact
  <2> QED
    BY <1>4, <2>1, <2>2
<1>9. Tables'
  <2>1. made' \in 0 .. MaxMade
    BY <1>0, <1>1
  <2>2. \A i \in Id : menu'[i] = NoMenu \/ menu'[i].obj \in Obj
    BY <1>0, <1>1, <1>5 DEF Tables
  <2> QED
    BY <1>5, <1>7, <1>8, <2>1, <2>2 DEF Tables
<1>10. made' \in Nat /\ made <= made' /\ made + 1 > made
  BY <1>0
<1>11. \A i \in Id : Live(i) => /\ Live(i)' /\ menu'[i].obj = menu[i].obj
                                /\ menu[i].dying => menu'[i].dying
  BY <1>4, <1>5, <1>6
<1>12. \A i \in Id : Live(i)' => Live(i) \/ menu'[i].obj > made
  BY <1>1, <1>5, <1>6, <1>10
<1> QED
  BY <1>0, <1>9, <1>10, <1>11, <1>12, GrownKept

\* A menu that is there is given other items, or starts to die.
LEMMA MenuChanged ==
  ASSUME IInv, NEW id \in Id, Live(id), NEW m2 \in Records, m2.obj = menu[id].obj,
         menu' = [menu EXCEPT ![id] = m2], UNCHANGED <<len, freeIds, made>>
  PROVE  /\ Tables' /\ menu'[id] = m2 /\ made \in Nat
         /\ \A i \in Id : i # id => menu'[i] = menu[i]
         /\ \A i \in Id : (Live(i)' <=> Live(i)) /\ menu'[i].obj = menu[i].obj
<1>1. Tables
  BY Parts
<1>2. /\ menu' \in [Id -> Records] /\ menu'[id] = m2
      /\ \A i \in Id : i # id => menu'[i] = menu[i]
  BY <1>1 DEF Tables
<1>3. m2 # NoMenu /\ m2.obj \in Obj /\ menu[id] # NoMenu
  <2>1. m2.obj \in Obj /\ menu[id] # NoMenu
    BY LiveMenu DEF Live
  <2>2. 0 \notin Obj
    BY DEF Obj
  <2> QED
    BY <2>1, <2>2, NoMenuFacts
<1>4. \A i \in Id : (menu'[i] = NoMenu <=> menu[i] = NoMenu) /\ menu'[i].obj = menu[i].obj
  BY <1>2, <1>3
<1>5. \A i \in Id : Live(i)' <=> Live(i)
  BY <1>4 DEF Live
<1>6. AllocationsDiffer'
  BY <1>1, <1>4, <1>5 DEF Tables, AllocationsDiffer
<1>7. FreeIdsExact'
  <2>1. \A k \in 1 .. Len(freeIds) : freeIds[k] \in Id
    BY <1>1, ElementOfSeq DEF Tables
  <2> QED
    BY <1>1, <1>4, <2>1 DEF Tables, FreeIdsExact
<1> QED
  BY <1>1, <1>2, <1>3, <1>4, <1>5, <1>6, <1>7 DEF Tables

LEMMA MenuAddItemKept ==
  ASSUME IInv, NEW id \in Id, MenuAddItem(id)
  PROVE  IInv'
<1> DEFINE item == [on |-> TRUE, nums |-> 0, lines |-> 0]
           m2 == [menu[id] EXCEPT !.items = Append(@, item)]
<1>1. /\ Live(id) /\ menu' = [menu EXCEPT ![id] = m2]
      /\ UNCHANGED <<len, freeIds, made>> /\ UNCHANGED <<ingame, screen, frames>>
      /\ UNCHANGED histVars
  BY DEF MenuAddItem, Usable
<1>2. item \in Items
  BY DEF Items
<1> HIDE DEF item
<1>3. m2 \in Records /\ m2.obj = menu[id].obj /\ m2.dying = menu[id].dying
  BY <1>1, <1>2, LiveMenu, ItemAdded
<1> HIDE DEF m2
<1>4. /\ Tables' /\ menu'[id] = m2 /\ made \in Nat
      /\ \A i \in Id : i # id => menu'[i] = menu[i]
      /\ \A i \in Id : (Live(i)' <=> Live(i)) /\ menu'[i].obj = menu[i].obj
  BY <1>1, <1>3, MenuChanged
<1>5. \A i \in Id : Live(i) => /\ Live(i)' /\ menu'[i].obj = menu[i].obj
                               /\ menu[i].dying => menu'[i].dying
  BY <1>3, <1>4
<1>6. made' \in Nat /\ made <= made'
  BY <1>1, <1>4
<1> QED
  BY <1>1, <1>4, <1>5, <1>6, GrownKept

LEMMA MenuDestroyKept ==
  ASSUME IInv, NEW id \in Id, MenuDestroy(id)
  PROVE  IInv'
<1> DEFINE g0 == Frame("destroy", Nobody, id, menu[id].obj, 0)
           g == [g0 EXCEPT !.todo = Players]
           m2 == [menu[id] EXCEPT !.dying = TRUE]
<1>1. /\ Live(id) /\ ~menu[id].dying /\ menu' = [menu EXCEPT ![id] = m2]
      /\ UNCHANGED <<len, freeIds, made>> /\ UNCHANGED <<ingame, screen>>
      /\ frames' = Append(frames, g) /\ UNCHANGED histVars
  BY DEF MenuDestroy, Usable
<1>2. m2 \in Records /\ m2.obj = menu[id].obj /\ m2.dying = TRUE
  BY <1>1, LiveMenu, DyingSet
<1> HIDE DEF m2
<1>3. /\ DOMAIN g = FrameFields /\ g.op = "destroy" /\ g.p = Nobody /\ g.id = id
      /\ g.obj = menu[id].obj /\ g.page = 0 /\ g.todo = Players
  <2>1. /\ DOMAIN g0 = FrameFields /\ g0.op = "destroy" /\ g0.p = Nobody /\ g0.id = id
        /\ g0.obj = menu[id].obj /\ g0.page = 0
    BY FrameFacts
  <2> HIDE DEF g0
  <2> QED
    BY <2>1, TodoFacts
<1> HIDE DEF g
<1>4. /\ Tables' /\ menu'[id] = m2 /\ made \in Nat
      /\ \A i \in Id : i # id => menu'[i] = menu[i]
      /\ \A i \in Id : (Live(i)' <=> Live(i)) /\ menu'[i].obj = menu[i].obj
  BY <1>1, <1>2, MenuChanged
<1>5. \A i \in Id : Live(i) => /\ Live(i)' /\ menu'[i].obj = menu[i].obj
                               /\ menu[i].dying => menu'[i].dying
  BY <1>2, <1>4
<1>6. made' \in Nat /\ made <= made'
  BY <1>1, <1>4
<1>7. Screens' /\ (\A q \in Players : Shown(q)' = Shown(q)) /\ World(Len(frames))
  BY <1>1, <1>4, <1>5, <1>6, MenusGrow
<1>8. FrameTyped(g)
  BY <1>1, <1>3, LiveMenu DEF FrameTyped, Ops
<1>9. Len(frames) + 1 - 1 = Len(frames)
  BY StackTyped DEF IInv, Fitting
<1>10. \A j \in 1 .. Len(frames) : frames[j].op = "destroy" => g.id # frames[j].id
  BY <1>1, <1>3, DestroyFacts
<1>11. Settles(g, Len(frames) + 1)
  BY <1>1, <1>2, <1>3, <1>4, <1>8, <1>9, <1>10 DEF Settles, Drawing
<1>12. StackGood' /\ \A q : InTransit(q) \subseteq InTransit(q)'
  BY <1>1, <1>7, <1>11, PushStep
<1> QED
  BY <1>1, <1>4, <1>7, <1>12, ToldSame, PartsNext

LEMMA DeleteKept ==
  ASSUME IInv, frames # <<>>, Top.op = "destroy", Viewers(Top) = {}, Delete(Top.id)
  PROVE  IInv'
<1>0. PICK id \in Id : id = Top.id
  BY TopFacts
<1> DEFINE n == Len(freeIds)
<1>1. /\ menu' = [menu EXCEPT ![id] = NoMenu] /\ freeIds' = Append(freeIds, id)
      /\ frames' = Below /\ UNCHANGED <<len, made>> /\ UNCHANGED <<ingame, screen>>
      /\ UNCHANGED histVars
  BY <1>0 DEF Delete
<1>2. Tables /\ Screens
  BY Parts
<1>3. Live(id) /\ id < len /\ menu[id] # NoMenu
  BY <1>0, TopFacts DEF Live
<1>4. \A q \in Players : screen[q].id # id
  <2>1. \A q \in Players \ Top.todo : screen[q].id # id
    BY <1>0, TopFacts
  <2>2. \A q \in Top.todo : screen[q].id # id
    BY <1>0 DEF Viewers
  <2> QED
    BY <2>1, <2>2
<1>5. /\ menu' \in [Id -> Records] /\ menu'[id] = NoMenu
      /\ \A i \in Id : i # id => menu'[i] = menu[i]
  BY <1>1, <1>2, <1>3, NoMenuFacts DEF Tables
<1>6. ~Live(id)' /\ \A i \in Id : i # id => (Live(i)' <=> Live(i))
  BY <1>1, <1>5 DEF Live
<1>7. AllocationsDiffer'
  <2>1. \A i \in Id : Live(i)' => Live(i) /\ menu'[i] = menu[i]
    BY <1>5, <1>6
  <2> QED
    BY <1>1, <1>2, <2>1 DEF Tables, AllocationsDiffer
<1>8. FreeIdsExact' /\ freeIds' \in Seq(Id)
  <2>1. /\ freeIds \in Seq(Id) /\ n \in Nat /\ \A k \in 1 .. n : freeIds[k] \in Id
    BY <1>2, LenProperties, ElementOfSeq DEF Tables
  <2>2. /\ \A k \in 1 .. n : freeIds[k] < len /\ menu[freeIds[k]] = NoMenu
        /\ \A j, k \in 1 .. n : freeIds[j] = freeIds[k] => j = k
        /\ \A i \in Id : i < len /\ menu[i] = NoMenu => \E k \in 1 .. n : freeIds[k] = i
    BY <1>2 DEF Tables, FreeIdsExact
  <2>3. /\ freeIds' \in Seq(Id) /\ Len(freeIds') = n + 1 /\ freeIds'[n + 1] = id
        /\ \A k \in 1 .. n : freeIds'[k] = freeIds[k]
    BY <1>1, <1>3, <2>1, AppendProperties
  <2>4. /\ \A k \in 1 .. n + 1 : k = n + 1 \/ k \in 1 .. n
        /\ n + 1 \in 1 .. n + 1 /\ \A k \in 1 .. n : k \in 1 .. n + 1
    BY <2>1
  <2>5. \A k \in 1 .. n : freeIds[k] # id
    BY <1>3, <2>2
  <2>6. \A k \in 1 .. n + 1 : freeIds'[k] < len /\ menu'[freeIds'[k]] = NoMenu
    BY <1>3, <1>5, <2>1, <2>2, <2>3, <2>4
  <2>7. \A j, k \in 1 .. n + 1 : freeIds'[j] = freeIds'[k] => j = k
    BY <2>2, <2>3, <2>4, <2>5
  <2>8. ASSUME NEW i \in Id, i < len, menu'[i] = NoMenu
        PROVE  \E k \in 1 .. n + 1 : freeIds'[k] = i
    <3>1. CASE i = id
      BY <3>1, <2>3, <2>4
    <3>2. CASE i # id
      BY <3>2, <1>5, <2>2, <2>3, <2>4, <2>8
    <3> QED
      BY <3>1, <3>2
  <2> HIDE DEF n
  <2> QED
    BY <1>1, <2>3, <2>6, <2>7, <2>8 DEF FreeIdsExact
<1>9. Tables'
  <2>1. \A i \in Id : menu'[i] = NoMenu \/ menu'[i].obj \in Obj
    BY <1>2, <1>5 DEF Tables
  <2> QED
    BY <1>1, <1>2, <1>5, <1>7, <1>8, <2>1 DEF Tables
<1>10. made \in Nat /\ made' = made /\ made <= made'
  BY <1>1, <1>2 DEF Tables
<1>11. Screens' /\ \A q \in Players : Shown(q)' = Shown(q)
  <2>1. \A i \in Id : (\E q \in Players : screen[q].id = i) /\ Live(i)
                        => Live(i)' /\ menu'[i].obj = menu[i].obj
    BY <1>4, <1>5, <1>6
  <2> QED
    BY <1>1, <1>10, <2>1, MenusStay
<1>12. World(Len(frames) - 1)
  <2>1. ASSUME NEW k \in 1 .. Len(frames) - 1, NEW i \in Id, frames[k].op = "destroy", frames[k].id = i
        PROVE  Live(i)' /\ menu'[i].dying
    <3>0. Len(frames) \in Nat \ {0}
      BY TopFacts
    <3>1. k \in 1 .. Len(frames)
      BY <3>0, Levels
    <3>2. Live(i) /\ menu[i].dying
      BY <2>1, <3>1, DestroyFacts
    <3>3. i # id
      BY <1>0, <2>1, TopFacts
    <3> QED
      BY <1>5, <1>6, <3>2, <3>3
  <2>2. \A i \in Id : Live(i)' => Live(i) /\ menu'[i].obj = menu[i].obj
    BY <1>5, <1>6
  <2> QED
    BY <1>1, <1>10, <2>1, <2>2 DEF World
<1>13. StackGood' /\ \A p, o : o \in InTransit(p) /\ ~Transits(Top, p, o) => o \in InTransit(p)'
  BY <1>1, <1>12, PopStep
<1>14. \A q \in Players : \A o : o \in InTransit(q) => o \in InTransit(q)'
  BY <1>13 DEF Transits
<1> QED
  BY <1>1, <1>9, <1>11, <1>13, <1>14, ToldSame, PartsNext

LEMMA GoOnDestroyingKept ==
  ASSUME IInv, GoOnDestroying
  PROVE  IInv'
<1>1. frames # <<>> /\ Top.op = "destroy"
  BY DEF GoOnDestroying, Resumes
<1>2. CASE Viewers(Top) = {}
  BY <1>1, <1>2, DeleteKept DEF GoOnDestroying
<1>3. CASE Viewers(Top) # {}
  <2>1. PICK q \in Viewers(Top) : Close(q, Instead(Callback([Top EXCEPT !.todo = @ \ {q}])))
    BY <1>3 DEF GoOnDestroying
  <2> DEFINE g == Callback([Top EXCEPT !.todo = @ \ {q}])
  <2>2. /\ DOMAIN g = FrameFields /\ g.op = "destroy" /\ g.p = Top.p /\ g.id = Top.id
        /\ g.obj = Top.obj /\ g.page = Top.page /\ g.todo = Top.todo \ {q}
    BY <1>1, TopFacts, LookedFacts
  <2>3. Close(q, Instead(g))
    BY <2>1
  <2> HIDE DEF g
  <2>4. q \in Players /\ screen[q].id = Top.id /\ Live(screen[q].id)
    BY <1>1, TopFacts DEF Viewers, FrameTyped
  <2>5. /\ Tables' /\ Screens' /\ frames' = Instead(g)
        /\ \A m \in 0 .. Len(frames) : World(m)
        /\ UNCHANGED tableVars
        /\ screen'[q].id = -1 /\ \A r \in Players : r # q => screen'[r] = screen[r]
        /\ (\A r \in Players : \A o : o \in InTransit(r) => o \in InTransit(r)') => ToldRight'
    BY <2>3, <2>4, CloseFacts
  <2>6. World(Len(frames) - 1) /\ menu' = menu /\ \A i : Live(i)' <=> Live(i)
    BY <1>1, <2>5, TopFacts, TablesSame DEF tableVars
  <2>7. FrameTyped(g)
    BY <1>1, <2>2, TopFacts DEF FrameTyped
  <2>8. Live(Top.id) /\ menu[Top.id].dying /\ Top.id \in Id
        /\ \A r \in Players \ Top.todo : screen[r].id # Top.id
    BY <1>1, TopFacts
  <2>9. \A r \in Players \ g.todo : screen'[r].id # Top.id
    <3>1. Top.id # -1
      BY <2>8 DEF Id
    <3> QED
      BY <2>2, <2>5, <2>8, <3>1
  <2>10. \A j \in 1 .. Len(frames) - 1 : frames[j].op = "destroy" => g.id # frames[j].id
    BY <1>1, <2>2, TopFacts
  <2>11. Settles(g, Len(frames))
    BY <2>2, <2>6, <2>7, <2>8, <2>9, <2>10 DEF Settles, Drawing
  <2>12. StackGood' /\ \A p, o : o \in InTransit(p) /\ ~Transits(Top, p, o) => o \in InTransit(p)'
    BY <1>1, <2>5, <2>6, <2>11, SwapStep
  <2>13. \A r \in Players : \A o : o \in InTransit(r) => o \in InTransit(r)'
    BY <1>1, <2>12 DEF Transits
  <2> QED
    BY <2>5, <2>12, <2>13, PartsNext
<1> QED
  BY <1>2, <1>3

-----------------------------------------------------------------------------
(* What players and the game do *)

LEMMA NoFrames ==
  ASSUME IInv, frames = <<>>
  PROVE  /\ Len(frames) = 0 /\ \A g : <<g>> = Append(frames, g)
         /\ \A p, o : o \notin InTransit(p)
<1>1. Len(frames) = 0 /\ \A g : <<g>> = Append(frames, g)
  BY OneFrame
<1>2. \A k \in 1 .. Len(frames) : FALSE
  BY <1>1
<1> QED
  BY <1>1, <1>2, TransitFacts

LEMMA EmptyStack ==
  ASSUME frames' = <<>>
  PROVE  StackGood'
<1>1. IsStack(frames') /\ Len(frames') = 0
  BY OneFrame
<1>2. \A k \in 1 .. Len(frames') : FALSE
  BY <1>1
<1> QED
  BY <1>1, <1>2 DEF StackGood, FramesPlaced, DestroysApart

LEMMA SelectLateKept ==
  ASSUME IInv, NEW p \in Players, SelectLate(p)
  PROVE  IInv'
<1>1. frames = <<>> /\ Live(screen[p].id) /\ Close(p, <<LastCall>>)
  BY DEF SelectLate, Quiet
<1>2. /\ Tables' /\ Screens' /\ frames' = <<LastCall>>
      /\ \A m \in 0 .. Len(frames) : World(m)
      /\ (\A q \in Players : \A o : o \in InTransit(q) => o \in InTransit(q)') => ToldRight'
  BY <1>1, CloseFacts
<1>3. frames' = Append(frames, LastCall) /\ Len(frames) \in 0 .. Len(frames)
  <2>1. Len(frames) \in 0 .. Len(frames)
    BY StackTyped, Levels DEF IInv, Fitting
  <2> QED
    BY <1>1, <1>2, <2>1, NoFrames
<1>4. StackGood' /\ \A q : InTransit(q) \subseteq InTransit(q)'
  BY <1>2, <1>3, LastCallFacts, CloseSettles, PushStep
<1> QED
  BY <1>2, <1>4, PartsNext

\* The page of a menu is turned: its display is on its way to another page.
LEMMA TurnKept ==
  ASSUME IInv, NEW p \in Players, frames = <<>>, Live(screen[p].id),
         screen' = [screen EXCEPT ![p] = Blank(screen[p].page)],
         NEW g, DOMAIN g = FrameFields, g.op = "turn", g.p = p, g.id = screen[p].id,
         g.obj = menu[screen[p].id].obj, g.page \in Int, g.todo = {}, frames' = <<g>>,
         UNCHANGED <<tableVars, ingame>>, UNCHANGED histVars
  PROVE  IInv'
<1>0. Screens /\ ToldRight /\ Shown(p) = {menu[screen[p].id].obj}
  BY Parts, ShownFacts
<1>1. /\ Tables' /\ Screens' /\ \A m \in 0 .. Len(frames) : World(m)
      /\ Shown(p)' = {} /\ \A q \in Players : q # p => Shown(q)' = Shown(q)
  BY OffScreen
<1>2. Len(frames) = 0 /\ frames' = Append(frames, g) /\ \A q, o : o \notin InTransit(q)
  BY NoFrames
<1>3. World(0) /\ UNCHANGED <<menu, made, ingame>> /\ \A i : Live(i)' <=> Live(i)
  <2>1. 0 \in 0 .. Len(frames)
    BY <1>2
  <2> QED
    BY <1>1, <2>1, TablesSame DEF tableVars
<1>4. FrameTyped(g)
  BY LiveMenu DEF FrameTyped, Ops
<1>5. p \in ingame
  BY <1>0, LiveMenu DEF Screens, ScreensDenote
<1>6. Settles(g, 1)
  <2>1. \A j \in 1 .. 1 - 1 : FALSE
    OBVIOUS
  <2> QED
    BY <1>3, <1>4, <1>5, <2>1, LiveMenu DEF Settles
<1>7. StackGood' /\ \A q, o : Transits(g, q, o) => o \in InTransit(q)'
  <2>1. World(Len(frames)) /\ Settles(g, Len(frames) + 1)
    BY <1>2, <1>3, <1>6
  <2> QED
    BY <1>2, <2>1, PushStep
<1>8. menu[screen[p].id].obj \in InTransit(p)'
  BY <1>7 DEF Transits
<1>9. ToldRight'
  <2>1. UNCHANGED <<waiting, extra, stale>>
    BY DEF histVars
  <2>2. ASSUME NEW q \in Players
        PROVE  Shown(q)' \subseteq waiting[q] /\ waiting[q] \subseteq (Shown(q) \cup InTransit(q))'
    <3>1. Shown(q) \subseteq waiting[q] /\ waiting[q] \subseteq Shown(q)
      BY <1>0, <1>2 DEF ToldRight, HandlerToldOnce
    <3>2. CASE q = p
      BY <1>0, <1>1, <1>8, <3>1, <3>2
    <3>3. CASE q # p
      BY <1>1, <3>1, <3>3
    <3> QED
      BY <3>2, <3>3
  <2> QED
    BY <1>0, <2>1, <2>2 DEF ToldRight, HandlerToldOnce, StaleKnown
<1> QED
  BY <1>1, <1>7, <1>9, PartsNext

LEMMA SelectKept ==
  ASSUME IInv, NEW p \in Players, NEW key, Select(p, key)
  PROVE  IInv'
<1> DEFINE s == screen[p]
           m == menu[s.id]
           item == PagekeyToItem(m, s.page, key)
           way == IF item = MENU_BACK THEN -1 ELSE 1
           turn == Frame("turn", p, s.id, m.obj, way)
<1>1. /\ frames = <<>> /\ Live(s.id)
      /\ screen' = [screen EXCEPT ![p] = Blank(screen[p].page)]
      /\ \/ /\ frames' = <<IF m.obj \in Turning THEN Callback(turn) ELSE turn>>
            /\ UNCHANGED histVars
         \/ frames' = <<LastCall>> /\ Told(p, m.obj)
      /\ UNCHANGED <<tableVars, ingame, text>>
  BY DEF Select, Quiet
<1>2. way \in Int
  OBVIOUS
<1> HIDE DEF item, way
<1>3. CASE frames' = <<IF m.obj \in Turning THEN Callback(turn) ELSE turn>> /\ UNCHANGED histVars
  <2> DEFINE g == IF m.obj \in Turning THEN Callback(turn) ELSE turn
  <2>1. /\ DOMAIN turn = FrameFields /\ turn.op = "turn" /\ turn.p = p /\ turn.id = s.id
        /\ turn.obj = m.obj /\ turn.page = way /\ turn.todo = {}
    BY FrameFacts
  <2> HIDE DEF turn
  <2>2. Alike(Callback(turn), turn)
    BY <2>1, CallbackFacts
  <2>3. /\ DOMAIN g = FrameFields /\ g.op = "turn" /\ g.p = p /\ g.id = s.id
        /\ g.obj = m.obj /\ g.page = way /\ g.todo = {}
    <3>1. CASE m.obj \in Turning
      BY <2>1, <2>2, <3>1 DEF Alike
    <3>2. CASE m.obj \notin Turning
      BY <2>1, <3>2
    <3> QED
      BY <3>1, <3>2
  <2>4. frames' = <<g>>
    BY <1>3
  <2> HIDE DEF g
  <2> QED
    BY <1>1, <1>2, <1>3, <2>3, <2>4, TurnKept
<1>4. CASE frames' = <<LastCall>> /\ Told(p, m.obj)
  <2>1. Close(p, <<LastCall>>)
    BY <1>1, <1>4 DEF Close
  <2>2. /\ Tables' /\ Screens' /\ frames' = <<LastCall>>
        /\ \A k \in 0 .. Len(frames) : World(k)
        /\ (\A q \in Players : \A o : o \in InTransit(q) => o \in InTransit(q)') => ToldRight'
    BY <1>1, <2>1, CloseFacts
  <2>3. frames' = Append(frames, LastCall) /\ Len(frames) \in 0 .. Len(frames)
    <3>1. Len(frames) \in 0 .. Len(frames)
      BY StackTyped, Levels DEF IInv, Fitting
    <3> QED
      BY <1>1, <2>2, <3>1, NoFrames
  <2>4. StackGood' /\ \A q : InTransit(q) \subseteq InTransit(q)'
    BY <2>2, <2>3, LastCallFacts, CloseSettles, PushStep
  <2> QED
    BY <2>2, <2>4, PartsNext
<1> QED
  BY <1>1, <1>3, <1>4

LEMMA JoinKept ==
  ASSUME IInv, NEW p \in Players, Join(p)
  PROVE  IInv'
<1>1. /\ frames = <<>> /\ frames' = <<>> /\ p \notin ingame /\ ingame' = ingame \cup {p}
      /\ screen' = [screen EXCEPT ![p] = Blank(screen[p].page)]
      /\ UNCHANGED tableVars /\ UNCHANGED histVars
  BY DEF Join, Quiet
<1>2. Shown(p) = {}
  <2>1. screen[p].id = -1
    BY <1>1, Parts DEF Screens, ScreensDenote
  <2> QED
    BY <2>1, ShownFacts DEF Live, Id
<1>3. /\ Tables' /\ Screens' /\ Shown(p)' = {}
      /\ \A q \in Players : q # p => Shown(q)' = Shown(q)
  BY <1>1, OffScreen
<1>4. StackGood' /\ \A q \in Players : \A o : o \in InTransit(q) => o \in InTransit(q)'
  BY <1>1, EmptyStack, NoFrames
<1> QED
  BY <1>1, <1>2, <1>3, <1>4, ToldSame, PartsNext

LEMMA LeaveKept ==
  ASSUME IInv, NEW p \in Players, Leave(p)
  PROVE  IInv'
<1> DEFINE g == Callback(Frame("leave", p, -1, 0, 0))
<1>1. /\ frames = <<>> /\ ingame' = ingame \ {p}
      /\ screen' = [screen EXCEPT ![p] = Blank(screen[p].page)]
      /\ \/ Live(screen[p].id) /\ Told(p, menu[screen[p].id].obj) /\ frames' = <<g>>
         \/ ~Live(screen[p].id) /\ frames' = frames /\ UNCHANGED histVars
      /\ UNCHANGED tableVars
  BY DEF Leave, Quiet
<1>2. /\ Tables' /\ Screens' /\ Shown(p)' = {}
      /\ \A q \in Players : q # p => Shown(q)' = Shown(q)
  BY <1>1, OffScreen
<1>3. \A q \in Players : \A o : o \in InTransit(q) => o \in InTransit(q)'
  BY <1>1, NoFrames
<1>4. CASE Live(screen[p].id) /\ Told(p, menu[screen[p].id].obj) /\ frames' = <<g>>
  <2>1. /\ DOMAIN g = FrameFields /\ g.op = "leave" /\ g.p = p /\ g.id = -1 /\ g.obj = 0
        /\ g.page = 0 /\ g.todo = {}
    BY FrameFacts, CallbackFacts DEF Alike
  <2> HIDE DEF g
  <2>2. FrameTyped(g)
    BY <2>1, MenusAssumption DEF FrameTyped, Ops
  <2>3. IsStack(frames') /\ Len(frames') = 1 /\ frames'[1] = g
    <3>1. IsStack(<<>>) /\ Len(<<>>) = 0 /\ frames' = Append(<<>>, g)
      BY <1>4, OneFrame
    <3>2. LET t == Append(<<>>, g) IN IsStack(t) /\ Len(t) = 0 + 1 /\ t[0 + 1] = g
      BY <3>1, Pushed
    <3>3. 0 + 1 = 1
      OBVIOUS
    <3> QED
      BY <3>1, <3>2, <3>3
  <2>4. \A k \in 1 .. Len(frames') : k = 1
    BY <2>3
  <2>5. Placed(1)'
    BY <1>1, <2>1, <2>3 DEF Placed, Drawing
  <2>6. FramesPlaced'
    BY <2>4, <2>5 DEF FramesPlaced
  <2>7. DestroysApart'
    <3>1. \A j, k \in 1 .. Len(frames') : ~(k < j)
      BY <2>4
    <3> QED
      BY <3>1 DEF DestroysApart
  <2>8. StackGood'
    BY <2>1, <2>2, <2>3, <2>4, <2>6, <2>7 DEF StackGood
  <2>9. ToldRight'
    BY <1>2, <1>3, <1>4, ToldOnce
  <2> QED
    BY <1>2, <2>8, <2>9, PartsNext
<1>5. CASE ~Live(screen[p].id) /\ frames' = frames /\ UNCHANGED histVars
  <2>1. StackGood' /\ Shown(p) = {}
    BY <1>1, <1>5, EmptyStack, ShownFacts
  <2> QED
    BY <1>2, <1>3, <1>5, <2>1, ToldSame, PartsNext
<1> QED
  BY <1>1, <1>4, <1>5

LEMMA Client_ShowMenuKept ==
  ASSUME IInv, NEW p \in Players, Client_ShowMenu(p)
  PROVE  IInv'
<1>1. /\ screen' = [screen EXCEPT ![p] = Blank(screen[p].page)]
      /\ waiting' = [waiting EXCEPT ![p] = waiting[p] \ Shown(p)]
      /\ UNCHANGED tableVars /\ ingame' = ingame /\ frames' = frames
      /\ UNCHANGED <<extra, stale>>
  BY DEF Client_ShowMenu
<1>2. /\ Tables' /\ Screens' /\ \A m \in 0 .. Len(frames) : World(m)
      /\ Shown(p)' = {} /\ \A q \in Players : q # p => Shown(q)' = Shown(q)
  BY <1>1, OffScreen
<1>3. Len(frames) \in 0 .. Len(frames)
  BY StackTyped, Levels DEF IInv, Fitting
<1>4. StackGood' /\ \A q : InTransit(q)' = InTransit(q)
  BY <1>1, <1>2, <1>3, StayStep
<1>5. ToldRight
  BY Parts
<1>6. /\ waiting' \in [Players -> SUBSET Obj] /\ waiting'[p] = waiting[p] \ Shown(p)
      /\ \A q \in Players : q # p => waiting'[q] = waiting[q]
  BY <1>1, <1>5 DEF ToldRight
<1>7. ASSUME NEW q \in Players
      PROVE  Shown(q)' \subseteq waiting'[q] /\ waiting'[q] \subseteq (Shown(q) \cup InTransit(q))'
  <2>1. Shown(q) \subseteq waiting[q] /\ waiting[q] \subseteq Shown(q) \cup InTransit(q)
    BY <1>5 DEF ToldRight, HandlerToldOnce
  <2>2. CASE q = p
    BY <1>2, <1>4, <1>6, <2>1, <2>2
  <2>3. CASE q # p
    BY <1>2, <1>4, <1>6, <2>1, <2>3
  <2> QED
    BY <2>2, <2>3
<1>8. ToldRight'
  BY <1>1, <1>5, <1>6, <1>7 DEF ToldRight, HandlerToldOnce, StaleKnown
<1> QED
  BY <1>2, <1>4, <1>8, PartsNext

\* The tables when there is no menu, and the rest with nobody in the game.
NoMenus == len = 0 /\ menu = [i \in Id |-> NoMenu] /\ freeIds = <<>> /\ made = 0

LEMMA EmptyTables == NoMenus => Tables /\ \A i : ~Live(i)
<1> SUFFICES ASSUME NoMenus PROVE Tables /\ \A i : ~Live(i)
  OBVIOUS
<1> USE DEF NoMenus
<1>1. menu \in [Id -> Records] /\ \A i \in Id : menu[i] = NoMenu
  BY NoMenuFacts
<1>2. \A i : ~Live(i)
  BY <1>1 DEF Live
<1>3. AllocationsDiffer
  BY <1>2 DEF AllocationsDiffer
<1>4. freeIds \in Seq(Id) /\ Len(freeIds) = 0
  BY EmptySeq
<1>5. FreeIdsExact
  <2>1. \A k \in 1 .. Len(freeIds) : FALSE
    BY <1>4
  <2>2. \A i \in Id : ~(i < len)
    BY DEF Id
  <2> QED
    BY <2>1, <2>2 DEF FreeIdsExact
<1>6. 0 \in 0 .. MaxIds /\ 0 \in 0 .. MaxMade
  BY MenusAssumption
<1> QED
  BY <1>1, <1>2, <1>3, <1>4, <1>5, <1>6 DEF Tables

LEMMA EmptyRest ==
  ASSUME ingame = {}, DOMAIN screen = Players, frames = <<>>,
         \A p \in Players : /\ DOMAIN screen[p] = ScreenFields
                            /\ screen[p].id = -1 /\ screen[p].page \in Nat,
         waiting = [p \in Players |-> {}], ~extra, extra \in BOOLEAN, StaleKnown
  PROVE  Screens /\ StackGood /\ ToldRight
<1>1. Screens
  BY DEF Screens, ScreensDenote
<1>2. StackGood
  <2>1. IsStack(frames) /\ Len(frames) = 0
    BY OneFrame
  <2>2. \A k \in 1 .. Len(frames) : FALSE
    BY <2>1
  <2> QED
    BY <2>1, <2>2 DEF StackGood, FramesPlaced, DestroysApart
<1>3. ASSUME NEW p \in Players  PROVE Shown(p) = {} /\ waiting[p] = {}
  <2>1. ~Live(screen[p].id)
    BY DEF Live, Id
  <2> QED
    BY <2>1, ShownFacts
<1>4. ToldRight
  BY <1>3 DEF ToldRight, HandlerToldOnce
<1> QED
  BY <1>1, <1>2, <1>4

LEMMA InitInv == Init => IInv
<1> SUFFICES ASSUME Init PROVE IInv
  OBVIOUS
<1>1. Tables
  BY EmptyTables DEF Init, NoMenus
<1>2. \A p \in Players : screen[p] = Blank(0)
  BY DEF Init
<1>3. \A p \in Players : /\ DOMAIN screen[p] = ScreenFields
                         /\ screen[p].id = -1 /\ screen[p].page \in Nat
  BY <1>2, BlankFacts
<1>4. Screens /\ StackGood /\ ToldRight
  BY <1>3, EmptyRest DEF Init, StaleKnown
<1> QED
  BY <1>1, <1>4, Parts

LEMMA ClearMenusKept ==
  ASSUME IInv, ClearMenus
  PROVE  IInv'
<1>1. /\ frames' = <<>> /\ len' = 0 /\ menu' = [i \in Id |-> NoMenu] /\ freeIds' = <<>>
      /\ made' = 0 /\ ingame' = {} /\ screen' = [p \in Players |-> Blank(screen[p].page)]
      /\ waiting' = [p \in Players |-> {}] /\ UNCHANGED <<extra, stale>>
  BY DEF ClearMenus, Quiet
<1>2. Screens /\ ToldRight
  BY Parts
<1>3. Tables' /\ \A i : ~Live(i)'
  <2>1. NoMenus'
    BY <1>1 DEF NoMenus
  <2>2. (NoMenus => Tables /\ \A i : ~Live(i))'
    BY EmptyTables, PTL
  <2> QED
    BY <2>1, <2>2
<1>4. /\ DOMAIN screen' = Players
      /\ \A p \in Players : /\ DOMAIN screen'[p] = ScreenFields
                            /\ screen'[p].id = -1 /\ screen'[p].page \in Nat
  BY <1>1, <1>2, BlankFacts DEF Screens
<1>5. Screens'
  BY <1>1, <1>4 DEF Screens, ScreensDenote
<1>6. StackGood'
  BY <1>1, EmptyStack
<1>7. \A p \in Players : Shown(p)' = {} /\ waiting'[p] = {}
  BY <1>1, <1>3, ShownFacts
<1>8. ToldRight'
  BY <1>1, <1>2, <1>7 DEF ToldRight, HandlerToldOnce, StaleKnown
<1> QED
  BY <1>3, <1>5, <1>6, <1>8, PartsNext

LEMMA StutterKept ==
  ASSUME IInv, UNCHANGED vars
  PROVE  IInv'
<1>1. UNCHANGED <<tableVars, ingame, screen>> /\ frames' = frames /\ UNCHANGED histVars
  BY DEF vars
<1>2. Len(frames) \in 0 .. Len(frames)
  BY StackTyped, Levels DEF IInv, Fitting
<1>3. Tables' /\ Screens' /\ (\A q : Shown(q)' = Shown(q)) /\ World(Len(frames))
  BY <1>1, <1>2, TablesSame, ScreensSame
<1>4. StackGood' /\ \A q : InTransit(q)' = InTransit(q)
  BY <1>1, <1>3, StayStep
<1> QED
  BY <1>1, <1>3, <1>4, ToldSame, PartsNext

-----------------------------------------------------------------------------
(* The theorems *)

LEMMA NextInv == IInv /\ [Next]_vars => IInv'
<1> SUFFICES ASSUME IInv, [Next]_vars PROVE IInv'
  OBVIOUS
<1>1. CASE MenuCreate
  BY <1>1, MenuCreateKept
<1>2. CASE \E id \in Id : MenuAddItem(id) \/ MenuDestroy(id)
  BY <1>2, MenuAddItemKept, MenuDestroyKept
<1>3. CASE \E p \in Players : MenuCancel(p) \/ ShowMenu(p)
  BY <1>3, MenuCancelKept, ShowMenuKept
<1>4. CASE \E p \in Players, id \in Id, pg \in 0 .. MaxItems - 1 : MenuDisplay(p, id, pg)
  BY <1>4, MenuDisplayKept
<1>5. CASE Closed \/ Drawn \/ Left
  BY <1>5, ClosedKept, DrawnKept, LeftKept
<1>6. CASE GoOnDisplaying \/ GoOnShowing \/ GoOnTurning
  BY <1>6, GoOnDisplayingKept, GoOnShowingKept, GoOnTurningKept
<1>7. CASE GoOnDestroying
  BY <1>7, GoOnDestroyingKept
<1>8. CASE \E p \in Players : SelectLate(p) \/ \E key \in 1 .. LastKey : Select(p, key)
  BY <1>8, SelectLateKept, SelectKept
<1>9. CASE \E p \in Players : Join(p) \/ Leave(p) \/ Client_ShowMenu(p)
  BY <1>9, JoinKept, LeaveKept, Client_ShowMenuKept
<1>10. CASE ClearMenus
  BY <1>10, ClearMenusKept
<1>11. CASE UNCHANGED vars
  BY <1>11, StutterKept
<1> QED
  BY <1>1, <1>2, <1>3, <1>4, <1>5, <1>6, <1>7, <1>8, <1>9, <1>10, <1>11
     DEF Next, Native, GoOn, Client

\* Everything the natives rely on while their callbacks run, whatever those do.
THEOREM Invariant == Spec => []IInv
<1>1. Init => IInv
  BY InitInv
<1>2. IInv /\ [Next]_vars => IInv'
  BY NextInv
<1> QED
  BY <1>1, <1>2, PTL DEF Spec

\* Every display has its handler told once, and only once, unless the game or a
\* callback takes the screen over; however deep the natives nest.
THEOREM ToldExactlyOnce == Spec => []HandlerToldOnce
<1>1. IInv => HandlerToldOnce
  BY DEF IInv
<1> QED
  BY <1>1, Invariant, PTL

\* The menu a player has on the screen belongs to a player in the game, and a
\* native that draws it or destroys it still finds that very menu under its id.
THEOREM NativesFindTheirs == Spec => [](ScreensDenote /\ FramesPlaced /\ DestroysApart)
<1>1. IInv => ScreensDenote /\ FramesPlaced /\ DestroysApart
  BY DEF IInv
<1> QED
  BY <1>1, Invariant, PTL

-----------------------------------------------------------------------------
(* Sums of blanks *)

LEMMA LeastElement ==
  ASSUME NEW T, T \subseteq Nat, T # {}
  PROVE  \E m \in T : \A k \in T : m <= k
<1>1. PICK m \in T : \A k \in T : <<k, m>> \notin OpToRel(<, Nat)
  BY NatLessThanWellFounded, WFMin
<1>2. ASSUME NEW k \in T PROVE m <= k
  <2>1. k \in Nat /\ m \in Nat
    OBVIOUS
  <2>2. ~(k < m)
    BY <1>1, <2>1 DEF OpToRel
  <2> QED
    BY <2>1, <2>2
<1> QED
  BY <1>2

\* Induction over the numbers from 0 to n, for a set of numbers.
LEMMA UpTo ==
  ASSUME NEW n \in Nat, NEW T, 0 \in T, \A i \in 0 .. n - 1 : i \in T => i + 1 \in T
  PROVE  0 .. n \subseteq T
<1> DEFINE F == (0 .. n) \ T
<1> SUFFICES ASSUME F # {} PROVE FALSE
  OBVIOUS
<1>1. PICK m \in F : \A k \in F : m <= k
  <2>1. F \subseteq Nat
    OBVIOUS
  <2> HIDE DEF F
  <2> QED
    BY <2>1, LeastElement
<1>2. m \in Nat /\ m # 0 /\ m <= n /\ m \notin T
  OBVIOUS
<1>3. m - 1 \in 0 .. n - 1 /\ (m - 1) + 1 = m /\ ~(m <= m - 1) /\ m - 1 \in 0 .. n
  BY <1>2
<1>4. m - 1 \in T
  BY <1>1, <1>3
<1> QED
  BY <1>2, <1>3, <1>4

IsSum(s, f, n) == s = [k \in 0 .. n |-> IF k = 0 THEN 0 ELSE s[k - 1] + f[k]]

LEMMA SumExists ==
  ASSUME NEW f, NEW n \in Nat
  PROVE  \E s : IsSum(s, f, n)
<1> DEFINE T == {k \in Nat : \E s : IsSum(s, f, k)}
<1>1. 0 \in T
  <2> DEFINE a == [i \in 0 .. 0 |-> 0]
  <2>1. IsSum(a, f, 0)
    BY DEF IsSum
  <2> QED
    BY <2>1
<1>2. ASSUME NEW k \in 0 .. n - 1, k \in T PROVE k + 1 \in T
  <2>1. PICK a : IsSum(a, f, k)
    BY <1>2
  <2> DEFINE b == [i \in 0 .. k + 1 |-> IF i <= k THEN a[i] ELSE a[k] + f[k + 1]]
  <2>2. k \in Nat /\ k + 1 \in Nat
    OBVIOUS
  <2>3. a = [i \in 0 .. k |-> IF i = 0 THEN 0 ELSE a[i - 1] + f[i]]
    BY <2>1 DEF IsSum
  <2>4. ASSUME NEW i \in 0 .. k + 1
        PROVE  b[i] = IF i = 0 THEN 0 ELSE b[i - 1] + f[i]
    <3>1. CASE i = 0
      <4>1. b[0] = a[0] /\ a[0] = 0
        BY <2>2, <2>3
      <4> QED
        BY <3>1, <4>1
    <3>2. CASE i # 0 /\ i <= k
      <4>1. i \in 0 .. k /\ i - 1 \in 0 .. k + 1 /\ i - 1 <= k
        BY <2>2, <3>2
      <4>2. b[i] = a[i] /\ b[i - 1] = a[i - 1]
        BY <3>2, <4>1
      <4>3. a[i] = a[i - 1] + f[i]
        BY <2>3, <3>2, <4>1
      <4> QED
        BY <3>2, <4>2, <4>3
    <3>3. CASE i = k + 1
      <4>1. i # 0 /\ ~(i <= k) /\ i - 1 = k /\ k \in 0 .. k + 1 /\ k <= k
        BY <2>2, <3>3
      <4>2. b[i] = a[k] + f[k + 1] /\ b[k] = a[k]
        BY <4>1
      <4> QED
        BY <3>3, <4>1, <4>2
    <3> QED
      BY <2>2, <3>1, <3>2, <3>3
  <2>5. b = [i \in 0 .. k + 1 |-> b[i]]
    OBVIOUS
  <2> HIDE DEF b
  <2>6. b = [i \in 0 .. k + 1 |-> IF i = 0 THEN 0 ELSE b[i - 1] + f[i]]
    BY <2>4, <2>5
  <2> QED
    BY <2>2, <2>6 DEF IsSum
<1> HIDE DEF T
<1>3. n \in T
  BY <1>1, <1>2, UpTo
<1> QED
  BY <1>3 DEF T

LEMMA SumsStep ==
  ASSUME NEW f, NEW n \in Nat
  PROVE  /\ Sums(f, n)[0] = 0
         /\ \A k \in 1 .. n : Sums(f, n)[k] = Sums(f, n)[k - 1] + f[k]
<1>1. \E s : IsSum(s, f, n)
  BY SumExists
<1>2. Sums(f, n) = CHOOSE s : s = [k \in 0 .. n |-> IF k = 0 THEN 0 ELSE s[k - 1] + f[k]]
  BY DEF Sums
<1>3. IsSum(Sums(f, n), f, n)
  BY <1>1, <1>2 DEF IsSum
<1> DEFINE s == Sums(f, n)
<1>4. s = [k \in 0 .. n |-> IF k = 0 THEN 0 ELSE s[k - 1] + f[k]]
  BY <1>3 DEF IsSum
<1> HIDE DEF s
<1>5. 0 \in 0 .. n /\ \A k \in 1 .. n : k \in 0 .. n /\ k # 0
  OBVIOUS
<1>6. s[0] = 0 /\ \A k \in 1 .. n : s[k] = s[k - 1] + f[k]
  BY <1>4, <1>5
<1> QED
  BY <1>6 DEF s

\* Sums of natural numbers grow, strictly so with their places added.
LEMMA SumsGrow ==
  ASSUME NEW n \in Nat, NEW f \in [1 .. n -> Nat]
  PROVE  /\ \A k \in 0 .. n : Sums(f, n)[k] \in Nat
         /\ \A i, j \in 0 .. n : i <= j => Sums(f, n)[i] <= Sums(f, n)[j]
<1> DEFINE s == Sums(f, n)
<1>0. s[0] = 0 /\ \A k \in 1 .. n : s[k] = s[k - 1] + f[k]
  BY SumsStep
<1> HIDE DEF s
<1> DEFINE T == {k \in 0 .. n : s[k] \in Nat /\ \A i \in 0 .. k : s[i] \in Nat /\ s[i] <= s[k]}
<1>1. 0 \in T
  BY <1>0
<1>2. ASSUME NEW k \in 0 .. n - 1, k \in T PROVE k + 1 \in T
  <2>1. k + 1 \in 1 .. n /\ k + 1 \in 0 .. n /\ (k + 1) - 1 = k
        /\ \A i \in 0 .. k + 1 : i = k + 1 \/ i \in 0 .. k
    OBVIOUS
  <2>2. s[k + 1] = s[k] + f[k + 1] /\ f[k + 1] \in Nat
    BY <1>0, <2>1
  <2>3. s[k] \in Nat /\ \A i \in 0 .. k : s[i] \in Nat /\ s[i] <= s[k]
    BY <1>2
  <2>4. s[k + 1] \in Nat /\ s[k] <= s[k + 1]
    BY <2>2, <2>3
  <2>5. ASSUME NEW i \in 0 .. k + 1  PROVE s[i] \in Nat /\ s[i] <= s[k + 1]
    <3>1. CASE i = k + 1
      BY <2>4, <3>1
    <3>2. CASE i \in 0 .. k
      BY <2>3, <2>4, <3>2
    <3> QED
      BY <2>1, <3>1, <3>2
  <2> QED
    BY <2>1, <2>4, <2>5
<1>3. 0 .. n \subseteq T
  <2> HIDE DEF T
  <2> QED
    BY <1>1, <1>2, UpTo
<1>4. \A k \in 0 .. n : s[k] \in Nat /\ \A i \in 0 .. k : s[i] \in Nat /\ s[i] <= s[k]
  BY <1>3
<1>5. \A i, j \in 0 .. n : i <= j => i \in 0 .. j
  OBVIOUS
<1> QED
  BY <1>4, <1>5 DEF s

LEMMA SumsOfZeros ==
  ASSUME NEW n \in Nat, NEW f, \A k \in 1 .. n : f[k] = 0
  PROVE  \A k \in 0 .. n : Sums(f, n)[k] = 0
<1> DEFINE s == Sums(f, n)
<1>0. s[0] = 0 /\ \A k \in 1 .. n : s[k] = s[k - 1] + f[k]
  BY SumsStep
<1> HIDE DEF s
<1> DEFINE T == {k \in 0 .. n : s[k] = 0}
<1>1. 0 \in T
  BY <1>0
<1>2. ASSUME NEW k \in 0 .. n - 1, k \in T PROVE k + 1 \in T
  <2>1. k + 1 \in 1 .. n /\ k + 1 \in 0 .. n /\ (k + 1) - 1 = k
    OBVIOUS
  <2> QED
    BY <1>0, <1>2, <2>1
<1>3. 0 .. n \subseteq T
  <2> HIDE DEF T
  <2> QED
    BY <1>1, <1>2, UpTo
<1> QED
  BY <1>3 DEF s

-----------------------------------------------------------------------------
(* Pages *)

PageMenu(m) == /\ m.items \in Seq(Items) /\ m.per \in 0 .. 7
               /\ m.never \in BOOLEAN /\ m.force \in BOOLEAN

LEMMA CountTyped ==
  ASSUME NEW m, PageMenu(m)
  PROVE  /\ Count(m) \in Nat /\ m.per \in Nat
         /\ \A k \in 1 .. Count(m) : m.items[k].nums \in Nat /\ m.items[k].lines \in Nat
<1>1. m.items \in Seq(Items) /\ m.per \in 0 .. 7
  BY DEF PageMenu
<1>2. Len(m.items) \in Nat /\ \A k \in 1 .. Len(m.items) : m.items[k] \in Items
  BY <1>1, LenProperties, ElementOfSeq
<1> QED
  BY <1>1, <1>2 DEF Count, Items

LEMMA NumsFacts ==
  ASSUME NEW m, PageMenu(m)
  PROVE  /\ \A i, j \in 0 .. Count(m) : i <= j => Nums(m, i, j) \in Nat
         /\ \A i, j, k \in 0 .. Count(m) : Nums(m, i, k) = Nums(m, i, j) + Nums(m, j, k)
         /\ Nums(m, 0, Count(m)) = 0
              => \A i, j \in 0 .. Count(m) : Nums(m, i, j) = 0
         /\ (\A k \in 1 .. Count(m) : m.items[k].nums = 0)
              => \A i, j \in 0 .. Count(m) : Nums(m, i, j) = 0
<1> DEFINE n == Count(m)
           f == [k \in 1 .. n |-> m.items[k].nums]
           s == Sums(f, n)
<1>1. n \in Nat /\ f \in [1 .. n -> Nat] /\ \A k \in 1 .. n : f[k] = m.items[k].nums
  BY CountTyped
<1>2. \A i, j : Nums(m, i, j) = s[j] - s[i]
  BY DEF Nums
<1> HIDE DEF n, f
<1>3. /\ \A k \in 0 .. n : s[k] \in Nat
      /\ \A i, j \in 0 .. n : i <= j => s[i] <= s[j]
      /\ s[0] = 0
      /\ (\A k \in 1 .. n : f[k] = 0) => \A k \in 0 .. n : s[k] = 0
  BY <1>1, SumsStep, SumsGrow, SumsOfZeros
<1> HIDE DEF s
<1>4. \A i, j \in 0 .. n : i <= j => Nums(m, i, j) \in Nat
  BY <1>1, <1>2, <1>3
<1>5. ASSUME NEW i \in 0 .. n, NEW j \in 0 .. n, NEW k \in 0 .. n
      PROVE  Nums(m, i, k) = Nums(m, i, j) + Nums(m, j, k)
  <2>1. \A a, b, c \in Nat : c - a = (b - a) + (c - b)
    OBVIOUS
  <2> QED
    BY <1>2, <1>3, <2>1
<1>6. ASSUME Nums(m, 0, n) = 0  PROVE \A i, j \in 0 .. n : Nums(m, i, j) = 0
  <2>1. 0 \in 0 .. n /\ n \in 0 .. n
    BY <1>1
  <2>2. s[n] = 0
    BY <1>2, <1>3, <1>6, <2>1
  <2>3. \A k \in 0 .. n : s[k] = 0
    BY <1>1, <1>3, <2>1, <2>2
  <2> QED
    BY <1>2, <2>3
<1>7. ASSUME \A k \in 1 .. n : m.items[k].nums = 0  PROVE \A i, j \in 0 .. n : Nums(m, i, j) = 0
  <2>1. \A k \in 0 .. n : s[k] = 0
    BY <1>1, <1>3, <1>7
  <2> QED
    BY <1>2, <2>1
<1> QED
  BY <1>4, <1>5, <1>6, <1>7 DEF n

LEMMA LinesFacts ==
  ASSUME NEW m, PageMenu(m)
  PROVE  /\ \A i, j \in 0 .. Count(m) : i <= j => Lines(m, i, j) \in Nat
         /\ (\A k \in 1 .. Count(m) : m.items[k].lines = 0)
              => \A i, j \in 0 .. Count(m) : Lines(m, i, j) = 0
<1> DEFINE n == Count(m)
           f == [k \in 1 .. n |-> m.items[k].lines]
           s == Sums(f, n)
<1>1. n \in Nat /\ f \in [1 .. n -> Nat] /\ \A k \in 1 .. n : f[k] = m.items[k].lines
  BY CountTyped
<1>2. \A i, j : Lines(m, i, j) = s[j] - s[i]
  BY DEF Lines
<1> HIDE DEF n, f
<1>3. /\ \A k \in 0 .. n : s[k] \in Nat
      /\ \A i, j \in 0 .. n : i <= j => s[i] <= s[j]
      /\ (\A k \in 1 .. n : f[k] = 0) => \A k \in 0 .. n : s[k] = 0
  BY <1>1, SumsGrow, SumsOfZeros
<1> HIDE DEF s
<1>4. \A i, j \in 0 .. n : i <= j => Lines(m, i, j) \in Nat
  BY <1>1, <1>2, <1>3
<1>7. ASSUME \A k \in 1 .. n : m.items[k].lines = 0  PROVE \A i, j \in 0 .. n : Lines(m, i, j) = 0
  <2>1. \A k \in 0 .. n : s[k] = 0
    BY <1>1, <1>3, <1>7
  <2> QED
    BY <1>2, <2>1
<1> QED
  BY <1>4, <1>7 DEF n

LEMMA PagesOf ==
  ASSUME NEW c \in Nat, NEW q \in 1 .. 7, NEW g \in Nat
  PROVE  LET n == c \div q + (IF c % q = 0 THEN 0 ELSE 1)
         IN  n \in Nat /\ (g < n <=> g * q < c) /\ (g + 1) * q = g * q + q /\ g * q \in Nat
<1>1. q \in {1, 2, 3, 4, 5, 6, 7}
  OBVIOUS
<1>2. CASE q = 1
  BY <1>2
<1>3. CASE q = 2
  BY <1>3
<1>4. CASE q = 3
  BY <1>4
<1>5. CASE q = 4
  BY <1>5
<1>6. CASE q = 5
  BY <1>6
<1>7. CASE q = 6
  BY <1>7
<1>8. CASE q = 7
  BY <1>8
<1> QED
  BY <1>1, <1>2, <1>3, <1>4, <1>5, <1>6, <1>7, <1>8

\* The pages of a menu that has several.
LEMMA PageFactsOf ==
  ASSUME NEW m, PageMenu(m), m.per # 0, NEW page \in Nat
  PROVE  /\ PageCount(m) \in Nat /\ First(m, page) \in Nat
         /\ page < PageCount(m) <=> First(m, page) < Count(m)
         /\ page = PageCount(m) - 1
              <=> First(m, page) < Count(m) /\ Count(m) <= First(m, page) + m.per
         /\ PageCount(m) = 1 <=> Count(m) # 0 /\ Count(m) <= m.per
         /\ page = 0 => First(m, page) = 0
         /\ page # 0 => First(m, page) >= m.per
<1>1. PICK c \in Nat : c = Count(m)
  BY CountTyped
<1>2. PICK q \in 1 .. 7 : q = m.per
  BY DEF PageMenu
<1> DEFINE n == c \div q + (IF c % q = 0 THEN 0 ELSE 1)
<1>3. PageCount(m) = n /\ \A g : First(m, g) = g * q
  BY <1>1, <1>2 DEF PageCount, First
<1> HIDE DEF n
<1>4. n \in Nat /\ \A g \in Nat : (g < n <=> g * q < c) /\ (g + 1) * q = g * q + q /\ g * q \in Nat
  BY PagesOf DEF n
<1>5. 0 * q = 0 /\ 1 * q = q
  OBVIOUS
<1>6. PICK f \in Nat : f = page * q
  BY <1>4
<1>7. (page < n <=> f < c) /\ (page + 1 < n <=> f + q < c)
  BY <1>4, <1>6
<1>8. (0 < n <=> 0 < c) /\ (1 < n <=> q < c)
  BY <1>4, <1>5
<1>9. page # 0 => f >= q
  <2>1. ASSUME page # 0 PROVE f >= q
    <3>1. PICK g \in Nat : page = g + 1
      <4>1. page - 1 \in Nat /\ page = (page - 1) + 1
        BY <2>1
      <4> QED
        BY <4>1
    <3>2. f = g * q + q /\ g * q \in Nat
      BY <1>4, <1>6, <3>1
    <3> QED
      BY <3>2
  <2> QED
    BY <2>1
<1>10. page = 0 => f = 0
  BY <1>5, <1>6
<1>11. page = n - 1 <=> f < c /\ c <= f + q
  BY <1>4, <1>7
<1>12. n = 1 <=> c # 0 /\ c <= q
  BY <1>4, <1>8
<1> QED
  BY <1>1, <1>2, <1>3, <1>4, <1>6, <1>7, <1>9, <1>10, <1>11, <1>12

\* Which of the four ways PagekeyToItem takes.
LEMMA Dispatch ==
  ASSUME NEW m, PageMenu(m), m.per # 0, NEW page \in Nat, First(m, page) < Count(m), NEW key
  PROVE  /\ Count(m) <= m.per => PagekeyToItem(m, page, key) = OnSinglePage(m, key) /\ page = 0
         /\ Count(m) > m.per /\ page = 0 => PagekeyToItem(m, page, key) = OnFirstPage(m, key)
         /\ page # 0 /\ Count(m) <= First(m, page) + m.per
              => PagekeyToItem(m, page, key) = OnLastPage(m, page, key)
         /\ page # 0 /\ First(m, page) + m.per < Count(m)
              => PagekeyToItem(m, page, key) = OnMiddlePage(m, page, key)
<1>1. Count(m) \in Nat /\ m.per \in Nat /\ First(m, page) \in Nat
  BY CountTyped, PageFactsOf
<1>2. /\ page = PageCount(m) - 1 <=> Count(m) <= First(m, page) + m.per
      /\ PageCount(m) = 1 <=> Count(m) <= m.per
      /\ page # 0 => First(m, page) >= m.per
  BY <1>1, PageFactsOf
<1>3. ASSUME Count(m) <= m.per
      PROVE  PagekeyToItem(m, page, key) = OnSinglePage(m, key) /\ page = 0
  <2>1. PageCount(m) = 1 /\ page = 0
    BY <1>1, <1>2, <1>3
  <2> QED
    BY <2>1 DEF PagekeyToItem
<1>4. ASSUME Count(m) > m.per, page = 0
      PROVE  PagekeyToItem(m, page, key) = OnFirstPage(m, key)
  <2>1. PageCount(m) # 1
    BY <1>1, <1>2, <1>4
  <2> QED
    BY <1>4, <2>1 DEF PagekeyToItem
<1>5. ASSUME page # 0, Count(m) <= First(m, page) + m.per
      PROVE  PagekeyToItem(m, page, key) = OnLastPage(m, page, key)
  <2>1. PageCount(m) # 1 /\ page = PageCount(m) - 1
    BY <1>1, <1>2, <1>5
  <2> QED
    BY <1>5, <2>1 DEF PagekeyToItem
<1>6. ASSUME page # 0, First(m, page) + m.per < Count(m)
      PROVE  PagekeyToItem(m, page, key) = OnMiddlePage(m, page, key)
  <2>1. PageCount(m) # 1 /\ page # PageCount(m) - 1
    BY <1>1, <1>2, <1>6
  <2> QED
    BY <1>6, <2>1, Zenon DEF PagekeyToItem
<1> QED
  BY <1>3, <1>4, <1>5, <1>6

-----------------------------------------------------------------------------
(* What the keys mean *)

\* Where an item and the blanks before it end, counted from the top of the page.
UsedTo(m, from, d) == d + Nums(m, from, from + d)

LEMMA UsedGrows ==
  ASSUME NEW m, PageMenu(m), NEW from \in Nat, from <= Count(m)
  PROVE  /\ \A d \in 0 .. Count(m) - from : UsedTo(m, from, d) \in Nat
         /\ \A d, e \in 0 .. Count(m) - from :
              d < e => UsedTo(m, from, d) < UsedTo(m, from, e)
<1>1. Count(m) \in Nat
  BY CountTyped
<1>2. ASSUME NEW d \in 0 .. Count(m) - from, NEW e \in 0 .. Count(m) - from, d <= e
      PROVE  /\ Nums(m, from, from + d) \in Nat /\ Nums(m, from, from + e) \in Nat
             /\ Nums(m, from, from + d) <= Nums(m, from, from + e)
  <2>1. /\ from \in 0 .. Count(m) /\ from + d \in 0 .. Count(m) /\ from + e \in 0 .. Count(m)
        /\ from <= from + d /\ from + d <= from + e /\ from <= from + e
    BY <1>1, <1>2
  <2>2. PICK x, y, z \in Nat : /\ x = Nums(m, from, from + d) /\ y = Nums(m, from, from + e)
                               /\ z = Nums(m, from + d, from + e) /\ y = x + z
    BY <2>1, NumsFacts
  <2> QED
    BY <2>2
<1>3. \A d \in 0 .. Count(m) - from : Nums(m, from, from + d) \in Nat
  BY <1>2
<1> QED
  BY <1>1, <1>2, <1>3 DEF UsedTo

\* The last of several pages, when all that has a number fits there.
LEMMA LastPageMeant ==
  ASSUME NEW m, PageMenu(m), m.per # 0, NEW page \in Nat, page # 0,
         First(m, page) < Count(m), Count(m) <= First(m, page) + m.per,
         UsedTo(m, First(m, page), Count(m) - First(m, page)) <= m.per
  PROVE  /\ \A d \in 0 .. Count(m) - First(m, page) - 1 :
              PagekeyToItem(m, page, UsedTo(m, First(m, page), d) + 1) = First(m, page) + d
         /\ PagekeyToItem(m, page, m.per + 1) = MENU_BACK
         /\ PagekeyToItem(m, page, m.per + 3) = MENU_EXIT
<1> DEFINE from == First(m, page)
           rest == Count(m) - from
           U(d) == UsedTo(m, from, d)
           R(key) == {j \in 0 .. rest - 1 : U(j) >= key - 1}
<1>1. Count(m) \in Nat /\ from \in Nat /\ m.per \in Nat
  BY CountTyped, PageFactsOf
<1>2. rest \in Nat \ {0} /\ U(rest) <= m.per
  BY <1>1
<1>3. /\ \A d \in 0 .. rest : U(d) \in Nat
      /\ \A d, e \in 0 .. rest : d < e => U(d) < U(e)
  BY <1>1, UsedGrows
<1>4. ASSUME NEW key
      PROVE  /\ R(key) # {} => PagekeyToItem(m, page, key) = from + Min(R(key))
             /\ R(key) = {} /\ U(rest) < key /\ key = m.per + 1
                  => PagekeyToItem(m, page, key) = MENU_BACK
             /\ R(key) = {} /\ U(rest) < key /\ key = m.per + 3
                  => PagekeyToItem(m, page, key) = MENU_EXIT
  <2>1. PagekeyToItem(m, page, key) = OnLastPage(m, page, key)
    BY Dispatch
  <2>2. R(key) # {} => OnLastPage(m, page, key) = from + Min(R(key))
    BY DEF OnLastPage, UsedTo
  <2>3. m.per + 1 # m.per + 3
    BY <1>1
  <2>4. /\ R(key) = {} /\ U(rest) < key /\ key = m.per + 1
                  => OnLastPage(m, page, key) = MENU_BACK
        /\ R(key) = {} /\ U(rest) < key /\ key = m.per + 3
                  => OnLastPage(m, page, key) = MENU_EXIT
    BY <2>3 DEF OnLastPage, UsedTo
  <2> QED
    BY <2>1, <2>2, <2>4
<1> HIDE DEF U, rest
<1>5. ASSUME NEW d \in 0 .. rest - 1
      PROVE  PagekeyToItem(m, page, U(d) + 1) = from + d
  <2>1. d \in 0 .. rest /\ \A j \in 0 .. rest - 1 : j \in 0 .. rest
    BY <1>2
  <2>2. PICK key \in Nat : key = U(d) + 1 /\ key - 1 = U(d) /\ U(d) >= key - 1
    BY <1>3, <2>1
  <2>3. d \in R(key)
    BY <2>2
  <2>4. ASSUME NEW j \in R(key) PROVE d <= j
    <3>1. j \in 0 .. rest - 1 /\ U(j) >= key - 1
      BY <2>4
    <3>2. ~(j < d)
      BY <1>3, <2>1, <2>2, <3>1
    <3> QED
      BY <1>2, <3>1, <3>2
  <2>5. Min(R(key)) = d
    <3> DEFINE S == R(key)
    <3>1. d \in S /\ (\A j \in S : d <= j) /\ S \subseteq Int
      BY <1>2, <2>3, <2>4
    <3> HIDE DEF S
    <3>2. \A x \in S : (\A y \in S : x <= y) => x = d
      BY <3>1
    <3>3. Min(S) = d
      BY <3>1, <3>2 DEF Min
    <3> QED
      BY <3>3 DEF S
  <2> QED
    BY <1>4, <2>2, <2>3, <2>5
<1>6. ASSUME NEW key \in {m.per + 1, m.per + 3}
      PROVE  R(key) = {} /\ U(rest) < key
  <2>1. U(rest) < key /\ U(rest) <= key - 1 /\ rest \in 0 .. rest /\ key \in Nat
    BY <1>1, <1>2, <1>3
  <2>2. ASSUME NEW j \in 0 .. rest - 1  PROVE ~(U(j) >= key - 1)
    <3>1. j \in 0 .. rest /\ j < rest
      BY <1>2
    <3>2. U(j) < U(rest) /\ U(j) \in Nat /\ U(rest) \in Nat
      BY <1>3, <2>1, <3>1
    <3> QED
      BY <2>1, <3>2
  <2> QED
    BY <2>1, <2>2
<1> QED
  BY <1>4, <1>5, <1>6 DEF U, rest

Numberless(m) == \A i, j \in 0 .. Count(m) : Nums(m, i, j) = 0

\* A menu of one page.
LEMMA SinglePageMeant ==
  ASSUME NEW m, PageMenu(m), PageCount(m) = 1, NEW page, NEW key \in Nat
  PROVE  /\ key > Count(m) => PagekeyToItem(m, page, key) = MENU_EXIT
         /\ key <= Count(m) => PagekeyToItem(m, page, key) = key - 1
<1>1. Count(m) \in Nat
  BY CountTyped
<1>2. PagekeyToItem(m, page, key) = OnSinglePage(m, key)
  BY DEF PagekeyToItem
<1> QED
  BY <1>1, <1>2 DEF OnSinglePage

\* The first of several pages.
LEMMA FirstPageMeant ==
  ASSUME NEW m, PageMenu(m), m.per # 0, Count(m) > m.per, Numberless(m), NEW key \in Nat \ {0}
  PROVE  /\ key = m.per + 2 => PagekeyToItem(m, 0, key) = MENU_MORE
         /\ key = m.per + 3 => PagekeyToItem(m, 0, key) = MENU_EXIT
         /\ key <= m.per => PagekeyToItem(m, 0, key) = key - 1
<1>1. Count(m) \in Nat /\ m.per \in Nat /\ First(m, 0) = 0
  BY CountTyped, PageFactsOf
<1>2. PagekeyToItem(m, 0, key) = OnFirstPage(m, key)
  BY <1>1, Dispatch
<1> DEFINE k == Floor0(key - Nums(m, 0, Least(key - 1, Count(m))))
<1>3. Least(key - 1, Count(m)) \in 0 .. Count(m) /\ 0 \in 0 .. Count(m)
  BY <1>1 DEF Least
<1>4. Nums(m, 0, Least(key - 1, Count(m))) = 0
  BY <1>3 DEF Numberless
<1>5. k = key
  BY <1>4 DEF Floor0
<1>6. OnFirstPage(m, key) = CASE k = m.per + 2 -> MENU_MORE
                              [] k = m.per + 3 -> MENU_EXIT
                              [] OTHER -> k - 1
  BY DEF OnFirstPage
<1> HIDE DEF k
<1>7. m.per + 2 # m.per + 3 /\ (key <= m.per => key # m.per + 2 /\ key # m.per + 3)
  BY <1>1
<1>8. k = m.per + 2 => OnFirstPage(m, key) = MENU_MORE
  BY <1>6, <1>7, Zenon
<1>9. k = m.per + 3 => OnFirstPage(m, key) = MENU_EXIT
  BY <1>6, <1>7, Zenon
<1>10. k # m.per + 2 /\ k # m.per + 3 => OnFirstPage(m, key) = k - 1
  BY <1>6, Zenon
<1> QED
  BY <1>2, <1>5, <1>7, <1>8, <1>9, <1>10

\* A page between the first and the last.
LEMMA MiddlePageMeant ==
  ASSUME NEW m, PageMenu(m), m.per # 0, NEW page \in Nat, page # 0,
         First(m, page) + m.per < Count(m), Numberless(m), NEW key \in Nat \ {0}
  PROVE  /\ key = m.per + 1 => PagekeyToItem(m, page, key) = MENU_BACK
         /\ key = m.per + 2 => PagekeyToItem(m, page, key) = MENU_MORE
         /\ key = m.per + 3 => PagekeyToItem(m, page, key) = MENU_EXIT
         /\ key <= m.per => PagekeyToItem(m, page, key) = First(m, page) + key - 1
<1> DEFINE from == First(m, page)
           k == Floor0(key - Nums(m, from, Least(from + m.per - 1, Count(m))))
<1>1. Count(m) \in Nat /\ m.per \in Nat /\ from \in Nat
  BY CountTyped, PageFactsOf
<1>2. PagekeyToItem(m, page, key) = OnMiddlePage(m, page, key)
  BY <1>1, Dispatch
<1>6. OnMiddlePage(m, page, key) = CASE k = m.per + 1 -> MENU_BACK
                                     [] k = m.per + 2 -> MENU_MORE
                                     [] k = m.per + 3 -> MENU_EXIT
                                     [] OTHER -> from + k - 1
  BY DEF OnMiddlePage
<1> HIDE DEF from
<1>3. Least(from + m.per - 1, Count(m)) \in 0 .. Count(m) /\ from \in 0 .. Count(m)
  BY <1>1 DEF Least, from
<1>4. Nums(m, from, Least(from + m.per - 1, Count(m))) = 0
  BY <1>3 DEF Numberless
<1>5. k = key
  BY <1>4 DEF Floor0
<1> HIDE DEF k
<1>7. /\ m.per + 2 # m.per + 3 /\ m.per + 1 # m.per + 3 /\ m.per + 1 # m.per + 2
      /\ (key <= m.per => key # m.per + 1 /\ key # m.per + 2 /\ key # m.per + 3)
  BY <1>1
<1>8. /\ k = m.per + 1 => OnMiddlePage(m, page, key) = MENU_BACK
      /\ k = m.per + 2 => OnMiddlePage(m, page, key) = MENU_MORE
      /\ k = m.per + 3 => OnMiddlePage(m, page, key) = MENU_EXIT
  BY <1>6, <1>7, Zenon
<1>9. k # m.per + 1 /\ k # m.per + 2 /\ k # m.per + 3 => OnMiddlePage(m, page, key) = from + k - 1
  BY <1>6, Zenon
<1> QED
  BY <1>2, <1>5, <1>7, <1>8, <1>9 DEF from

-----------------------------------------------------------------------------
(* What a page says *)

\* The places a key of a legend can have on a page without numbered blanks.
Fits(m, page, l) ==
  IF m.per = 0
  THEN page = 0 /\ \E i \in 0 .. Count(m) - 1 : l = <<i + 1, i>>
  ELSE /\ First(m, page) < Count(m)
       /\ \/ \E d \in 0 .. m.per - 1 : /\ First(m, page) + d < Count(m)
                                       /\ l = <<d + 1, First(m, page) + d>>
          \/ page # 0 /\ l = <<m.per + 1, MENU_BACK>>
          \/ First(m, page) + m.per < Count(m) /\ l = <<m.per + 2, MENU_MORE>>
          \/ l = <<m.per + 3, MENU_EXIT>>

LEMMA FitsMeans ==
  ASSUME NEW m, PageMenu(m), Numberless(m), NEW page \in Nat, NEW l, Fits(m, page, l)
  PROVE  PagekeyToItem(m, page, l[1]) = l[2]
<1>1. Count(m) \in Nat /\ m.per \in Nat
  BY CountTyped
<1>2. CASE m.per = 0
  <2>1. PICK i \in 0 .. Count(m) - 1 : l = <<i + 1, i>>
    BY <1>2 DEF Fits
  <2>2. l[1] = i + 1 /\ l[2] = i
    BY <2>1
  <2>3. i + 1 \in Nat /\ i + 1 <= Count(m) /\ i + 1 - 1 = i
    BY <1>1
  <2>4. PageCount(m) = 1
    BY <1>2 DEF PageCount
  <2> QED
    BY <2>2, <2>3, <2>4, SinglePageMeant
<1>3. CASE m.per # 0
  <2> DEFINE from == First(m, page)
  <2>1. from \in Nat /\ from < Count(m)
    BY <1>3, PageFactsOf DEF Fits
  <2>2. /\ PageCount(m) = 1 <=> Count(m) # 0 /\ Count(m) <= m.per
        /\ page = 0 => from = 0
        /\ page # 0 => from >= m.per
    BY <1>3, PageFactsOf
  <2> HIDE DEF from
  <2>3. ASSUME NEW d \in 0 .. m.per - 1, from + d < Count(m)
        PROVE  PagekeyToItem(m, page, d + 1) = from + d
    <3>1. d + 1 \in Nat \ {0} /\ d + 1 <= m.per
      BY <1>1
    <3>2. CASE Count(m) <= m.per
      <4>1. page = 0 /\ from = 0 /\ PageCount(m) = 1 /\ d + 1 <= Count(m) /\ d + 1 - 1 = from + d
        BY <1>1, <2>1, <2>2, <2>3, <3>2
      <4> QED
        BY <3>1, <4>1, SinglePageMeant
    <3>3. CASE Count(m) > m.per /\ page = 0
      <4>1. PagekeyToItem(m, 0, d + 1) = d + 1 - 1
        BY <1>3, <3>1, <3>3, FirstPageMeant
      <4>2. d + 1 - 1 = from + d
        BY <2>2, <3>3
      <4> QED
        BY <3>3, <4>1, <4>2
    <3>4. CASE page # 0 /\ from + m.per < Count(m)
      <4>1. PagekeyToItem(m, page, d + 1) = from + (d + 1) - 1
        BY <1>3, <3>1, <3>4, MiddlePageMeant DEF from
      <4>2. from + (d + 1) - 1 = from + d
        BY <2>1
      <4> QED
        BY <4>1, <4>2
    <3>5. CASE page # 0 /\ Count(m) <= from + m.per
      <4>1. /\ from \in 0 .. Count(m) /\ from + d \in 0 .. Count(m) /\ d \in 0 .. Count(m) - from - 1
            /\ Count(m) \in 0 .. Count(m) /\ from + (Count(m) - from) = Count(m)
            /\ Count(m) - from <= m.per /\ d + 0 = d /\ Count(m) - from + 0 = Count(m) - from
        BY <1>1, <2>1, <2>3, <3>5
      <4>2. Nums(m, from, from + d) = 0 /\ Nums(m, from, from + (Count(m) - from)) = 0
        BY <4>1 DEF Numberless
      <4>3. UsedTo(m, from, d) = d /\ UsedTo(m, from, Count(m) - from) <= m.per
        BY <4>1, <4>2 DEF UsedTo
      <4> QED
        BY <1>3, <2>1, <3>5, <4>1, <4>3, LastPageMeant DEF from
    <3> QED
      BY <1>1, <2>1, <2>2, <3>2, <3>3, <3>4, <3>5
  <2>4. /\ page # 0 => PagekeyToItem(m, page, m.per + 1) = MENU_BACK
        /\ from + m.per < Count(m) => PagekeyToItem(m, page, m.per + 2) = MENU_MORE
        /\ PagekeyToItem(m, page, m.per + 3) = MENU_EXIT
    <3>1. m.per + 1 \in Nat \ {0} /\ m.per + 2 \in Nat \ {0} /\ m.per + 3 \in Nat \ {0}
          /\ m.per + 3 > m.per
      BY <1>1
    <3>2. CASE Count(m) <= m.per
      <4>1. page = 0 /\ ~(from + m.per < Count(m)) /\ PageCount(m) = 1 /\ m.per + 3 > Count(m)
        BY <1>1, <2>1, <2>2, <3>2
      <4> QED
        BY <3>1, <4>1, SinglePageMeant
    <3>3. CASE Count(m) > m.per /\ page = 0
      BY <1>3, <3>1, <3>3, FirstPageMeant
    <3>4. CASE page # 0 /\ from + m.per < Count(m)
      BY <1>3, <3>1, <3>4, MiddlePageMeant DEF from
    <3>5. CASE page # 0 /\ Count(m) <= from + m.per
      <4>1. /\ from \in 0 .. Count(m) /\ Count(m) \in 0 .. Count(m)
            /\ from + (Count(m) - from) = Count(m)
            /\ Count(m) - from <= m.per /\ Count(m) - from + 0 = Count(m) - from
            /\ ~(from + m.per < Count(m))
        BY <1>1, <2>1, <3>5
      <4>2. Nums(m, from, from + (Count(m) - from)) = 0
        BY <4>1 DEF Numberless
      <4>3. UsedTo(m, from, Count(m) - from) <= m.per
        BY <4>1, <4>2 DEF UsedTo
      <4> QED
        BY <1>3, <2>1, <3>5, <4>1, <4>3, LastPageMeant DEF from
    <3> QED
      BY <1>1, <2>1, <2>2, <3>2, <3>3, <3>4, <3>5
  <2>5. CASE \E d \in 0 .. m.per - 1 : from + d < Count(m) /\ l = <<d + 1, from + d>>
    <3>1. PICK d \in 0 .. m.per - 1 : from + d < Count(m) /\ l = <<d + 1, from + d>>
      BY <2>5
    <3>2. l[1] = d + 1 /\ l[2] = from + d
      BY <3>1
    <3> QED
      BY <2>3, <3>1, <3>2
  <2>6. CASE page # 0 /\ l = <<m.per + 1, MENU_BACK>>
    <3>1. l[1] = m.per + 1 /\ l[2] = MENU_BACK
      BY <2>6
    <3> QED
      BY <2>4, <2>6, <3>1
  <2>7. CASE from + m.per < Count(m) /\ l = <<m.per + 2, MENU_MORE>>
    <3>1. l[1] = m.per + 2 /\ l[2] = MENU_MORE
      BY <2>7
    <3> QED
      BY <2>4, <2>7, <3>1
  <2>8. CASE l = <<m.per + 3, MENU_EXIT>>
    <3>1. l[1] = m.per + 3 /\ l[2] = MENU_EXIT
      BY <2>8
    <3> QED
      BY <2>4, <3>1
  <2> QED
    BY <1>3, <2>5, <2>6, <2>7, <2>8 DEF Fits, from
<1> QED
  BY <1>2, <1>3

LEMMA LegendHas ==
  ASSUME NEW m, NEW page, NEW l \in Legend(m, page)
  PROVE  \/ \E i \in First(m, page) .. After(m, page) - 1 : l = <<ItemKey(m, page, i), i>>
         \/ m.per # 0 /\ PageCount(m) # 1 /\ page > 0 /\ l = <<BackKey(m, page), MENU_BACK>>
         \/ /\ m.per # 0 /\ PageCount(m) # 1 /\ First(m, page) + m.per < Count(m)
            /\ l = <<MoreKey(m, page), MENU_MORE>>
         \/ HasExit(m) /\ l = <<ExitKey(m, page), MENU_EXIT>>
BY DEF Legend, HasBack, HasMore

\* Where the items and the padding of a page end.
LEMMA EndOfItems ==
  ASSUME NEW m, PageMenu(m), m.per # 0, NEW page \in Nat, First(m, page) < Count(m)
  PROVE  /\ Count(m) > First(m, page) + m.per /\ Numberless(m) => ItemsEnd(m, page) = m.per
         /\ (/\ Count(m) <= First(m, page) + m.per /\ Lines(m, First(m, page), Count(m)) = 0
             /\ UsedTo(m, First(m, page), Count(m) - First(m, page)) <= m.per)
              => ItemsEnd(m, page) = m.per
         /\ Count(m) <= First(m, page) + m.per
              => ItemsEnd(m, page) >= Count(m) - First(m, page) /\ ItemsEnd(m, page) \in Nat
<1> DEFINE from == First(m, page)
           to == After(m, page)
           used == to - from + Nums(m, from, to)
<1>1. Count(m) \in Nat /\ m.per \in Nat /\ from \in Nat
  BY CountTyped, PageFactsOf
<1>2. to = Least(from + m.per, Count(m))
  BY DEF After
<1>3. ItemsEnd(m, page) = used + Floor0(m.per - used - Lines(m, from, to))
  BY DEF ItemsEnd
<1> HIDE DEF to
<1>4. from \in 0 .. Count(m) /\ to \in 0 .. Count(m) /\ from <= to /\ to \in Nat
  BY <1>1, <1>2 DEF Least
<1> HIDE DEF from
<1>5. PICK n, b \in Nat : n = Nums(m, from, to) /\ b = Lines(m, from, to)
  BY <1>4, NumsFacts, LinesFacts
<1>6. CASE Count(m) > from + m.per
  <2>1. to = from + m.per
    BY <1>1, <1>2, <1>6 DEF Least
  <2>2. ASSUME Numberless(m) PROVE ItemsEnd(m, page) = m.per
    <3>1. n = 0
      BY <1>4, <1>5, <2>2 DEF Numberless
    <3>2. used = m.per
      BY <1>1, <1>5, <2>1, <3>1
    <3> HIDE DEF used
    <3>3. ItemsEnd(m, page) = m.per + Floor0(m.per - m.per - b)
      BY <1>3, <1>5, <3>2
    <3>4. Floor0(m.per - m.per - b) = 0
      BY <1>1, <1>5 DEF Floor0
    <3> QED
      BY <1>1, <3>3, <3>4
  <2>3. ~(Count(m) <= from + m.per)
    BY <1>1, <1>6
  <2> QED
    BY <2>2, <2>3 DEF from
<1>7. CASE Count(m) <= from + m.per
  <2>1. to = Count(m)
    BY <1>1, <1>2, <1>7 DEF Least
  <2>2. used \in Nat /\ used >= Count(m) - from
    BY <1>1, <1>4, <1>5, <2>1
  <2>3. ASSUME Lines(m, from, Count(m)) = 0, UsedTo(m, from, Count(m) - from) <= m.per
        PROVE  ItemsEnd(m, page) = m.per
    <3>1. b = 0
      BY <1>5, <2>1, <2>3
    <3>2. from + (Count(m) - from) = to
      BY <1>1, <2>1
    <3>3. UsedTo(m, from, Count(m) - from) = used
      BY <2>1, <3>2 DEF UsedTo
    <3>4. used <= m.per
      BY <2>3, <3>3
    <3> HIDE DEF used
    <3>5. ItemsEnd(m, page) = used + Floor0(m.per - used - 0)
      BY <1>3, <1>5, <3>1
    <3> QED
      BY <1>1, <2>2, <3>4, <3>5 DEF Floor0
  <2>4. ItemsEnd(m, page) >= Count(m) - from /\ ItemsEnd(m, page) \in Nat
    <3> HIDE DEF used
    <3>1. ItemsEnd(m, page) = used + Floor0(m.per - used - b)
      BY <1>3, <1>5
    <3>2. Floor0(m.per - used - b) \in Nat
      BY <1>1, <1>5, <2>2 DEF Floor0
    <3> QED
      BY <1>1, <2>2, <3>1, <3>2
  <2>5. ~(Count(m) > from + m.per)
    BY <1>1, <1>7
  <2> QED
    BY <2>3, <2>4, <2>5 DEF from
<1> QED
  BY <1>1, <1>6, <1>7 DEF from

\* A page without numbered blanks, and without other ones if it is the last of several.
LEMMA DrawnFits ==
  ASSUME NEW m, PageMenu(m), Numberless(m), NEW page \in Nat, page < PageCount(m),
         m.per = 0 => ~m.force,
         m.per # 0 /\ Count(m) <= First(m, page) + m.per
           => Lines(m, First(m, page), Count(m)) = 0,
         NEW l \in Legend(m, page)
  PROVE  Fits(m, page, l)
<1> DEFINE from == First(m, page)
<1>1. Count(m) \in Nat /\ m.per \in Nat
  BY CountTyped
<1>2. CASE m.per = 0
  <2>1. PageCount(m) = 1 /\ ~HasExit(m) /\ After(m, page) = Least(Count(m), LastKey)
    BY <1>2 DEF PageCount, HasExit, After
  <2>2. page = 0 /\ from = 0
    BY <1>2, <2>1 DEF First
  <2>3. PICK i \in from .. After(m, page) - 1 : l = <<ItemKey(m, page, i), i>>
    BY <1>2, <2>1, LegendHas
  <2>4. i \in 0 .. Count(m) - 1 /\ 0 \in 0 .. Count(m) /\ i \in 0 .. Count(m)
    BY <1>1, <2>1, <2>2, <2>3 DEF Least, LastKey
  <2>5. ItemKey(m, page, i) = i + 1
    <3>1. Nums(m, 0, i) = 0
      BY <2>4 DEF Numberless
    <3> QED
      BY <2>2, <2>4, <3>1 DEF ItemKey
  <2> QED
    BY <1>2, <2>2, <2>3, <2>4, <2>5 DEF Fits
<1>3. CASE m.per # 0
  <2>1. from \in Nat /\ from < Count(m)
    BY <1>3, PageFactsOf
  <2>2. ItemsEnd(m, page) = m.per
    <3>1. CASE Count(m) > from + m.per
      BY <1>3, <2>1, <3>1, EndOfItems
    <3>2. CASE Count(m) <= from + m.per
      <4>1. /\ from \in 0 .. Count(m) /\ Count(m) \in 0 .. Count(m)
            /\ from + (Count(m) - from) = Count(m)
            /\ Count(m) - from <= m.per /\ Count(m) - from + 0 = Count(m) - from
        BY <1>1, <2>1, <3>2
      <4>2. Nums(m, from, from + (Count(m) - from)) = 0
        BY <4>1 DEF Numberless
      <4>3. UsedTo(m, from, Count(m) - from) <= m.per
        BY <4>1, <4>2 DEF UsedTo
      <4> QED
        BY <1>3, <2>1, <3>2, <4>3, EndOfItems
    <3> QED
      BY <1>1, <2>1, <3>1, <3>2
  <2>3. ASSUME NEW i \in from .. After(m, page) - 1
        PROVE  \E d \in 0 .. m.per - 1 : from + d < Count(m) /\ i = from + d /\ ItemKey(m, page, i) = d + 1
    <3>1. After(m, page) = Least(from + m.per, Count(m))
      BY <1>3 DEF After
    <3>2. i \in 0 .. Count(m) /\ from \in 0 .. Count(m)
      BY <1>1, <2>1, <3>1 DEF Least
    <3>3. ItemKey(m, page, i) = i - from + 0 + 1
      BY <3>2 DEF ItemKey, Numberless
    <3>4. i - from \in 0 .. m.per - 1 /\ i < Count(m) /\ from + (i - from) = i
          /\ i - from + 0 + 1 = i - from + 1
      <4> HIDE DEF from
      <4> QED
        BY <1>1, <2>1, <3>1 DEF Least
    <3> QED
      BY <3>3, <3>4
  <2>4. BackKey(m, page) = m.per + 1 /\ MoreKey(m, page) = m.per + 2 /\ ExitKey(m, page) = m.per + 3
    BY <1>3, <2>2 DEF BackKey, MoreKey, ExitKey
  <2>5. CASE \E i \in from .. After(m, page) - 1 : l = <<ItemKey(m, page, i), i>>
    <3>1. PICK i \in from .. After(m, page) - 1 : l = <<ItemKey(m, page, i), i>>
      BY <2>5
    <3>2. PICK d \in 0 .. m.per - 1 : from + d < Count(m) /\ i = from + d /\ ItemKey(m, page, i) = d + 1
      BY <2>3
    <3>3. l = <<d + 1, from + d>>
      BY <3>1, <3>2
    <3> QED
      BY <1>3, <2>1, <3>2, <3>3 DEF Fits
  <2>6. CASE page > 0 /\ l = <<BackKey(m, page), MENU_BACK>>
    BY <1>3, <2>1, <2>4, <2>6 DEF Fits
  <2>7. CASE First(m, page) + m.per < Count(m) /\ l = <<MoreKey(m, page), MENU_MORE>>
    BY <1>3, <2>1, <2>4, <2>7 DEF Fits
  <2>8. CASE l = <<ExitKey(m, page), MENU_EXIT>>
    BY <1>3, <2>1, <2>4, <2>8 DEF Fits
  <2> QED
    BY <2>5, <2>6, <2>7, <2>8, LegendHas
<1> QED
  BY <1>2, <1>3

\* Each key of an orderly page selects what is written beside it.
LEMMA OrderlyIsHonest ==
  ASSUME NEW m, PageMenu(m), NEW page \in 0 .. PageCount(m) - 1, Orderly(m, page)
  PROVE  Honest(m, page)
<1> SUFFICES ASSUME NEW l \in Legend(m, page)
             PROVE  PagekeyToItem(m, page, l[1]) = l[2]
  BY DEF Honest
<1> DEFINE from == First(m, page)
           c == Count(m)
<1>1. c \in Nat /\ m.per \in Nat /\ page \in Nat /\ PageCount(m) \in Nat /\ page < PageCount(m)
  <2>1. PageCount(m) \in Nat
    BY CountTyped, PageFactsOf DEF PageCount
  <2> QED
    BY <2>1, CountTyped
<1>2. CASE PageCount(m) = 1
  <2>1. page = 0 /\ from = 0 /\ ~(PageCount(m) > 1)
    BY <1>1, <1>2 DEF First
  <2>2. Nums(m, 0, c) = 0
    BY <1>2, <2>1 DEF Orderly
  <2>3. Numberless(m)
    BY <2>2, NumsFacts DEF Numberless
  <2>4. ASSUME NEW i \in from .. After(m, page) - 1, l = <<ItemKey(m, page, i), i>>
        PROVE  PagekeyToItem(m, page, l[1]) = l[2]
    <3>1. After(m, page) = Least(c, LastKey) \/ After(m, page) = Least(from + m.per, c)
      BY DEF After
    <3>2. i \in 0 .. c /\ 0 \in 0 .. c /\ i < c
      BY <1>1, <2>1, <3>1 DEF Least, LastKey
    <3>3. ItemKey(m, page, i) = i - 0 + 0 + 1
      BY <2>1, <2>3, <3>2 DEF ItemKey, Numberless
    <3>4. i - 0 + 0 + 1 \in Nat /\ i - 0 + 0 + 1 <= c /\ (i - 0 + 0 + 1) - 1 = i
      BY <1>1, <3>2
    <3>5. l[1] = i - 0 + 0 + 1 /\ l[2] = i
      BY <2>4, <3>3
    <3> QED
      BY <1>2, <3>4, <3>5, SinglePageMeant
  <2>5. ASSUME HasExit(m), l = <<ExitKey(m, page), MENU_EXIT>>
        PROVE  PagekeyToItem(m, page, l[1]) = l[2]
    <3>1. ExitKey(m, page) \in Nat /\ ExitKey(m, page) > c
      <4>1. CASE m.per = 0
        <5>1. After(m, page) = c /\ c < LastKey
          BY <1>1, <2>5, <4>1 DEF After, HasExit, Least, LastKey
        <5>2. /\ 0 \in 0 .. c /\ c \in 0 .. c /\ 0 <= c
          BY <1>1
        <5>3. Nums(m, from, c) = 0 /\ Lines(m, from, c) \in Nat
          BY <2>1, <2>3, <5>2, LinesFacts DEF Numberless
        <5>4. PICK b \in Nat : b = Lines(m, from, c)
          BY <5>3
        <5>5. ItemsEnd(m, page) = c - 0 + 0 + Floor0(0 - (c - 0 + 0) - b)
          BY <2>1, <4>1, <5>1, <5>3, <5>4 DEF ItemsEnd
        <5>6. ItemsEnd(m, page) = c
          <6> HIDE DEF c
          <6> QED
            BY <1>1, <5>5 DEF Floor0
        <5> QED
          BY <1>1, <4>1, <5>6 DEF ExitKey
      <4>2. CASE m.per # 0
        <5>1. c # 0 /\ c <= m.per /\ from < c
          BY <1>1, <1>2, <2>1, <4>2, PageFactsOf
        <5>2. ItemsEnd(m, page) >= c /\ ItemsEnd(m, page) \in Nat
          <6>1. c <= from + m.per /\ c - from = c
            BY <1>1, <2>1, <5>1
          <6> QED
            BY <1>1, <4>2, <5>1, <6>1, EndOfItems
        <5> QED
          BY <1>1, <4>2, <5>2 DEF ExitKey
      <4> QED
        BY <4>1, <4>2
    <3>2. l[1] = ExitKey(m, page) /\ l[2] = MENU_EXIT
      BY <2>5
    <3> QED
      BY <1>2, <3>1, <3>2, SinglePageMeant
  <2> QED
    BY <1>2, <2>4, <2>5, LegendHas
<1>3. CASE PageCount(m) # 1
  <2>1. m.per # 0 /\ PageCount(m) > 1
    BY <1>1, <1>3 DEF PageCount
  <2>2. /\ from \in Nat /\ from < c
        /\ page = PageCount(m) - 1 <=> c <= from + m.per
        /\ page = 0 => from = 0
        /\ c > m.per
    BY <1>1, <1>3, <2>1, PageFactsOf
  <2>3. CASE Nums(m, 0, c) = 0 /\ (page = PageCount(m) - 1 => Lines(m, from, c) = 0)
    <3>1. Numberless(m)
      BY <2>3, NumsFacts DEF Numberless
    <3> QED
      BY <1>1, <2>1, <2>2, <2>3, <3>1, DrawnFits, FitsMeans
  <2>4. CASE /\ page = PageCount(m) - 1 /\ Lines(m, from, c) = 0
             /\ c - from + Nums(m, from, c) <= m.per
    <3>1. page # 0 /\ c <= from + m.per
      BY <1>1, <2>1, <2>2, <2>4
    <3>2. UsedTo(m, from, c - from) <= m.per
      <4>1. from + (c - from) = c
        BY <1>1, <2>2
      <4> QED
        BY <2>4, <4>1 DEF UsedTo
    <3>3. ItemsEnd(m, page) = m.per
      BY <1>1, <2>1, <2>2, <2>4, <3>1, <3>2, EndOfItems
    <3>4. /\ \A d \in 0 .. c - from - 1 :
               PagekeyToItem(m, page, UsedTo(m, from, d) + 1) = from + d
          /\ PagekeyToItem(m, page, m.per + 1) = MENU_BACK
          /\ PagekeyToItem(m, page, m.per + 3) = MENU_EXIT
      BY <1>1, <2>1, <2>2, <3>1, <3>2, LastPageMeant
    <3>5. BackKey(m, page) = m.per + 1 /\ ExitKey(m, page) = m.per + 3
      BY <2>1, <3>3 DEF BackKey, ExitKey
    <3>6. ASSUME NEW i \in from .. After(m, page) - 1, l = <<ItemKey(m, page, i), i>>
          PROVE  PagekeyToItem(m, page, l[1]) = l[2]
      <4>1. After(m, page) = Least(from + m.per, c)
        BY <2>1 DEF After
      <4>2. i \in 0 .. c /\ from \in 0 .. c /\ from <= i /\ i < c
        <5> HIDE DEF from, c
        <5> QED
          BY <1>1, <2>2, <4>1 DEF Least
      <4>3. i - from \in 0 .. c - from - 1 /\ from + (i - from) = i
        BY <1>1, <2>2, <4>2
      <4>4. ItemKey(m, page, i) = UsedTo(m, from, i - from) + 1
        BY <4>3 DEF ItemKey, UsedTo
      <4>5. l[1] = UsedTo(m, from, i - from) + 1 /\ l[2] = from + (i - from)
        BY <3>6, <4>3, <4>4
      <4> QED
        BY <3>4, <4>3, <4>5
    <3>7. ASSUME l = <<BackKey(m, page), MENU_BACK>>
          PROVE  PagekeyToItem(m, page, l[1]) = l[2]
      <4>1. l[1] = m.per + 1 /\ l[2] = MENU_BACK
        BY <3>5, <3>7
      <4> QED
        BY <3>4, <4>1
    <3>8. ASSUME l = <<ExitKey(m, page), MENU_EXIT>>
          PROVE  PagekeyToItem(m, page, l[1]) = l[2]
      <4>1. l[1] = m.per + 3 /\ l[2] = MENU_EXIT
        BY <3>5, <3>8
      <4> QED
        BY <3>4, <4>1
    <3>9. ~(from + m.per < c)
      BY <1>1, <2>2, <3>1
    <3> QED
      BY <3>6, <3>7, <3>8, <3>9, LegendHas
  <2> QED
    BY <2>1, <2>3, <2>4 DEF Orderly
<1> QED
  BY <1>2, <1>3

-----------------------------------------------------------------------------
(* Legends and the menus they are drawn from *)

\* A menu made of menu_create and menu_additem alone.
Plain(m) == /\ m.per = PerPage /\ ~m.force
            /\ \A k \in 1 .. Count(m) : m.items[k].nums = 0 /\ m.items[k].lines = 0

\* Each line is as a page of the menu has it, though not all need be of one page.
TextFits(m, lines) == \A l \in lines : l[1] \in Nat /\ Fits(m, l[1], l[2])

\* The menus there are are plain; what is on a screen, what is in the text of a menu,
\* and what an item callback holds up, still fits the menu, however many items it
\* was given since.
LegendsFit ==
  /\ TextOK
  /\ \A i \in Id : Live(i) => Plain(menu[i]) /\ TextFits(menu[i], text[menu[i].obj])
  /\ \A p \in Players : Live(screen[p].id) =>
       TextFits(menu[screen[p].id], screen[p].text)
  /\ \A k \in 1 .. Len(frames) :
       LET f == frames[k]
       IN  f.op = "text" /\ Live(f.id) /\ menu[f.id].obj = f.obj =>
             \A l \in f.legend : Fits(menu[f.id], f.page, l)

LEMMA RecordIsPageMenu ==
  ASSUME NEW m \in Records
  PROVE  PageMenu(m)
BY DEF Records, PageMenu

LEMMA LiveIsPageMenu ==
  ASSUME IInv, NEW i, Live(i)
  PROVE  menu[i] \in Records /\ PageMenu(menu[i]) /\ i \in Id
<1>1. menu \in [Id -> Records] /\ i \in Id
  BY DEF IInv, StateOK, Live
<1> QED
  BY <1>1, RecordIsPageMenu

LEMMA PlainIsNumberless ==
  ASSUME NEW m, PageMenu(m), Plain(m)
  PROVE  /\ Numberless(m)
         /\ \A i, j \in 0 .. Count(m) : Lines(m, i, j) = 0
BY NumsFacts, LinesFacts DEF Plain, Numberless

\* Whatever GetTextString draws of a plain menu fits it.
LEMMA PlainFits ==
  ASSUME NEW m, PageMenu(m), Plain(m), NEW page \in 0 .. PageCount(m) - 1, NEW l \in Legend(m, page)
  PROVE  Fits(m, page, l)
<1>1. Numberless(m) /\ \A i, j \in 0 .. Count(m) : Lines(m, i, j) = 0
  BY PlainIsNumberless
<1>2. PageCount(m) \in Nat /\ page \in Nat /\ page < PageCount(m) /\ Count(m) \in Nat
  <2>1. PageCount(m) \in Nat
    BY CountTyped, PageFactsOf DEF PageCount
  <2> QED
    BY <2>1, CountTyped
<1>3. m.per # 0 => First(m, page) \in 0 .. Count(m) /\ Count(m) \in 0 .. Count(m)
  <2>1. m.per # 0 => First(m, page) \in Nat /\ First(m, page) < Count(m)
    BY <1>2, PageFactsOf
  <2> QED
    BY <1>2, <2>1
<1>4. m.per # 0 => Lines(m, First(m, page), Count(m)) = 0
  BY <1>1, <1>3
<1> QED
  BY <1>1, <1>2, <1>4, DrawnFits DEF Plain

\* What fits is a line.
LEMMA FitsTyped ==
  ASSUME NEW m, PageMenu(m), NEW page \in Nat, NEW l, Fits(m, page, l)
  PROVE  l \in Nat \X Int
<1>1. Count(m) \in Nat /\ m.per \in Nat
  BY CountTyped
<1>2. CASE m.per = 0
  <2>1. PICK i \in 0 .. Count(m) - 1 : l = <<i + 1, i>>
    BY <1>2 DEF Fits
  <2>2. i + 1 \in Nat /\ i \in Int
    BY <1>1
  <2> QED
    BY <2>1, <2>2
<1>3. CASE m.per # 0
  <2>1. PICK f \in Nat : f = First(m, page)
    BY <1>3, PageFactsOf
  <2>2. /\ \A d \in 0 .. m.per - 1 : d + 1 \in Nat /\ f + d \in Int
        /\ m.per + 1 \in Nat /\ m.per + 2 \in Nat /\ m.per + 3 \in Nat
        /\ MENU_BACK \in Int /\ MENU_MORE \in Int /\ MENU_EXIT \in Int
    BY <1>1, <2>1 DEF MENU_BACK, MENU_MORE, MENU_EXIT
  <2>3. \/ \E d \in 0 .. m.per - 1 : l = <<d + 1, f + d>>
        \/ l = <<m.per + 1, MENU_BACK>>
        \/ l = <<m.per + 2, MENU_MORE>>
        \/ l = <<m.per + 3, MENU_EXIT>>
    BY <1>3, <2>1 DEF Fits
  <2> QED
    BY <2>2, <2>3
<1> QED
  BY <1>2, <1>3

\* A menu with more items.
Extends(n, m) == n.per = m.per /\ Count(n) >= Count(m) /\ (Plain(m) => Plain(n))

LEMMA FitsExtended ==
  ASSUME NEW m, PageMenu(m), NEW n, PageMenu(n), Extends(n, m), NEW page \in Nat, NEW l,
         Fits(m, page, l)
  PROVE  Fits(n, page, l)
<1>1. /\ Count(m) \in Nat /\ Count(n) \in Nat /\ Count(n) >= Count(m) /\ n.per = m.per
      /\ m.per \in Nat
  BY CountTyped DEF Extends
<1>2. CASE m.per = 0
  <2>1. page = 0 /\ \E i \in 0 .. Count(m) - 1 : l = <<i + 1, i>>
    BY <1>2 DEF Fits
  <2>2. \A i \in 0 .. Count(m) - 1 : i \in 0 .. Count(n) - 1
    BY <1>1
  <2> QED
    BY <1>1, <1>2, <2>1, <2>2 DEF Fits
<1>3. CASE m.per # 0
  <2>1. PICK f \in Nat : f = First(m, page) /\ f = First(n, page)
    BY <1>1, <1>3, PageFactsOf DEF First
  <2>2. \A x \in Nat : x < Count(m) => x < Count(n)
    BY <1>1
  <2>3. f < Count(n)
    BY <1>3, <2>1, <2>2 DEF Fits
  <2>4. f + m.per \in Nat /\ \A d \in 0 .. m.per - 1 : f + d \in Nat
    BY <1>1
  <2>5. \/ \E d \in 0 .. m.per - 1 : f + d < Count(n) /\ l = <<d + 1, f + d>>
        \/ page # 0 /\ l = <<m.per + 1, MENU_BACK>>
        \/ f + m.per < Count(n) /\ l = <<m.per + 2, MENU_MORE>>
        \/ l = <<m.per + 3, MENU_EXIT>>
    <3>1. \/ \E d \in 0 .. m.per - 1 : f + d < Count(m) /\ l = <<d + 1, f + d>>
          \/ page # 0 /\ l = <<m.per + 1, MENU_BACK>>
          \/ f + m.per < Count(m) /\ l = <<m.per + 2, MENU_MORE>>
          \/ l = <<m.per + 3, MENU_EXIT>>
      BY <1>3, <2>1 DEF Fits
    <3> QED
      BY <2>2, <2>4, <3>1
  <2> QED
    BY <1>1, <1>3, <2>1, <2>3, <2>5 DEF Fits
<1> QED
  BY <1>2, <1>3

\* Menus come, get more items or go; none becomes another in one step.
MenusExtend ==
  \A i \in Id : Live(i)' =>
    \/ Live(i) /\ menu'[i].obj = menu[i].obj /\ Extends(menu'[i], menu[i])
    \/ ~Live(i) /\ Plain(menu'[i]) /\ menu'[i].obj > made

LEMMA MenusExtendSame ==
  ASSUME IInv, UNCHANGED tableVars
  PROVE  MenusExtend
<1>1. menu' = menu /\ \A i : Live(i)' <=> Live(i)
  BY TablesSame DEF tableVars
<1>2. \A i \in Id : Live(i) => Extends(menu[i], menu[i])
  <2>1. \A i \in Id : Live(i) => Count(menu[i]) \in Nat
    BY LiveIsPageMenu, CountTyped
  <2> QED
    BY <2>1 DEF Extends
<1> QED
  BY <1>1, <1>2 DEF MenusExtend

LEMMA StillFits ==
  ASSUME IInv, IInv', LegendsFit, MenusExtend, NEW i \in Id, Live(i), Live(i)',
         NEW page \in Nat, NEW l, Fits(menu[i], page, l)
  PROVE  Fits(menu'[i], page, l)
<1>1. PageMenu(menu[i])
  BY LiveIsPageMenu
<1>2. PageMenu(menu'[i])
  <2>1. menu' \in [Id -> Records]
    BY DEF IInv, StateOK
  <2> QED
    BY <2>1, RecordIsPageMenu
<1>3. Extends(menu'[i], menu[i])
  BY DEF MenusExtend
<1> QED
  BY <1>1, <1>2, <1>3, FitsExtended

LEMMA TextStillFits ==
  ASSUME IInv, IInv', LegendsFit, MenusExtend, NEW i \in Id, Live(i), Live(i)',
         NEW lines, TextFits(menu[i], lines)
  PROVE  TextFits(menu'[i], lines)
BY StillFits DEF TextFits

\* What a step may do to the screens, texts and frames: leave them, or draw what fits.
ScreensDrawn ==
  \A p \in Players : Live(screen[p].id)' =>
    \/ screen'[p] = screen[p]
    \/ TextFits(menu'[screen'[p].id], screen'[p].text)
TextsDrawn ==
  /\ TextOK'
  /\ \A i \in Id : Live(i)' =>
       \/ Live(i) /\ menu'[i].obj = menu[i].obj /\ text'[menu[i].obj] = text[menu[i].obj]
       \/ TextFits(menu'[i], text'[menu'[i].obj])
Good(g) == g.op = "text" => \A l \in g.legend : Fits(menu'[g.id], g.page, l)
FramesDrawn ==
  \A k \in 1 .. Len(frames') :
    \/ k \in 1 .. Len(frames) /\ frames'[k] = frames[k]
    \/ Good(frames'[k])

LEMMA LegendsKept ==
  ASSUME IInv, IInv', LegendsFit, MenusExtend, ScreensDrawn, TextsDrawn, FramesDrawn
  PROVE  LegendsFit'
<1>1. ASSUME NEW i \in Id, Live(i)'  PROVE Plain(menu'[i])
  <2>1. Live(i) => Plain(menu[i])
    BY DEF LegendsFit
  <2> QED
    BY <1>1, <2>1 DEF MenusExtend, Extends
<1>2. ASSUME NEW p \in Players, Live(screen[p].id)'
      PROVE  TextFits(menu'[screen'[p].id], screen'[p].text)
  <2>1. CASE screen'[p] = screen[p]
    <3>1. screen[p].id \in Id \cup {-1}
      BY DEF IInv, StateOK
    <3>2. screen[p].id # -1 /\ screen[p].id \in Id
      BY <1>2, <2>1 DEF Live, Id
    <3>3. PICK i \in Id : i = screen[p].id
      BY <3>2
    <3>4. Live(i)
      BY <3>2, <3>3 DEF IInv, ScreensDenote
    <3>5. Live(i)'
      BY <1>2, <2>1, <3>3 DEF Live
    <3>6. TextFits(menu[i], screen[p].text)
      BY <3>3, <3>4 DEF LegendsFit
    <3>7. TextFits(menu'[i], screen[p].text)
      BY <3>4, <3>5, <3>6, TextStillFits
    <3> QED
      BY <2>1, <3>3, <3>7
  <2>2. CASE screen'[p] # screen[p]
    BY <1>2, <2>2 DEF ScreensDrawn
  <2> QED
    BY <2>1, <2>2
<1>3. ASSUME NEW k \in 1 .. Len(frames'), frames'[k].op = "text", Live(frames[k].id)',
             menu'[frames'[k].id].obj = frames'[k].obj, NEW l \in frames'[k].legend
      PROVE  Fits(menu'[frames'[k].id], frames'[k].page, l)
  <2>1. CASE k \in 1 .. Len(frames) /\ frames'[k] = frames[k]
    <3> DEFINE f == frames[k]
    <3>1. /\ f.op = "text" /\ f.page \in Nat /\ f.obj \in 1 .. made /\ f.id \in Id
          /\ \A l2 \in f.legend : Live(f.id) /\ menu[f.id].obj = f.obj =>
               Fits(menu[f.id], f.page, l2)
      BY <1>3, <2>1 DEF IInv, FramesPlaced, Placed, Drawing, LegendsFit
    <3>2. f = frames'[k] /\ l \in f.legend /\ menu'[f.id].obj = f.obj
      BY <1>3, <2>1
    <3> HIDE DEF f
    <3>3. PICK i \in Id : i = f.id
      BY <3>1
    <3>4. Live(i)'
      BY <1>3, <3>2, <3>3 DEF Live
    <3>5. made \in Nat /\ ~(f.obj > made)
      BY <3>1 DEF IInv, StateOK
    <3>6. Live(i) /\ menu[i].obj = f.obj
      BY <3>2, <3>3, <3>4, <3>5 DEF MenusExtend
    <3>7. Fits(menu[i], f.page, l)
      BY <3>1, <3>2, <3>3, <3>6
    <3>8. Fits(menu'[i], f.page, l)
      BY <3>1, <3>4, <3>6, <3>7, StillFits
    <3> QED
      BY <3>2, <3>3, <3>8
  <2>2. CASE ~(k \in 1 .. Len(frames) /\ frames'[k] = frames[k])
    BY <1>3, <2>2 DEF FramesDrawn, Good
  <2> QED
    BY <2>1, <2>2
<1>4. ASSUME NEW i \in Id, Live(i)'  PROVE TextFits(menu'[i], text'[menu'[i].obj])
  <2>1. CASE Live(i) /\ menu'[i].obj = menu[i].obj /\ text'[menu[i].obj] = text[menu[i].obj]
    <3>1. TextFits(menu[i], text[menu[i].obj])
      BY <2>1 DEF LegendsFit
    <3> QED
      BY <1>4, <2>1, <3>1, TextStillFits
  <2> QED
    BY <1>4, <2>1 DEF TextsDrawn
<1>5. TextOK'
  BY DEF TextsDrawn
<1> QED
  BY <1>1, <1>2, <1>3, <1>4, <1>5 DEF LegendsFit

LEMMA OtherGood ==
  ASSUME NEW g, g.op \in {"close", "display", "show", "destroy", "turn", "leave"}
  PROVE  Good(g)
BY DEF Good

LEMMA SameFramesDrawn ==
  ASSUME frames' = frames
  PROVE  FramesDrawn
BY DEF FramesDrawn

LEMMA PushDrawn ==
  ASSUME IInv, NEW g, frames' = Append(frames, g), Good(g)
  PROVE  FramesDrawn
<1>1. IsStack(frames) /\ Len(frames) \in Nat
  BY StackTyped DEF IInv, Fitting
<1>2. /\ Len(frames') = Len(frames) + 1 /\ frames'[Len(frames) + 1] = g
      /\ \A k \in 1 .. Len(frames) : frames'[k] = frames[k]
  BY <1>1, Pushed
<1>3. \A k \in 1 .. Len(frames') : k = Len(frames) + 1 \/ k \in 1 .. Len(frames)
  BY <1>1, <1>2
<1> QED
  BY <1>2, <1>3 DEF FramesDrawn

LEMMA PopDrawn ==
  ASSUME IInv, frames # <<>>, frames' = Below
  PROVE  FramesDrawn
<1>1. /\ Len(Below) = Len(frames) - 1 /\ Len(frames) \in Nat \ {0}
      /\ \A k \in 1 .. Len(frames) - 1 : Below[k] = frames[k]
  BY Popped DEF IInv, Fitting, Below
<1>2. \A k \in 1 .. Len(frames') : k \in 1 .. Len(frames) - 1 /\ k \in 1 .. Len(frames)
  BY <1>1
<1> QED
  BY <1>1, <1>2 DEF FramesDrawn

LEMMA SwapDrawn ==
  ASSUME IInv, frames # <<>>, NEW g, frames' = Instead(g), Good(g)
  PROVE  FramesDrawn
<1>1. /\ IsStack(Below) /\ Len(Below) = Len(frames) - 1 /\ Len(frames) \in Nat \ {0}
      /\ \A k \in 1 .. Len(frames) - 1 : Below[k] = frames[k]
  BY Popped DEF IInv, Fitting, Below
<1>2. /\ Len(frames') = Len(Below) + 1 /\ frames'[Len(Below) + 1] = g
      /\ \A k \in 1 .. Len(Below) : frames'[k] = Below[k]
  <2>1. frames' = Append(Below, g)
    BY DEF Instead
  <2> QED
    BY <1>1, <2>1, Pushed
<1>3. \A k \in 1 .. Len(frames') : \/ k = Len(Below) + 1
                                   \/ /\ k \in 1 .. Len(Below) /\ k \in 1 .. Len(frames) - 1
                                      /\ k \in 1 .. Len(frames)
  BY <1>1, <1>2
<1> QED
  BY <1>1, <1>2, <1>3 DEF FramesDrawn

LEMMA FirstDrawn ==
  ASSUME IInv, NEW g, frames = <<>>, frames' = <<g>>, Good(g)
  PROVE  FramesDrawn
<1>1. frames' = Append(frames, g)
  BY OneFrame
<1> QED
  BY <1>1, PushDrawn

\* The screens a step leaves or blanks.
LEMMA SameScreensDrawn ==
  ASSUME \A p \in Players : screen'[p] = screen[p] \/ screen'[p].id = -1
  PROVE  ScreensDrawn
BY DEF ScreensDrawn, Live, Id

LEMMA BlankDrawn ==
  ASSUME IInv, NEW p, NEW pg, screen' = [screen EXCEPT ![p] = Blank(pg)]
  PROVE  ScreensDrawn
<1>1. DOMAIN screen = Players
  BY DEF IInv, Fitting
<1>2. \A q \in Players : screen'[q] = screen[q] \/ screen'[q] = Blank(pg)
  BY <1>1
<1> QED
  BY <1>2, BlankFacts, SameScreensDrawn

\* The texts a step leaves, while menus may go.
LEMMA SameTextsDrawn ==
  ASSUME LegendsFit, text' = text,
         \A i \in Id : Live(i)' => Live(i) /\ menu'[i].obj = menu[i].obj
  PROVE  TextsDrawn
<1>1. TextOK'
  BY DEF LegendsFit, TextOK
<1> QED
  BY <1>1 DEF TextsDrawn

\* The text of one menu, where something is written that fits it.
LEMMA TextWritten ==
  ASSUME IInv, LegendsFit, UNCHANGED tableVars, NEW i0 \in Id, Live(i0), NEW T \in SUBSET Line,
         TextFits(menu[i0], T), text' = [text EXCEPT ![menu[i0].obj] = T]
  PROVE  TextsDrawn
<1>1. menu' = menu /\ \A i : Live(i)' <=> Live(i)
  BY TablesSame DEF tableVars
<1>2. /\ \A i \in Id : Live(i) => menu[i].obj \in Obj
      /\ \A i \in Id : Live(i) /\ menu[i].obj = menu[i0].obj => i = i0
  BY LiveMenu
<1>3. PICK o \in Obj : o = menu[i0].obj
  BY <1>2
<1>4. /\ text' \in [Obj -> SUBSET Line] /\ text'[o] = T
      /\ \A x \in Obj : x # o => text'[x] = text[x]
  BY <1>3 DEF LegendsFit, TextOK
<1>5. ASSUME NEW i \in Id, Live(i)'
      PROVE  \/ Live(i) /\ menu'[i].obj = menu[i].obj /\ text'[menu[i].obj] = text[menu[i].obj]
             \/ TextFits(menu'[i], text'[menu'[i].obj])
  <2>1. CASE i = i0
    BY <1>1, <1>3, <1>4, <2>1
  <2>2. CASE i # i0
    BY <1>1, <1>2, <1>3, <1>4, <1>5, <2>2
  <2> QED
    BY <2>1, <2>2
<1> QED
  BY <1>4, <1>5 DEF TextsDrawn, TextOK

\* A step that leaves the menus and texts alone and draws nothing.
LEMMA QuietKept ==
  ASSUME IInv, IInv', LegendsFit, UNCHANGED <<tableVars, text>>, ScreensDrawn, FramesDrawn
  PROVE  LegendsFit'
<1>1. menu' = menu /\ \A i : Live(i)' <=> Live(i)
  BY TablesSame DEF tableVars
<1>2. TextsDrawn
  BY <1>1, SameTextsDrawn
<1> QED
  BY <1>2, MenusExtendSame, LegendsKept

-----------------------------------------------------------------------------
(* Each step *)

LEMMA CloseFits ==
  ASSUME IInv, IInv', LegendsFit, NEW p, NEW fs, Close(p, fs), FramesDrawn
  PROVE  LegendsFit'
<1>1. screen' = [screen EXCEPT ![p] = Blank(screen[p].page)] /\ UNCHANGED <<tableVars, text>>
  BY DEF Close
<1> QED
  BY <1>1, BlankDrawn, QuietKept

LEMMA MenuCancelFits ==
  ASSUME IInv, IInv', LegendsFit, NEW p \in Players, MenuCancel(p)
  PROVE  LegendsFit'
<1>1. Close(p, Append(frames, LastCall)) /\ frames' = Append(frames, LastCall)
  BY DEF MenuCancel, Close
<1> QED
  BY <1>1, LastCallFacts, OtherGood, PushDrawn, CloseFits

LEMMA ClosedFits ==
  ASSUME IInv, IInv', LegendsFit, Closed
  PROVE  LegendsFit'
<1>1. frames # <<>> /\ frames' = Below /\ UNCHANGED <<tableVars, text>> /\ screen' = screen
  BY DEF Closed, Resumes
<1> QED
  BY <1>1, PopDrawn, SameScreensDrawn, QuietKept

LEMMA MenuCreateFits ==
  ASSUME IInv, IInv', LegendsFit, MenuCreate
  PROVE  LegendsFit'
<1>0. /\ Tables /\ made \in Nat /\ made < MaxMade /\ len \in Nat /\ made' = made + 1
      /\ UNCHANGED <<screen, frames>> /\ text' = [text EXCEPT ![made + 1] = {}]
  BY Parts DEF MenuCreate, Tables
<1> DEFINE n == Len(freeIds)
           new == NewMenu(made + 1)
<1>1. Plain(new) /\ new.obj = made + 1
  <2>1. made + 1 \in Obj
    BY <1>0, MenusAssumption DEF Obj
  <2>2. new.obj = made + 1 /\ new.per = PerPage /\ new.items = <<>> /\ ~new.force
    BY <2>1, NewMenuFacts
  <2> HIDE DEF new
  <2>3. Count(new) = 0
    BY <2>2, OneFrame DEF Count
  <2> QED
    BY <2>2, <2>3 DEF Plain
<1> HIDE DEF new
<1>2. \E i0 \in Id :
        /\ ~Live(i0) /\ menu' = [menu EXCEPT ![i0] = new]
        /\ \/ i0 = len /\ len' = len + 1
           \/ i0 < len /\ len' = len
  <2>1. CASE freeIds = <<>>
    <3>1. len < MaxIds /\ menu' = [menu EXCEPT ![len] = new] /\ len' = len + 1
      BY <2>1 DEF MenuCreate, new
    <3>2. len \in Id /\ ~Live(len)
      BY <1>0, <3>1, MenusAssumption DEF Id, Live
    <3> QED
      BY <3>1, <3>2
  <2>2. CASE freeIds # <<>>
    <3>1. menu' = [menu EXCEPT ![freeIds[n]] = new] /\ len' = len
      BY <2>2 DEF MenuCreate, new
    <3>2. IsStack(freeIds) /\ freeIds \in Seq(Id)
      BY <1>0, StackOf DEF Tables
    <3>3. n \in 1 .. n
      <4>1. n \in Nat \ {0}
        BY <2>2, <3>2, Popped
      <4> QED
        BY <4>1
    <3>4. freeIds[n] \in Id /\ freeIds[n] < len /\ ~Live(freeIds[n])
      BY <1>0, <3>2, <3>3, ElementOfSeq DEF Tables, FreeIdsExact, Live
    <3> QED
      BY <3>1, <3>4
  <2> QED
    BY <2>1, <2>2
<1>3. PICK i0 \in Id :
        /\ ~Live(i0) /\ menu' = [menu EXCEPT ![i0] = new]
        /\ \/ i0 = len /\ len' = len + 1
           \/ i0 < len /\ len' = len
  BY <1>2
<1>4. menu'[i0] = new /\ \A i \in Id : i # i0 => menu'[i] = menu[i]
  BY <1>0, <1>3 DEF Tables
<1>5. ASSUME NEW i \in Id, Live(i)'
      PROVE  \/ Live(i) /\ menu'[i].obj = menu[i].obj /\ Extends(menu'[i], menu[i])
             \/ ~Live(i) /\ Plain(menu'[i]) /\ menu'[i].obj > made
  <2>1. CASE i = i0
    BY <1>0, <1>1, <1>3, <1>4, <2>1
  <2>2. CASE i # i0
    <3>1. i < len
      BY <1>0, <1>3, <1>5, <2>2 DEF Live, Id
    <3>2. Live(i) /\ menu'[i] = menu[i]
      BY <1>4, <1>5, <2>2, <3>1 DEF Live
    <3>3. Count(menu[i]) \in Nat
      BY <3>2, LiveIsPageMenu, CountTyped
    <3> QED
      BY <3>2, <3>3 DEF Extends
  <2> QED
    BY <2>1, <2>2
<1>6. MenusExtend
  BY <1>5 DEF MenusExtend
<1>7. TextsDrawn
  <2>1. made + 1 \in Obj /\ \A o \in 1 .. made : o \in Obj /\ o # made + 1
    BY <1>0, MenusAssumption DEF Obj
  <2>2. /\ text' \in [Obj -> SUBSET Line] /\ text'[made + 1] = {}
        /\ \A o \in 1 .. made : text'[o] = text[o]
    BY <1>0, <2>1 DEF LegendsFit, TextOK
  <2>3. ASSUME NEW i \in Id, Live(i)'
        PROVE  \/ Live(i) /\ menu'[i].obj = menu[i].obj /\ text'[menu[i].obj] = text[menu[i].obj]
               \/ TextFits(menu'[i], text'[menu'[i].obj])
    <3>1. CASE i = i0
      BY <1>1, <1>4, <2>2, <3>1 DEF TextFits
    <3>2. CASE i # i0
      <4>1. menu'[i] = menu[i] /\ Live(i)
        BY <1>0, <1>3, <1>4, <2>3, <3>2 DEF Live, Id
      <4>2. menu[i].obj \in 1 .. made
        BY <4>1, LiveMenu
      <4> QED
        BY <2>2, <4>1, <4>2
    <3> QED
      BY <3>1, <3>2
  <2> QED
    BY <2>2, <2>3 DEF TextsDrawn, TextOK
<1> QED
  BY <1>0, <1>6, <1>7, SameFramesDrawn, SameScreensDrawn, LegendsKept

\* One menu gets more items, or starts to die.
LEMMA ChangedExtends ==
  ASSUME IInv, NEW id \in Id, Live(id), NEW m2 \in Records, m2.obj = menu[id].obj,
         menu' = [menu EXCEPT ![id] = m2], UNCHANGED <<len, freeIds, made>>,
         Extends(m2, menu[id])
  PROVE  MenusExtend /\ \A i \in Id : Live(i)' => Live(i) /\ menu'[i].obj = menu[i].obj
<1>1. /\ menu'[id] = m2
      /\ \A i \in Id : i # id => menu'[i] = menu[i]
      /\ \A i \in Id : (Live(i)' <=> Live(i)) /\ menu'[i].obj = menu[i].obj
  BY MenuChanged
<1>2. \A i \in Id : Live(i) => Extends(menu[i], menu[i])
  <2>1. \A i \in Id : Live(i) => Count(menu[i]) \in Nat
    BY LiveIsPageMenu, CountTyped
  <2> QED
    BY <2>1 DEF Extends
<1> QED
  BY <1>1, <1>2 DEF MenusExtend

LEMMA ItemExtends ==
  ASSUME NEW m \in Records, NEW item \in Items, item.nums = 0, item.lines = 0
  PROVE  Extends([m EXCEPT !.items = Append(@, item)], m)
<1> DEFINE its == Append(m.items, item)
           r == [m EXCEPT !.items = its]
<1>1. m.items \in Seq(Items)
  BY DEF Records
<1>2. /\ Len(m.items) \in Nat /\ Len(its) = Len(m.items) + 1 /\ its[Len(m.items) + 1] = item
      /\ \A k \in 1 .. Len(m.items) : its[k] = m.items[k]
  BY <1>1, LenProperties, AppendProperties
<1> HIDE DEF its
<1>3. r.items = its /\ r.per = m.per /\ r.force = m.force
  BY DEF Records
<1> HIDE DEF r
<1>4. Count(r) = Count(m) + 1 /\ Count(m) \in Nat
  BY <1>2, <1>3 DEF Count
<1>5. ASSUME Plain(m) PROVE Plain(r)
  <2>1. \A k \in 1 .. Count(r) : k = Len(m.items) + 1 \/ k \in 1 .. Count(m)
    BY <1>2, <1>4 DEF Count
  <2>2. \A k \in 1 .. Count(m) : its[k] = m.items[k]
    BY <1>2 DEF Count
  <2> QED
    BY <1>2, <1>3, <1>5, <2>1, <2>2 DEF Plain
<1> QED
  BY <1>3, <1>4, <1>5 DEF Extends, r, its

LEMMA MenuAddItemFits ==
  ASSUME IInv, IInv', LegendsFit, NEW id \in Id, MenuAddItem(id)
  PROVE  LegendsFit'
<1> DEFINE item == [on |-> TRUE, nums |-> 0, lines |-> 0]
           m2 == [menu[id] EXCEPT !.items = Append(@, item)]
<1>1. /\ Live(id) /\ menu' = [menu EXCEPT ![id] = m2]
      /\ UNCHANGED <<len, freeIds, made>> /\ UNCHANGED <<screen, text, frames>>
  BY DEF MenuAddItem, Usable
<1>2. item \in Items /\ item.nums = 0 /\ item.lines = 0
  BY DEF Items
<1> HIDE DEF item
<1>3. menu[id] \in Records
  BY <1>1, LiveIsPageMenu
<1>4. m2 \in Records /\ m2.obj = menu[id].obj /\ Extends(m2, menu[id])
  BY <1>2, <1>3, ItemAdded, ItemExtends
<1> HIDE DEF m2
<1>5. MenusExtend /\ TextsDrawn
  BY <1>1, <1>4, ChangedExtends, SameTextsDrawn
<1> QED
  BY <1>1, <1>5, SameFramesDrawn, SameScreensDrawn, LegendsKept

LEMMA MenuDestroyFits ==
  ASSUME IInv, IInv', LegendsFit, NEW id \in Id, MenuDestroy(id)
  PROVE  LegendsFit'
<1> DEFINE f == Frame("destroy", Nobody, id, menu[id].obj, 0)
           g == [f EXCEPT !.todo = Players]
           m2 == [menu[id] EXCEPT !.dying = TRUE]
<1>1. /\ Live(id) /\ menu' = [menu EXCEPT ![id] = m2] /\ frames' = Append(frames, g)
      /\ UNCHANGED <<len, freeIds, made>> /\ screen' = screen /\ text' = text
  BY DEF MenuDestroy, Usable
<1>2. g.op = "destroy"
  <2>1. DOMAIN f = FrameFields /\ f.op = "destroy"
    BY FrameFacts
  <2> HIDE DEF f
  <2> QED
    BY <2>1, TodoFacts
<1> HIDE DEF g
<1>3. PICK m \in Records : m = menu[id]
  BY <1>1, LiveIsPageMenu
<1>4. m2 \in Records /\ m2.obj = menu[id].obj
  BY <1>3, DyingSet
<1>5. Extends(m2, menu[id])
  <2>1. m2.items = m.items /\ m2.per = m.per /\ m2.force = m.force
    BY <1>3 DEF Records
  <2>2. Count(m) \in Nat
    BY RecordIsPageMenu, CountTyped
  <2> HIDE DEF m2
  <2> QED
    BY <1>3, <2>1, <2>2 DEF Extends, Count, Plain
<1> HIDE DEF m2
<1>6. MenusExtend /\ TextsDrawn
  BY <1>1, <1>4, <1>5, ChangedExtends, SameTextsDrawn
<1> QED
  BY <1>1, <1>2, <1>6, OtherGood, PushDrawn, SameScreensDrawn, LegendsKept

LEMMA DrawnLegend ==
  ASSUME NEW f, DOMAIN f = FrameFields, NEW o, NEW L
  PROVE  LET g == [f EXCEPT !.op = "text", !.obj = o, !.legend = L]
         IN  /\ DOMAIN g = FrameFields /\ g.op = "text" /\ g.id = f.id /\ g.page = f.page
             /\ g.legend = L /\ g.obj = o
BY DEF FrameFields

LEMMA CallbackLegend ==
  ASSUME NEW f, DOMAIN f = FrameFields
  PROVE  /\ Callback(f).id = f.id /\ Callback(f).page = f.page /\ Callback(f).legend = f.legend
         /\ Callback(f).op = f.op
BY DEF Callback, FrameFields

\* A page that fits goes on the screen, after lines that fit.
LEMMA ShowFits ==
  ASSUME IInv, IInv', LegendsFit, frames # <<>>, NEW f, NEW before \in SUBSET Line, NEW gone,
         Show(f, before, gone), Live(f.id), menu[f.id].obj = f.obj, f.page \in Nat,
         TextFits(menu[f.id], before), \A l \in f.legend : Fits(menu[f.id], f.page, l)
  PROVE  LegendsFit'
<1> DEFINE said == before \cup ({f.page} \X f.legend)
           s == [id |-> f.id, page |-> f.page, keys |-> {l[1] : l \in f.legend}, text |-> said]
           T == IF Drafting(f.obj) THEN said ELSE {}
<1>1. /\ screen' = [screen EXCEPT ![f.p] = s] /\ frames' = Below /\ UNCHANGED tableVars
      /\ menu' = menu /\ text' = [text EXCEPT ![f.obj] = T]
  BY DEF Show, tableVars
<1>2. s.id = f.id /\ s.text = said
  OBVIOUS
<1> HIDE DEF s
<1>3. \A q \in Players : screen'[q] = screen[q] \/ screen'[q] = s
  <2>1. DOMAIN screen = Players
    BY DEF IInv, Fitting
  <2> QED
    BY <1>1, <2>1
<1>4. f.id \in Id /\ PageMenu(menu[f.id])
  BY LiveIsPageMenu
<1>5. said \subseteq Line /\ TextFits(menu[f.id], said)
  <2>1. f.legend \subseteq Nat \X Int
    BY <1>4, FitsTyped
  <2>2. \A l \in {f.page} \X f.legend : l[1] = f.page /\ l[2] \in f.legend
    OBVIOUS
  <2>3. {f.page} \X f.legend \subseteq Line
    BY <2>1 DEF Line
  <2> QED
    BY <2>2, <2>3 DEF TextFits
<1> HIDE DEF said
<1>6. T \subseteq Line /\ TextFits(menu[f.id], T)
  BY <1>5 DEF TextFits
<1> HIDE DEF T
<1>7. ScreensDrawn
  BY <1>1, <1>2, <1>3, <1>5 DEF ScreensDrawn
<1>8. TextsDrawn
  BY <1>1, <1>4, <1>6, TextWritten
<1> QED
  BY <1>1, <1>7, <1>8, PopDrawn, MenusExtendSame, LegendsKept

LEMMA GiveUpFits ==
  ASSUME IInv, IInv', LegendsFit, frames # <<>>, NEW gone, GiveUp(gone)
  PROVE  LegendsFit'
<1>1. frames' = Below /\ UNCHANGED <<tableVars, text>> /\ screen' = screen
  BY DEF GiveUp
<1> QED
  BY <1>1, PopDrawn, SameScreensDrawn, QuietKept

LEMMA UseDeletedFits ==
  ASSUME IInv, IInv', LegendsFit, NEW how, UseDeleted(how)
  PROVE  LegendsFit'
<1>1. frames' = frames /\ UNCHANGED <<tableVars, text>> /\ screen' = screen
  BY DEF UseDeleted
<1> QED
  BY <1>1, SameFramesDrawn, SameScreensDrawn, QuietKept

\* A page of a menu that is there is drawn, and shown or held up by a callback.
LEMMA DisplayFits ==
  ASSUME IInv, IInv', LegendsFit, frames # <<>>, NEW f, DOMAIN f = FrameFields, Live(f.id),
         Display(f, menu[f.id])
  PROVE  LegendsFit'
<1> DEFINE m == menu[f.id]
           drawn == [f EXCEPT !.op = "text", !.obj = m.obj, !.legend = Legend(m, f.page)]
<1>1. /\ DOMAIN drawn = FrameFields /\ drawn.id = f.id /\ drawn.page = f.page /\ drawn.obj = m.obj
      /\ drawn.legend = Legend(m, f.page) /\ drawn.op = "text"
  BY DrawnLegend
<1>2. \/ f.page \notin 0 .. PageCount(m) - 1 /\ GiveUp({f.obj})
      \/ /\ f.page \in 0 .. PageCount(m) - 1 /\ frames' = Instead(Callback(drawn))
         /\ UNCHANGED <<tableVars, screen>> /\ text' = [text EXCEPT ![m.obj] = {}]
      \/ f.page \in 0 .. PageCount(m) - 1 /\ Show(drawn, {}, {f.obj})
  BY DEF Display
<1> HIDE DEF drawn
<1>3. f.page \in 0 .. PageCount(m) - 1 => \A l \in drawn.legend : Fits(menu[drawn.id], drawn.page, l)
  <2>1. PageMenu(m) /\ Plain(m)
    BY LiveIsPageMenu DEF LegendsFit
  <2> HIDE DEF m
  <2>2. f.page \in 0 .. PageCount(m) - 1 => \A l \in Legend(m, f.page) : Fits(m, f.page, l)
    BY <2>1, PlainFits
  <2> QED
    BY <1>1, <2>2 DEF m
<1>4. CASE GiveUp({f.obj})
  BY <1>4, GiveUpFits
<1>5. CASE f.page \in 0 .. PageCount(m) - 1 /\ Show(drawn, {}, {f.obj})
  <2>1. f.id \in Id /\ PageCount(m) \in Int
    BY LiveIsPageMenu, PageCountTyped
  <2>2. drawn.page \in Nat
    BY <1>1, <1>5, <2>1
  <2>3. {} \in SUBSET Line /\ TextFits(menu[drawn.id], {})
    BY DEF TextFits
  <2> QED
    BY <1>1, <1>3, <1>5, <2>2, <2>3, ShowFits
<1>6. CASE /\ f.page \in 0 .. PageCount(m) - 1 /\ frames' = Instead(Callback(drawn))
           /\ UNCHANGED <<tableVars, screen>> /\ text' = [text EXCEPT ![m.obj] = {}]
  <2> DEFINE g == Callback(drawn)
  <2>1. /\ g.op = drawn.op /\ g.id = drawn.id /\ g.page = drawn.page
        /\ g.legend = drawn.legend
    BY <1>1, CallbackLegend
  <2>2. menu' = menu
    BY <1>6 DEF tableVars
  <2>3. Good(g)
    BY <1>1, <1>3, <1>6, <2>1, <2>2 DEF Good
  <2> HIDE DEF g
  <2>4. FramesDrawn
    BY <1>6, <2>3, SwapDrawn DEF g
  <2>5. TextsDrawn
    <3>1. f.id \in Id /\ {} \in SUBSET Line /\ TextFits(menu[f.id], {})
      BY LiveIsPageMenu DEF TextFits
    <3> QED
      BY <1>6, <3>1, TextWritten
  <2> QED
    BY <1>6, <2>4, <2>5, SameScreensDrawn, MenusExtendSame, LegendsKept
<1> QED
  BY <1>2, <1>4, <1>5, <1>6

LEMMA DrawnKeepsFit ==
  ASSUME IInv, IInv', LegendsFit, Drawn
  PROVE  LegendsFit'
<1>1. /\ frames # <<>> /\ Top.op = "text"
      /\ \/ Live(Top.id) /\ menu[Top.id].obj = Top.obj /\ Show(Top, text[Top.obj], {})
         \/ UseDeleted("item callback")
  BY DEF Drawn, Resumes
<1>2. CASE Live(Top.id) /\ menu[Top.id].obj = Top.obj /\ Show(Top, text[Top.obj], {})
  <2>1. Len(frames) \in 1 .. Len(frames)
    <3>1. Len(frames) \in Nat \ {0}
      BY <1>1, TopFacts
    <3> QED
      BY <3>1
  <2>2. \A l \in Top.legend : Fits(menu[Top.id], Top.page, l)
    BY <1>1, <1>2, <2>1 DEF LegendsFit, Top
  <2>3. Top.page \in Nat /\ text[Top.obj] \in SUBSET Line /\ TextFits(menu[Top.id], text[Top.obj])
    <3>1. Top.id \in Id /\ menu[Top.id].obj \in Obj
      BY <1>2, LiveMenu
    <3>2. TextFits(menu[Top.id], text[menu[Top.id].obj]) /\ text[menu[Top.id].obj] \in SUBSET Line
      BY <1>2, <3>1 DEF LegendsFit, TextOK
    <3>3. Top.page \in Nat
      BY <1>1, TopFacts
    <3> QED
      BY <1>2, <3>2, <3>3
  <2> QED
    BY <1>1, <1>2, <2>2, <2>3, ShowFits
<1> QED
  BY <1>1, <1>2, UseDeletedFits

LEMMA MenuDisplayFits ==
  ASSUME IInv, IInv', LegendsFit, NEW p, NEW id, NEW pg, MenuDisplay(p, id, pg)
  PROVE  LegendsFit'
<1> DEFINE g == Frame("display", p, id, menu[id].obj, pg)
<1>1. frames' = Append(frames, g) /\ UNCHANGED <<tableVars, text>> /\ screen' = screen
  BY DEF MenuDisplay
<1>2. g.op = "display"
  BY FrameFacts
<1> HIDE DEF g
<1> QED
  BY <1>1, <1>2, OtherGood, PushDrawn, SameScreensDrawn, QuietKept

LEMMA ShowMenuFits ==
  ASSUME IInv, IInv', LegendsFit, NEW p, ShowMenu(p)
  PROVE  LegendsFit'
<1> DEFINE g == Frame("show", p, -1, 0, 0)
<1>1. frames' = Append(frames, g) /\ UNCHANGED <<tableVars, text>> /\ screen' = screen
  BY DEF ShowMenu
<1>2. g.op = "show"
  BY FrameFacts
<1> HIDE DEF g
<1> QED
  BY <1>1, <1>2, OtherGood, PushDrawn, SameScreensDrawn, QuietKept

LEMMA RoundFits ==
  ASSUME IInv, IInv', LegendsFit, frames # <<>>, Top.op \in {"display", "show"}, Round(Top)
  PROVE  LegendsFit'
<1> DEFINE g == Callback([Top EXCEPT !.n = @ + 1])
<1>1. Close(Top.p, Instead(g)) /\ frames' = Instead(g)
  BY DEF Round, Close
<1>2. g.op = Top.op
  BY TopFacts, RoundFacts DEF Alike
<1> HIDE DEF g
<1>3. FramesDrawn
  BY <1>1, <1>2, OtherGood, SwapDrawn
<1> QED
  BY <1>1, <1>3, CloseFits

LEMMA GoOnDisplayingFits ==
  ASSUME IInv, IInv', LegendsFit, GoOnDisplaying
  PROVE  LegendsFit'
<1>1. /\ frames # <<>> /\ Top.op = "display"
      /\ \/ MoreToClose(Top) /\ Round(Top)
         \/ GiveUp({})
         \/ Live(Top.id) /\ Display(Top, menu[Top.id])
         \/ UseDeleted("id in use again")
  BY DEF GoOnDisplaying, Resumes
<1>2. DOMAIN Top = FrameFields
  BY <1>1, TopFacts
<1> QED
  BY <1>1, <1>2, RoundFits, GiveUpFits, DisplayFits, UseDeletedFits

LEMMA GoOnTurningFits ==
  ASSUME IInv, IInv', LegendsFit, GoOnTurning
  PROVE  LegendsFit'
<1> DEFINE f == [Top EXCEPT !.page = screen[Top.p].page + @]
<1>1. /\ frames # <<>>
      /\ \/ Live(f.id) /\ Display(f, menu[f.id])
         \/ GiveUp({f.obj})
  BY DEF GoOnTurning, Resumes
<1>2. DOMAIN Top = FrameFields
  BY <1>1, TopFacts
<1>3. DOMAIN f = FrameFields
  BY <1>2, PageFacts
<1> HIDE DEF f
<1> QED
  BY <1>1, <1>3, GiveUpFits, DisplayFits

LEMMA GoOnShowingFits ==
  ASSUME IInv, IInv', LegendsFit, GoOnShowing
  PROVE  LegendsFit'
<1>1. /\ frames # <<>> /\ Top.op = "show"
      /\ \/ MoreToClose(Top) /\ Round(Top)
         \/ /\ ~MoreToClose(Top) /\ frames' = Below /\ UNCHANGED <<tableVars, text>>
            /\ screen' = [screen EXCEPT ![Top.p].page = IF Top.n = MaxLoops THEN @ ELSE 0]
  BY DEF GoOnShowing, Resumes
<1>2. CASE MoreToClose(Top) /\ Round(Top)
  BY <1>1, <1>2, RoundFits
<1>3. CASE /\ ~MoreToClose(Top) /\ frames' = Below /\ UNCHANGED <<tableVars, text>>
           /\ screen' = [screen EXCEPT ![Top.p].page = IF Top.n = MaxLoops THEN @ ELSE 0]
  <2>1. /\ DOMAIN screen = Players /\ Top.p \in Players
        /\ \A p \in Players : DOMAIN screen[p] = ScreenFields
    BY <1>1, TopFacts DEF IInv, Fitting, StateOK, Drawing
  <2>2. FramesDrawn
    BY <1>1, <1>3, PopDrawn
  <2>3. /\ \A q \in Players : q # Top.p => screen'[q] = screen[q]
        /\ screen'[Top.p].id = screen[Top.p].id /\ screen'[Top.p].text = screen[Top.p].text
    BY <1>3, <2>1 DEF ScreenFields
  <2>4. menu' = menu /\ \A i : Live(i)' <=> Live(i)
    BY <1>3, TablesSame DEF tableVars
  <2>5. Live(screen[Top.p].id) => TextFits(menu'[screen'[Top.p].id], screen'[Top.p].text)
    BY <2>1, <2>3, <2>4 DEF LegendsFit
  <2>6. ScreensDrawn
    BY <2>3, <2>4, <2>5 DEF ScreensDrawn
  <2> QED
    BY <1>3, <2>2, <2>6, QuietKept
<1> QED
  BY <1>1, <1>2, <1>3

LEMMA GoOnDestroyingFits ==
  ASSUME IInv, IInv', LegendsFit, GoOnDestroying
  PROVE  LegendsFit'
<1>1. /\ frames # <<>> /\ Top.op = "destroy"
      /\ \/ Delete(Top.id)
         \/ \E q \in Players : Close(q, Instead(Callback([Top EXCEPT !.todo = @ \ {q}])))
  <2>1. frames # <<>> /\ Top.op = "destroy"
    BY DEF GoOnDestroying, Resumes
  <2>2. Viewers(Top) \subseteq Players
    BY <2>1, TopFacts DEF Viewers, FrameTyped
  <2> QED
    BY <2>1, <2>2 DEF GoOnDestroying
<1>2. CASE Delete(Top.id)
  <2>1. /\ menu' = [menu EXCEPT ![Top.id] = NoMenu] /\ frames' = Below
        /\ len' = len /\ screen' = screen /\ text' = text
    BY <1>2 DEF Delete
  <2>2. DOMAIN menu = Id
    BY DEF IInv, StateOK
  <2>3. \A i \in Id : menu'[i] = NoMenu \/ menu'[i] = menu[i]
    BY <2>1, <2>2
  <2>4. ASSUME NEW i \in Id, Live(i)'
        PROVE  Live(i) /\ menu'[i].obj = menu[i].obj /\ Extends(menu'[i], menu[i])
    <3>1. Live(i) /\ menu'[i] = menu[i]
      BY <2>1, <2>3, <2>4 DEF Live
    <3>2. Count(menu[i]) \in Nat
      BY <3>1, LiveIsPageMenu, CountTyped
    <3> QED
      BY <3>1, <3>2 DEF Extends
  <2>5. MenusExtend /\ TextsDrawn
    BY <2>1, <2>4, SameTextsDrawn DEF MenusExtend
  <2> QED
    BY <1>1, <2>1, <2>5, PopDrawn, SameScreensDrawn, LegendsKept
<1>3. ASSUME NEW q \in Players, Close(q, Instead(Callback([Top EXCEPT !.todo = @ \ {q}])))
      PROVE  LegendsFit'
  <2> DEFINE g == Callback([Top EXCEPT !.todo = @ \ {q}])
  <2>1. frames' = Instead(g)
    BY <1>3 DEF Close
  <2>2. g.op = "destroy"
    BY <1>1, TopFacts, LookedFacts
  <2> HIDE DEF g
  <2>3. FramesDrawn
    BY <1>1, <2>1, <2>2, OtherGood, SwapDrawn
  <2> QED
    BY <1>3, <2>3, CloseFits
<1> QED
  BY <1>1, <1>2, <1>3

LEMMA SelectLateFits ==
  ASSUME IInv, IInv', LegendsFit, NEW p, SelectLate(p)
  PROVE  LegendsFit'
<1>1. frames = <<>> /\ Close(p, <<LastCall>>) /\ frames' = <<LastCall>>
  BY DEF SelectLate, Quiet, Close
<1> QED
  BY <1>1, LastCallFacts, OtherGood, FirstDrawn, CloseFits

LEMMA SelectFits ==
  ASSUME IInv, IInv', LegendsFit, NEW p, NEW key, Select(p, key)
  PROVE  LegendsFit'
<1> DEFINE m == menu[screen[p].id]
           item == PagekeyToItem(m, screen[p].page, key)
           turn == Frame("turn", p, screen[p].id, m.obj, IF item = MENU_BACK THEN -1 ELSE 1)
<1>1. /\ frames = <<>> /\ UNCHANGED <<tableVars, text>>
      /\ screen' = [screen EXCEPT ![p] = Blank(screen[p].page)]
      /\ frames' \in {<<Callback(turn)>>, <<turn>>, <<LastCall>>}
  BY DEF Select, Quiet
<1>2. DOMAIN turn = FrameFields /\ turn.op = "turn"
  BY FrameFacts
<1> HIDE DEF turn
<1>3. Callback(turn).op = "turn"
  BY <1>2, CallbackLegend
<1>4. FramesDrawn
  BY <1>1, <1>2, <1>3, LastCallFacts, OtherGood, FirstDrawn
<1> QED
  BY <1>1, <1>4, BlankDrawn, QuietKept

LEMMA JoinFits ==
  ASSUME IInv, IInv', LegendsFit, NEW p, Join(p)
  PROVE  LegendsFit'
<1>1. /\ UNCHANGED <<tableVars, text>> /\ frames' = frames
      /\ screen' = [screen EXCEPT ![p] = Blank(screen[p].page)]
  BY DEF Join
<1> QED
  BY <1>1, SameFramesDrawn, BlankDrawn, QuietKept

LEMMA LeaveFits ==
  ASSUME IInv, IInv', LegendsFit, NEW p, Leave(p)
  PROVE  LegendsFit'
<1> DEFINE f == Frame("leave", p, -1, 0, 0)
<1>1. /\ UNCHANGED <<tableVars, text>> /\ frames = <<>>
      /\ screen' = [screen EXCEPT ![p] = Blank(screen[p].page)]
      /\ frames' = <<Callback(f)>> \/ frames' = frames
  BY DEF Leave, Quiet
<1>2. DOMAIN f = FrameFields /\ f.op = "leave"
  BY FrameFacts
<1> HIDE DEF f
<1>3. Callback(f).op = "leave"
  BY <1>2, CallbackLegend
<1>4. FramesDrawn
  BY <1>1, <1>3, OtherGood, FirstDrawn, SameFramesDrawn
<1> QED
  BY <1>1, <1>4, BlankDrawn, QuietKept

LEMMA LeftFits ==
  ASSUME IInv, IInv', LegendsFit, Left
  PROVE  LegendsFit'
<1>1. /\ frames # <<>> /\ UNCHANGED <<tableVars, text>> /\ frames' = Below
      /\ screen' = [screen EXCEPT ![Top.p] = Blank(screen[Top.p].page)]
  BY DEF Left, Resumes
<1> QED
  BY <1>1, PopDrawn, BlankDrawn, QuietKept

LEMMA Client_ShowMenuFits ==
  ASSUME IInv, IInv', LegendsFit, NEW p, Client_ShowMenu(p)
  PROVE  LegendsFit'
<1>1. /\ UNCHANGED <<tableVars, text>> /\ frames' = frames
      /\ screen' = [screen EXCEPT ![p] = Blank(screen[p].page)]
  BY DEF Client_ShowMenu
<1> QED
  BY <1>1, SameFramesDrawn, BlankDrawn, QuietKept

LEMMA NothingFits ==
  ASSUME frames = <<>>, text = [o \in Obj |-> {}], \A i : ~Live(i)
  PROVE  LegendsFit
<1>1. \A k \in 1 .. Len(frames) : FALSE
  BY OneFrame
<1> QED
  BY <1>1 DEF LegendsFit, TextOK

LEMMA ClearMenusFits ==
  ASSUME ClearMenus
  PROVE  LegendsFit'
<1>1. /\ len' = 0 /\ menu' = [i \in Id |-> NoMenu] /\ frames' = <<>>
      /\ text' = [o \in Obj |-> {}]
  BY DEF ClearMenus, Quiet
<1>2. \A i : ~Live(i)'
  BY <1>1 DEF Live
<1>3. \A k \in 1 .. Len(frames') : FALSE
  BY <1>1, OneFrame
<1> QED
  BY <1>1, <1>2, <1>3 DEF LegendsFit, TextOK

LEMMA LegendsStutter ==
  ASSUME IInv, IInv', LegendsFit, UNCHANGED vars
  PROVE  LegendsFit'
<1>1. UNCHANGED <<tableVars, text>> /\ screen' = screen /\ frames' = frames
  BY DEF vars
<1> QED
  BY <1>1, SameFramesDrawn, SameScreensDrawn, QuietKept

LEMMA LegendsNext == IInv /\ LegendsFit /\ [Next]_vars => LegendsFit'
<1> SUFFICES ASSUME IInv, LegendsFit, [Next]_vars PROVE LegendsFit'
  OBVIOUS
<1>0. IInv'
  BY NextInv
<1>1. CASE MenuCreate
  BY <1>0, <1>1, MenuCreateFits
<1>2. CASE \E id \in Id : MenuAddItem(id) \/ MenuDestroy(id)
  BY <1>0, <1>2, MenuAddItemFits, MenuDestroyFits
<1>3. CASE \E p \in Players : MenuCancel(p) \/ ShowMenu(p)
  BY <1>0, <1>3, MenuCancelFits, ShowMenuFits
<1>4. CASE \E p \in Players, id \in Id, pg \in 0 .. MaxItems - 1 : MenuDisplay(p, id, pg)
  BY <1>0, <1>4, MenuDisplayFits
<1>5. CASE Closed \/ Drawn \/ Left
  BY <1>0, <1>5, ClosedFits, DrawnKeepsFit, LeftFits
<1>6. CASE GoOnDisplaying \/ GoOnShowing \/ GoOnTurning
  BY <1>0, <1>6, GoOnDisplayingFits, GoOnShowingFits, GoOnTurningFits
<1>7. CASE GoOnDestroying
  BY <1>0, <1>7, GoOnDestroyingFits
<1>8. CASE \E p \in Players : SelectLate(p) \/ \E key \in 1 .. LastKey : Select(p, key)
  BY <1>0, <1>8, SelectLateFits, SelectFits
<1>9. CASE \E p \in Players : Join(p) \/ Leave(p) \/ Client_ShowMenu(p)
  BY <1>0, <1>9, JoinFits, LeaveFits, Client_ShowMenuFits
<1>10. CASE ClearMenus
  BY <1>10, ClearMenusFits
<1>11. CASE UNCHANGED vars
  BY <1>0, <1>11, LegendsStutter
<1> QED
  BY <1>1, <1>2, <1>3, <1>4, <1>5, <1>6, <1>7, <1>8, <1>9, <1>10, <1>11
     DEF Next, Native, GoOn, Client

-----------------------------------------------------------------------------
(* The theorems about pages *)

LEMMA FittingLegendsMean == IInv /\ LegendsFit => KeysKeepMeaning
<1> SUFFICES ASSUME IInv, LegendsFit, NEW p \in Players, Live(screen[p].id),
                    NEW l \in screen[p].text, l[1] = screen[p].page
             PROVE  PagekeyToItem(menu[screen[p].id], screen[p].page, l[2][1]) = l[2][2]
  BY DEF KeysKeepMeaning, Means
<1> DEFINE m == menu[screen[p].id]
<1>1. PageMenu(m) /\ Plain(m) /\ screen[p].page \in Nat /\ Fits(m, screen[p].page, l[2])
  BY LiveIsPageMenu DEF LegendsFit, TextFits
<1> HIDE DEF m
<1>2. PagekeyToItem(m, screen[p].page, l[2][1]) = l[2][2]
  BY <1>1, PlainIsNumberless, FitsMeans
<1> QED
  BY <1>2 DEF m

\* Both invariants together.
LEMMA TextInvariant == Spec => [](IInv /\ LegendsFit)
<1>1. Init => IInv /\ LegendsFit
  <2>1. Init => frames = <<>> /\ text = [o \in Obj |-> {}] /\ \A i : ~Live(i)
    BY EmptyTables DEF Init, NoMenus
  <2> QED
    BY <2>1, InitInv, NothingFits
<1>2. (IInv /\ LegendsFit) /\ [Next]_vars => (IInv /\ LegendsFit)'
  BY NextInv, LegendsNext
<1> QED
  BY <1>1, <1>2, PTL DEF Spec

\* An id on a screen is the id of a menu, and the ids on the free stack are those
\* of the empty slots, each there once: no menu is deleted twice or under a player.
THEOREM ScreensHaveMenus == Spec => []IdsDenote
<1>1. IInv /\ LegendsFit => IdsDenote
  BY DEF IInv, LegendsFit, IdsDenote, TypeOK, ScreensDenote
<1> QED
  BY <1>1, TextInvariant, PTL

\* What the page on a screen says a key selects is what it selects, whatever items
\* plugins and item callbacks have added to the menu since the line was written,
\* and whichever displays of the menu have written into its text.
THEOREM KeysMeanTheSame == Spec => []KeysKeepMeaning
BY FittingLegendsMean, TextInvariant, PTL

\* GetTextString and PagekeyToItem agree about every key of every orderly page of
\* any menu, with any items and blanks and up to seven items per page.
THEOREM PagesHonest ==
  \A m \in Records : \A page \in 0 .. PageCount(m) - 1 : Orderly(m, page) => Honest(m, page)
BY RecordIsPageMenu, OrderlyIsHonest

\* The menus with blanks that the runs look at among them.
THEOREM ShapesHonest == Spec => []PagesAreHonest
<1>1. PagesAreHonest
  BY ShapesAssumption, PagesHonest DEF PagesAreHonest
<1> QED
  BY <1>1, PTL

=============================================================================
