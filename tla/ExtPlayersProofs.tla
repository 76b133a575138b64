-------------------------- MODULE ExtPlayersProofs --------------------------
(***************************************************************************)
(* Proofs about ExtPlayers, for any finite set of slots, any threshold of  *)
(* the watchdog and any bound on the clock.                                *)
(***************************************************************************)
EXTENDS ExtPlayers, FiniteSetTheorems, TLAPS

Players == [init : BOOLEAN, ingame : BOOLEAN, auth : BOOLEAN]
Hearings == [connect : 0 .. 2, auth : 0 .. 2, put : 0 .. 2, old : BOOLEAN]
Cell == [p : Players, h : Hearings]

InGame == {s \in Slots : player[s].ingame}

Sane == mishaps \cap {"retry", "stale"} = {}

\* Between two maps nobody is in the game, and nothing was heard of anybody.
LoadsEmpty ==
  phase = "loading" => /\ num = 0
                       /\ \A s \in Slots : /\ ~player[s].ingame /\ eng[s] # "spawned"
                                           /\ Sane => heard[s] = Nothing

\* While a map runs the drop hook is on, and who is in the game has spawned.
RunsHooked ==
  phase = "running" => /\ dropHook
                       /\ \A s \in Slots : player[s].ingame => eng[s] # "loading"

\* Before the first map runs no bit of the mask is set.
MaskStartsEmpty == ~extInit \/ deferred => mask = {} /\ phase = "loading"

LifeSoFar ==
  /\ phase = "running" => life = [precache |-> 1, init |-> 1]
  /\ phase = "loading" => life = [precache |-> IF precached THEN 1 ELSE 0, init |-> 0]

\* latchedAt is out of date until the first frame after the flag was set, and at
\* most one second behind from then on.
WatchSound ==
  /\ phase = "ended" <=> shutting
  /\ shutting => flag
  /\ phase = "running" /\ ~flag /\ latchedAt # 0 => time <= latchedAt
  /\ phase = "running" /\ flag =>
       \/ (latchedAt = 0 \/ latchedAt > time) /\ setAt = time
       \/ /\ latchedAt # 0 /\ setAt <= latchedAt /\ latchedAt <= setAt + 1
          /\ latchedAt <= time /\ time - latchedAt < Stuck

\* A CPlayer and what was heard of its client tell the same story.
Agrees(c) ==
  /\ ~c.h.old
  /\ c.h.connect = (IF c.p.init THEN 1 ELSE 0)
  /\ c.h.auth = (IF c.p.auth THEN 1 ELSE 0)
  /\ c.h.put = 0 \/ (c.h.put = 1 /\ c.p.ingame)
  /\ c.p.ingame => c.p.auth
  /\ c.p.auth => c.p.init

StoriesAgree ==
  phase = "running" /\ Sane =>
    \A s \in Slots : /\ Agrees(At(s))
                     /\ s \in mask => player[s].ingame /\ heard[s].put = 0
                     /\ eng[s] \in {"free", "bot"} => ~player[s].init

IInv == /\ TypeOK /\ PlayersCounted /\ LoadsEmpty /\ RunsHooked /\ MaskStartsEmpty
        /\ LifeSoFar /\ WatchSound /\ StoriesAgree /\ NobodyForgotten

USE SlotsAssumption, StuckAssumption, TimeAssumption

-----------------------------------------------------------------------------
(* One slot *)

LEMMA AtIsCell == ASSUME TypeOK, NEW s \in Slots PROVE At(s) \in Cell
  BY DEF TypeOK, At, Cell, Players, Hearings

\* What each of the operators on a slot returns.
LEMMA CellOps ==
  ASSUME NEW c \in Cell
  PROVE  /\ Joined(c) \in Cell /\ Authorized(c) \in Cell /\ Left(c) \in Cell
         /\ InServer(c) \in Cell /\ Renewed(c) \in Cell
         /\ Notify(c) \in Cell /\ Retired(c) \in Cell /\ ClientConnected(c) \in Cell
<1>0. ASSUME NEW n \in 0 .. 2 PROVE More(n) \in 0 .. 2
  BY DEF More
<1>a. ASSUME NEW r \in Hearings, NEW n \in 0 .. 2
      PROVE  /\ [r EXCEPT !.connect = n] \in Hearings
             /\ [r EXCEPT !.auth = n] \in Hearings
  BY DEF Hearings
<1>b. ASSUME NEW r \in Players
      PROVE  /\ [r EXCEPT !.init = TRUE, !.auth = FALSE] \in Players
             /\ [r EXCEPT !.auth = TRUE] \in Players
  BY DEF Players
<1>c. ASSUME NEW d \in Cell
      PROVE  /\ d.p \in Players /\ d.h \in Hearings
             /\ More(d.h.connect) \in 0 .. 2 /\ More(d.h.auth) \in 0 .. 2
  <2>1. d.p \in Players /\ d.h \in Hearings
    BY DEF Cell
  <2>2. d.h.connect \in 0 .. 2 /\ d.h.auth \in 0 .. 2
    BY <2>1 DEF Hearings
  <2> QED
    BY <2>1, <2>2, <1>0
<1>1. ASSUME NEW d \in Cell PROVE Joined(d) \in Cell
  <2>1. /\ [d.p EXCEPT !.init = TRUE, !.auth = FALSE] \in Players
        /\ [d.h EXCEPT !.connect = More(d.h.connect)] \in Hearings
    BY <1>a, <1>b, <1>c
  <2> QED
    BY <2>1 DEF Joined, Cell
<1>2. ASSUME NEW d \in Cell PROVE Authorized(d) \in Cell
  <2>1. /\ [d.p EXCEPT !.auth = TRUE] \in Players
        /\ [d.h EXCEPT !.auth = More(d.h.auth)] \in Hearings
    BY <1>a, <1>b, <1>c
  <2> QED
    BY <2>1 DEF Authorized, Cell
<1>3. Left(c) \in Cell
  BY DEF Left, Nobody, Nothing, Cell, Players, Hearings
<1>4. InServer(c) \in Cell
  BY DEF InServer, Cell, Players, Hearings
<1>5. Renewed(c) \in Cell
  BY DEF Renewed, Cell, Players, Hearings
<1>6. Notify(c) \in Cell
  BY <1>1, <1>2 DEF Notify
<1>7. Retired(c) \in Cell
  BY <1>3 DEF Retired
<1>8. ClientConnected(c) \in Cell
  BY <1>1, <1>7 DEF ClientConnected
<1> QED
  BY <1>1, <1>2, <1>3, <1>4, <1>5, <1>6, <1>7, <1>8

LEMMA BecomesAt ==
  ASSUME TypeOK, NEW s \in Slots, NEW c \in Cell, Becomes(s, c)
  PROVE  /\ player' \in [Slots -> Players] /\ heard' \in [Slots -> Hearings]
         /\ At(s)' = c
         /\ \A t \in Slots \ {s} : player'[t] = player[t] /\ heard'[t] = heard[t]
<1>1. player \in [Slots -> Players] /\ heard \in [Slots -> Hearings]
  BY DEF TypeOK, Players, Hearings
<1>2. c.p \in Players /\ c.h \in Hearings /\ c = [p |-> c.p, h |-> c.h]
  BY DEF Cell
<1> QED
  BY <1>1, <1>2 DEF Becomes, At

\* The slot of a client that SV_ConnectClient has been through: whatever was in
\* it, nobody is in the game there.
Connected(s, notified) ==
  LET c == Renewed(At(s)) IN ClientConnected(IF notified THEN Notify(c) ELSE c)

LEMMA ConnectedCell ==
  ASSUME TypeOK, NEW s \in Slots, NEW notified \in BOOLEAN
  PROVE  /\ Connected(s, notified) \in Cell
         /\ ~Connected(s, notified).p.ingame
<1> DEFINE c == Renewed(At(s))
           d == IF notified THEN Notify(c) ELSE c
<1>1. c \in Cell /\ d \in Cell
  BY AtIsCell, CellOps
<1>2. Retired(d) \in Cell /\ ~Retired(d).p.ingame
  <2>1. Left(d).p.ingame = FALSE
    BY DEF Left, Nobody
  <2> QED
    BY <1>1, <2>1, CellOps DEF Retired
<1>3. ASSUME NEW e \in Cell PROVE Joined(e).p.ingame = e.p.ingame
  BY <1>3 DEF Joined, Cell, Players
<1>4. ClientConnected(d) \in Cell /\ ~ClientConnected(d).p.ingame
  BY <1>1, <1>2, <1>3, CellOps DEF ClientConnected
<1> QED
  BY <1>4 DEF Connected

\* The slot of a client that has spawned.
Entered(s) ==
  LET c == IF player[s].init THEN At(s) ELSE Joined(At(s))
  IN  IF c.p.ingame THEN c ELSE InServer(Authorized(c))

LEMMA EnteredCell ==
  ASSUME TypeOK, NEW s \in Slots
  PROVE  /\ Entered(s) \in Cell
         /\ Entered(s).p.ingame
         /\ (IF player[s].init THEN At(s) ELSE Joined(At(s))).p.ingame = player[s].ingame
         /\ Entered(s).h.put = heard[s].put
<1> DEFINE c == IF player[s].init THEN At(s) ELSE Joined(At(s))
<1>1. At(s) \in Cell /\ c \in Cell
  BY AtIsCell, CellOps
<1>2. c.p.ingame = player[s].ingame /\ c.h.put = heard[s].put
  BY <1>1 DEF Joined, At, Cell, Players, Hearings
<1>3. Authorized(c) \in Cell /\ Authorized(c).h.put = c.h.put
  BY <1>1, CellOps DEF Authorized, Cell, Players, Hearings
<1>4. /\ InServer(Authorized(c)) \in Cell
      /\ InServer(Authorized(c)).p.ingame
      /\ InServer(Authorized(c)).h = Authorized(c).h
  BY <1>3, CellOps DEF InServer, Cell, Players, Hearings
<1> QED
  BY <1>1, <1>2, <1>3, <1>4 DEF Entered

-----------------------------------------------------------------------------
(* Types and the count *)

LEMMA InitIInv == Init => IInv
<1> SUFFICES ASSUME Init PROVE IInv
  OBVIOUS
<1>1. /\ Nobody \in Players /\ ~Nobody.init /\ ~Nobody.ingame
      /\ Nothing \in Hearings
  BY DEF Nobody, Nothing, Players, Hearings
<1>2. player \in [Slots -> Players] /\ heard \in [Slots -> Hearings]
  BY <1>1 DEF Init
<1>3. TypeOK
  <2>1. /\ eng \in [Slots -> {"free", "loading", "spawned", "bot"}]
        /\ phase \in {"loading", "running", "ended"} /\ queued \in {"no", "fresh", "due"}
        /\ mask \in SUBSET Slots /\ mishaps \in SUBSET {"retry", "stale", "latched"}
    BY DEF Init
  <2>2. time \in 1 .. MaxTime /\ latchedAt \in 0 .. MaxTime /\ setAt \in 0 .. MaxTime /\ num \in Nat
    BY DEF Init
  <2>3. life \in [precache : 0 .. 2, init : 0 .. 2]
    BY DEF Init
  <2> QED
    BY <1>2, <2>1, <2>2, <2>3 DEF Init, TypeOK, Players, Hearings
<1>4. {s \in Slots : player[s].ingame} = {}
  BY <1>1 DEF Init
<1>5. PlayersCounted
  BY <1>4, FS_EmptySet DEF Init, PlayersCounted
<1>6. LoadsEmpty
  BY <1>1 DEF Init, LoadsEmpty
<1>7. RunsHooked /\ MaskStartsEmpty /\ LifeSoFar /\ WatchSound /\ StoriesAgree /\ NobodyForgotten
  BY DEF Init, RunsHooked, MaskStartsEmpty, LifeSoFar, WatchSound, StoriesAgree, NobodyForgotten
<1> QED
  BY <1>3, <1>5, <1>6, <1>7 DEF IInv

LEMMA PlayersTyped ==
  ASSUME TypeOK, Next
  PROVE  player' \in [Slots -> Players] /\ heard' \in [Slots -> Hearings]
<1>0. player \in [Slots -> Players] /\ heard \in [Slots -> Hearings]
  BY DEF TypeOK, Players, Hearings
<1>1. Nobody \in Players /\ Nothing \in Hearings
  BY DEF Nobody, Nothing, Players, Hearings
<1>2. CASE \E s \in Slots, notified \in BOOLEAN : ConnectClient(s, notified)
  <2>1. PICK s \in Slots, notified \in BOOLEAN : ConnectClient(s, notified)
    BY <1>2
  <2>2. Becomes(s, Connected(s, notified))
    BY <2>1 DEF ConnectClient, Connected
  <2> QED
    BY <2>2, BecomesAt, ConnectedCell
<1>3. CASE \E s \in Slots : Spawn(s)
  <2>1. PICK s \in Slots : Spawn(s)
    BY <1>3
  <2>2. UNCHANGED <<player, heard>> \/ Becomes(s, Entered(s))
    BY <2>1 DEF Spawn, Entered
  <2> QED
    BY <1>0, <2>2, BecomesAt, EnteredCell
<1>4. CASE \E s \in Slots : Drop(s)
  <2>1. PICK s \in Slots : Drop(s)
    BY <1>4
  <2>2. UNCHANGED <<player, heard>> \/ Becomes(s, Left(At(s)))
    BY <2>1 DEF Drop
  <2> QED
    BY <1>0, <2>2, BecomesAt, AtIsCell, CellOps
<1>5. CASE \E s \in Slots : AddBot(s)
  BY <1>0, <1>5 DEF AddBot, players, ghosts
<1>6. CASE \E dt \in {0, 1} : Frame(dt)
  <2>1. PICK dt \in {0, 1} : Frame(dt)
    BY <1>6
  <2>2. ASSUME NEW s \in Slots PROVE Announced(heard[s]) \in Hearings
    <3>1. heard[s] \in Hearings /\ heard[s].put \in 0 .. 2
      BY <1>0 DEF Hearings
    <3>2. More(heard[s].put) \in 0 .. 2
      BY <3>1 DEF More
    <3>3. ASSUME NEW r \in Hearings, NEW n \in 0 .. 2 PROVE [r EXCEPT !.put = n] \in Hearings
      BY DEF Hearings
    <3> QED
      BY <3>1, <3>2, <3>3 DEF Announced
  <2>3. \/ UNCHANGED heard
        \/ heard' = [s \in Slots |-> IF s \in Ready THEN Announced(heard[s]) ELSE heard[s]]
    BY <2>1 DEF Frame, HookedFrame
  <2>4. UNCHANGED player
    BY <2>1 DEF Frame
  <2> QED
    BY <1>0, <2>2, <2>3, <2>4
<1>7. CASE \E valid \in BOOLEAN : ChangeLevel(valid)
  BY <1>0, <1>7 DEF ChangeLevel, players
<1>8. CASE Inactivate
  BY <1>0, <1>1, <1>8 DEF Inactivate
<1>9. CASE Precache
  BY <1>0, <1>1, <1>9 DEF Precache, ResetPlayers
<1>10. CASE \E asks \in BOOLEAN : FirstActivate(asks) \/ Reload(asks)
  BY <1>0, <1>1, <1>10 DEF FirstActivate, Reload, ResetPlayers
<1>11. CASE Shutdown
  BY <1>0, <1>11 DEF Shutdown, players
<1> QED
  BY <1>2, <1>3, <1>4, <1>5, <1>6, <1>7, <1>8, <1>9, <1>10, <1>11 DEF Next

\* One slot is given another CPlayer.
LEMMA CountOne ==
  ASSUME TypeOK, PlayersCounted, NEW s \in Slots, NEW c \in Cell, Becomes(s, c),
         num' = (IF player[s].ingame THEN num - 1 ELSE num) + (IF c.p.ingame THEN 1 ELSE 0)
  PROVE  PlayersCounted'
<1>1. /\ player'[s].ingame = c.p.ingame
      /\ \A t \in Slots \ {s} : player'[t].ingame = player[t].ingame
  BY BecomesAt DEF At
<1>2. IsFiniteSet(InGame) /\ InGame' \in SUBSET Slots /\ IsFiniteSet(InGame \ {s})
  BY FS_Subset DEF InGame
<1>3. s \notin InGame \ {s}
  OBVIOUS
<1>4. /\ InGame = (IF player[s].ingame THEN (InGame \ {s}) \cup {s} ELSE InGame \ {s})
      /\ InGame' = (IF c.p.ingame THEN (InGame \ {s}) \cup {s} ELSE InGame \ {s})
  BY <1>1 DEF InGame
<1>5. /\ Cardinality(InGame \ {s}) \in Nat
      /\ Cardinality((InGame \ {s}) \cup {s}) = Cardinality(InGame \ {s}) + 1
  BY <1>2, <1>3, FS_AddElement, FS_CardinalityType
<1>6. num = Cardinality(InGame)
  BY DEF PlayersCounted, InGame
<1>7. Cardinality(InGame) = Cardinality(InGame \ {s}) + (IF player[s].ingame THEN 1 ELSE 0)
  BY <1>4, <1>5
<1>8. Cardinality(InGame') = Cardinality(InGame \ {s}) + (IF c.p.ingame THEN 1 ELSE 0)
  BY <1>4, <1>5
<1>9. num' = Cardinality(InGame')
  BY <1>5, <1>6, <1>7, <1>8
<1> QED
  BY <1>9 DEF PlayersCounted, InGame

LEMMA CountStep ==
  ASSUME IInv, Next
  PROVE  PlayersCounted'
<1> USE DEF IInv
<1>1. ~Nobody.ingame
  BY DEF Nobody
<1>u. ASSUME UNCHANGED <<player, num>> PROVE PlayersCounted'
  BY <1>u DEF PlayersCounted
<1>e. ASSUME num' = 0, \A s \in Slots : ~player'[s].ingame PROVE PlayersCounted'
  <2>1. {s \in Slots : player'[s].ingame} = {}
    BY <1>e
  <2> QED
    BY <1>e, <2>1, FS_EmptySet DEF PlayersCounted
<1>2. CASE \E s \in Slots, notified \in BOOLEAN : ConnectClient(s, notified)
  <2>1. PICK s \in Slots, notified \in BOOLEAN : ConnectClient(s, notified)
    BY <1>2
  <2>2. Becomes(s, Connected(s, notified))
    BY <2>1 DEF ConnectClient, Connected
  <2>3. Renewed(At(s)).p.ingame = player[s].ingame
    BY AtIsCell DEF Renewed, At, Cell, Players, Hearings
  <2>4. num' = IF player[s].ingame THEN num - 1 ELSE num
    BY <2>1, <2>3 DEF ConnectClient
  <2>5. num \in Nat
    BY DEF TypeOK
  <2> QED
    BY <2>2, <2>4, <2>5, CountOne, ConnectedCell
<1>3. CASE \E s \in Slots : Spawn(s)
  <2>1. PICK s \in Slots : Spawn(s)
    BY <1>3
  <2>2. CASE flag
    BY <1>u, <2>1, <2>2 DEF Spawn
  <2>3. CASE ~flag
    <3>1. Becomes(s, Entered(s))
      BY <2>1, <2>3 DEF Spawn, Entered
    <3>2. num' = IF player[s].ingame THEN num ELSE num + 1
      BY <2>1, <2>3, EnteredCell DEF Spawn
    <3>3. num \in Nat
      BY DEF TypeOK
    <3> QED
      BY <3>1, <3>2, <3>3, CountOne, EnteredCell
  <2> QED
    BY <2>2, <2>3
<1>4. CASE \E s \in Slots : Drop(s)
  <2>1. PICK s \in Slots : Drop(s)
    BY <1>4
  <2>2. CASE ~dropHook
    BY <1>u, <2>1, <2>2 DEF Drop
  <2>3. CASE dropHook
    <3>1. Becomes(s, Left(At(s))) /\ num' = IF player[s].ingame THEN num - 1 ELSE num
      BY <2>1, <2>3 DEF Drop
    <3>2. Left(At(s)) \in Cell /\ ~Left(At(s)).p.ingame
      BY <1>1, AtIsCell, CellOps DEF Left
    <3>3. num \in Nat
      BY DEF TypeOK
    <3> QED
      BY <3>1, <3>2, <3>3, CountOne
  <2> QED
    BY <2>2, <2>3
<1>5. CASE \E s \in Slots : AddBot(s)
  BY <1>u, <1>5 DEF AddBot, players
<1>6. CASE \E dt \in {0, 1} : Frame(dt)
  BY <1>u, <1>6 DEF Frame
<1>7. CASE \E valid \in BOOLEAN : ChangeLevel(valid)
  BY <1>u, <1>7 DEF ChangeLevel, players
<1>8. CASE Inactivate
  <2>1. \A s \in Slots : ~player'[s].ingame
    BY <1>1, <1>8 DEF Inactivate
  <2> QED
    BY <1>e, <1>8, <2>1 DEF Inactivate
<1>9. CASE Precache
  BY <1>1, <1>u, <1>e, <1>9 DEF Precache, ResetPlayers
<1>10. CASE \E asks \in BOOLEAN : FirstActivate(asks)
  BY <1>1, <1>e, <1>10 DEF FirstActivate, ResetPlayers
<1>11. CASE \E asks \in BOOLEAN : Reload(asks)
  <2>1. phase = "loading" /\ UNCHANGED num /\ \A s \in Slots : ~player'[s].ingame
    BY <1>1, <1>11 DEF Reload, Started, ResetPlayers
  <2> QED
    BY <1>e, <2>1 DEF LoadsEmpty
<1>12. CASE Shutdown
  BY <1>u, <1>12 DEF Shutdown, players
<1> QED
  BY <1>2, <1>3, <1>4, <1>5, <1>6, <1>7, <1>8, <1>9, <1>10, <1>11, <1>12 DEF Next

LEMMA TimesTyped ==
  ASSUME TypeOK, Next
  PROVE  time' \in 1 .. MaxTime /\ latchedAt' \in 0 .. MaxTime /\ setAt' \in 0 .. MaxTime
<1>0. /\ time \in 1 .. MaxTime /\ latchedAt \in 0 .. MaxTime /\ setAt \in 0 .. MaxTime
      /\ flag \in BOOLEAN /\ shutting \in BOOLEAN
  BY DEF TypeOK
<1>1. CASE \E dt \in {0, 1} : Frame(dt)
  <2>1. PICK dt \in {0, 1} : Frame(dt)
    BY <1>1
  <2>2. time' \in 1 .. MaxTime
    BY <1>0, <2>1 DEF Frame
  <2>3. latchedAt' \in {0, time', latchedAt}
    <3>1. flag => latchedAt' \in {0, time', latchedAt}
      BY <2>1 DEF Frame, HookedFrame, Watchdog
    <3>2. ~flag => latchedAt' = 0
      BY <2>1 DEF Frame, HookedFrame
    <3> QED
      BY <3>1, <3>2
  <2>4. setAt' \in {0, setAt}
    BY <2>1 DEF Frame
  <2> QED
    BY <1>0, <2>2, <2>3, <2>4
<1>2. CASE \E valid \in BOOLEAN : ChangeLevel(valid)
  BY <1>0, <1>2 DEF ChangeLevel
<1>3. CASE \E asks \in BOOLEAN : FirstActivate(asks) \/ Reload(asks)
  <2>1. time' = 1 /\ setAt' = 0 /\ UNCHANGED latchedAt
    BY <1>3 DEF FirstActivate, Reload, Started
  <2> QED
    BY <1>0, <2>1
<1>4. CASE Shutdown
  BY <1>0, <1>4 DEF Shutdown
<1>5. CASE UNCHANGED <<time, latchedAt, setAt>>
  BY <1>0, <1>5
<1>6. CASE \E s \in Slots : \/ \E notified \in BOOLEAN : ConnectClient(s, notified)
                            \/ Spawn(s) \/ Drop(s) \/ AddBot(s)
  BY <1>5, <1>6 DEF ConnectClient, Spawn, Drop, AddBot, watch, ghosts
<1>7. CASE Inactivate \/ Precache
  BY <1>5, <1>7 DEF Inactivate, Precache, engine, watch
<1> QED
  BY <1>1, <1>2, <1>3, <1>4, <1>6, <1>7 DEF Next

LEMMA LifeTyped ==
  ASSUME IInv, Next
  PROVE  life' \in [precache : 0 .. 2, init : 0 .. 2]
<1>0. life \in [precache : 0 .. 2, init : 0 .. 2]
  BY DEF IInv, TypeOK
<1>1. ASSUME NEW n \in 0 .. 2 PROVE More(n) \in 0 .. 2
  BY DEF More
<1>2. /\ [life EXCEPT !.precache = More(@)] \in [precache : 0 .. 2, init : 0 .. 2]
      /\ [life EXCEPT !.init = More(@)] \in [precache : 0 .. 2, init : 0 .. 2]
  BY <1>0, <1>1
<1>3. CASE UNCHANGED life
  BY <1>0, <1>3
<1>4. CASE \E s \in Slots : \/ \E notified \in BOOLEAN : ConnectClient(s, notified)
                            \/ Spawn(s) \/ Drop(s) \/ AddBot(s)
  BY <1>3, <1>4 DEF ConnectClient, Spawn, Drop, AddBot, ghosts
<1>5. CASE (\E dt \in {0, 1} : Frame(dt)) \/ (\E valid \in BOOLEAN : ChangeLevel(valid)) \/ Shutdown
  BY <1>3, <1>5 DEF Frame, ChangeLevel, Shutdown
<1>6. CASE Inactivate
  BY <1>6 DEF Inactivate
<1>7. CASE Precache
  BY <1>2, <1>7 DEF Precache
<1>8. CASE \E asks \in BOOLEAN : FirstActivate(asks)
  BY <1>0, <1>1, <1>8 DEF FirstActivate
<1>9. CASE \E asks \in BOOLEAN : Reload(asks)
  BY <1>2, <1>9 DEF Reload
<1> QED
  BY <1>4, <1>5, <1>6, <1>7, <1>8, <1>9 DEF Next

LEMMA TypeStep ==
  ASSUME IInv, Next
  PROVE  TypeOK'
<1> USE DEF IInv
<1>0. /\ phase \in {"loading", "running", "ended"} /\ queued \in {"no", "fresh", "due"}
      /\ burned \in BOOLEAN /\ extInit \in BOOLEAN /\ deferred \in BOOLEAN /\ precached \in BOOLEAN
      /\ flag \in BOOLEAN /\ shutting \in BOOLEAN /\ dropHook \in BOOLEAN
      /\ mask \in SUBSET Slots /\ mishaps \in SUBSET {"retry", "stale", "latched"}
      /\ eng \in [Slots -> {"free", "loading", "spawned", "bot"}]
  BY DEF TypeOK
<1>1. num' \in Nat
  <2>1. PlayersCounted'
    BY CountStep
  <2>2. IsFiniteSet({s \in Slots : player'[s].ingame})
    BY FS_Subset
  <2> QED
    BY <2>1, <2>2, FS_CardinalityType DEF PlayersCounted
<1>2. eng' \in [Slots -> {"free", "loading", "spawned", "bot"}]
  BY <1>0 DEF Next, ConnectClient, Spawn, Drop, AddBot, Frame, ChangeLevel, Inactivate, Precache,
              FirstActivate, Reload, Started, Shutdown, engine
<1>3. /\ phase' \in {"loading", "running", "ended"} /\ queued' \in {"no", "fresh", "due"}
      /\ burned' \in BOOLEAN
  BY <1>0 DEF Next, ConnectClient, Spawn, Drop, AddBot, Frame, ChangeLevel, Inactivate, Precache,
              FirstActivate, Reload, Started, Shutdown, engine
<1>4. extInit' \in BOOLEAN /\ deferred' \in BOOLEAN /\ precached' \in BOOLEAN
  BY <1>0 DEF Next, ConnectClient, Spawn, Drop, AddBot, Frame, ChangeLevel, Inactivate, Precache,
              FirstActivate, Reload, Started, Shutdown, startup
<1>5. flag' \in BOOLEAN /\ shutting' \in BOOLEAN /\ dropHook' \in BOOLEAN
  BY <1>0 DEF Next, ConnectClient, Spawn, Drop, AddBot, Frame, HookedFrame, Watchdog, ChangeLevel,
              Inactivate, Precache, FirstActivate, Reload, Started, ResetPlayers, Shutdown, watch, players
<1>6. mask' \in SUBSET Slots
  BY <1>0 DEF Next, ConnectClient, Spawn, Drop, AddBot, Frame, HookedFrame, ChangeLevel,
              Inactivate, Precache, FirstActivate, Reload, Shutdown, players
<1>7. mishaps' \in SUBSET {"retry", "stale", "latched"}
  BY <1>0 DEF Next, ConnectClient, Spawn, Drop, AddBot, Frame, ChangeLevel,
              Inactivate, Precache, FirstActivate, Reload, Started, Shutdown, ghosts
<1> QED
  BY <1>1, <1>2, <1>3, <1>4, <1>5, <1>6, <1>7, PlayersTyped, TimesTyped, LifeTyped
  DEF TypeOK, Players, Hearings

-----------------------------------------------------------------------------
(* Maps, the flag and the mask *)

LEMMA LifeStep ==
  ASSUME IInv, Next
  PROVE  LifeSoFar'
<1> USE DEF IInv, LifeSoFar
<1>0. phase \in {"loading", "running", "ended"} /\ precached \in BOOLEAN
  BY DEF TypeOK
<1>1. CASE UNCHANGED <<phase, precached, life>>
  BY <1>1
<1>2. CASE \E s \in Slots : \/ \E notified \in BOOLEAN : ConnectClient(s, notified)
                            \/ Spawn(s) \/ Drop(s) \/ AddBot(s)
  BY <1>1, <1>2 DEF ConnectClient, Spawn, Drop, AddBot, startup, ghosts
<1>3. CASE (\E dt \in {0, 1} : Frame(dt)) \/ (\E valid \in BOOLEAN : ChangeLevel(valid))
  BY <1>1, <1>3 DEF Frame, ChangeLevel, startup
<1>4. CASE Inactivate
  BY <1>4 DEF Inactivate
<1>5. CASE Precache
  BY <1>5 DEF Precache, More, engine
<1>6. CASE \E asks \in BOOLEAN : FirstActivate(asks)
  BY <1>0, <1>6 DEF FirstActivate, Started, More
<1>7. CASE \E asks \in BOOLEAN : Reload(asks)
  BY <1>7 DEF Reload, Started, More
<1>8. CASE Shutdown
  BY <1>8 DEF Shutdown
<1> QED
  BY <1>2, <1>3, <1>4, <1>5, <1>6, <1>7, <1>8 DEF Next

LEMMA MaskStep ==
  ASSUME IInv, Next
  PROVE  MaskStartsEmpty'
<1> USE DEF IInv, MaskStartsEmpty
<1>1. CASE UNCHANGED <<extInit, deferred, phase, mask>>
  BY <1>1
<1>2. CASE \E s \in Slots : \/ \E notified \in BOOLEAN : ConnectClient(s, notified)
                            \/ Spawn(s) \/ Drop(s) \/ AddBot(s)
  BY <1>2 DEF ConnectClient, Spawn, Drop, AddBot, startup, players
<1>3. CASE \E dt \in {0, 1} : Frame(dt)
  BY <1>3 DEF Frame, startup
<1>4. CASE (\E valid \in BOOLEAN : ChangeLevel(valid)) \/ Shutdown
  BY <1>4 DEF ChangeLevel, Shutdown, startup, players
<1>5. CASE Inactivate
  BY <1>5 DEF Inactivate
<1>6. CASE Precache
  BY <1>6 DEF Precache, engine
<1>7. CASE \E asks \in BOOLEAN : FirstActivate(asks) \/ Reload(asks)
  BY <1>7 DEF FirstActivate, Reload, Started
<1> QED
  BY <1>2, <1>3, <1>4, <1>5, <1>6, <1>7 DEF Next

\* Frame and the flag, the arithmetic of Watchdog aside.
LEMMA FrameWatch ==
  ASSUME IInv, NEW dt \in {0, 1}, Frame(dt), flag
  PROVE  /\ time' = time + dt
         /\ shutting => flag'
         /\ ~shutting /\ (latchedAt = 0 \/ time' < latchedAt) => flag' /\ latchedAt' = time'
         /\ ~shutting /\ latchedAt # 0 /\ ~(time' < latchedAt) =>
              \/ time' - latchedAt >= Stuck /\ ~flag' /\ latchedAt' = 0
              \/ ~(time' - latchedAt >= Stuck) /\ flag' /\ latchedAt' = latchedAt
<1> DEFINE fresh == latchedAt = 0 \/ time' < latchedAt
           over == ~fresh /\ time' - latchedAt >= Stuck
<1>1. time' = time + dt /\ Watchdog(time')
  BY DEF Frame, HookedFrame
<1>2. /\ flag' = (shutting \/ ~over)
      /\ latchedAt' = CASE shutting \/ over -> 0
                        [] fresh /\ ~shutting -> time'
                        [] OTHER -> latchedAt
  BY <1>1 DEF Watchdog
<1>3. flag' <=> (shutting \/ ~over)
  BY <1>2
<1>4. /\ ~shutting /\ over => latchedAt' = 0
      /\ ~shutting /\ fresh => latchedAt' = time'
      /\ ~shutting /\ ~over /\ ~fresh => latchedAt' = latchedAt
  <2> HIDE DEF fresh
  <2>1. fresh => ~over
    OBVIOUS
  <2> HIDE DEF over
  <2> QED
    BY <1>2, <2>1
<1> QED
  BY <1>1, <1>3, <1>4

LEMMA WatchStep ==
  ASSUME IInv, Next
  PROVE  WatchSound'
<1> USE DEF IInv, WatchSound
<1>0. /\ time \in Nat /\ latchedAt \in Nat /\ setAt \in Nat /\ time >= 1
      /\ flag \in BOOLEAN /\ shutting \in BOOLEAN
      /\ phase \in {"loading", "running", "ended"}
  BY DEF TypeOK
<1>1. CASE UNCHANGED <<phase, time, watch, setAt>>
  BY <1>1 DEF watch
<1>2. CASE \E s \in Slots : \/ \E notified \in BOOLEAN : ConnectClient(s, notified)
                            \/ Spawn(s) \/ Drop(s) \/ AddBot(s)
  BY <1>1, <1>2 DEF ConnectClient, Spawn, Drop, AddBot, ghosts
<1>3. CASE \E dt \in {0, 1} : Frame(dt)
  <2>1. PICK dt \in {0, 1} : Frame(dt)
    BY <1>3
  <2>2. /\ UNCHANGED <<phase, shutting>> /\ phase \in {"running", "ended"}
        /\ setAt' = IF flag' THEN setAt ELSE 0
    BY <2>1 DEF Frame
  <2>3. CASE ~flag
    <3>1. flag' = FALSE /\ latchedAt' = 0
      BY <2>1, <2>3 DEF Frame, HookedFrame
    <3> QED
      BY <2>2, <2>3, <3>1
  <2>4. CASE flag
    <3>1. CASE phase = "ended"
      BY <2>1, <2>2, <2>4, <3>1, FrameWatch
    <3>2. CASE phase = "running"
      <4>1. ~shutting
        BY <3>2
      <4> QED
        BY <1>0, <2>1, <2>2, <2>4, <3>2, <4>1, FrameWatch
    <3> QED
      BY <2>2, <3>1, <3>2
  <2> QED
    BY <1>0, <2>3, <2>4
<1>4. CASE \E valid \in BOOLEAN : ChangeLevel(valid)
  <2>1. PICK valid \in BOOLEAN : ChangeLevel(valid)
    BY <1>4
  <2>2. /\ UNCHANGED <<phase, time, shutting, latchedAt>> /\ phase = "running"
        /\ flag' = (flag \/ valid) /\ setAt' = IF ~flag /\ valid THEN time ELSE setAt
    BY <2>1 DEF ChangeLevel
  <2> QED
    BY <1>0, <2>2
<1>5. CASE Inactivate
  BY <1>5 DEF Inactivate
<1>6. CASE Precache
  BY <1>1, <1>6 DEF Precache, engine
<1>7. CASE \E asks \in BOOLEAN : FirstActivate(asks) \/ Reload(asks)
  <2>1. /\ phase = "loading" /\ phase' = "running" /\ time' = 1 /\ flag' = FALSE
        /\ UNCHANGED <<shutting, latchedAt>>
    BY <1>7 DEF FirstActivate, Reload, Started
  <2> QED
    BY <1>0, <2>1
<1>8. CASE Shutdown
  BY <1>8 DEF Shutdown
<1> QED
  BY <1>2, <1>3, <1>4, <1>5, <1>6, <1>7, <1>8 DEF Next

-----------------------------------------------------------------------------
(* Who is in the game *)

\* The slots that a hook for slot s leaves alone.
LEMMA OthersKept ==
  ASSUME TypeOK, NEW s \in Slots, NEW c \in Cell, Becomes(s, c), NEW t \in Slots, t # s
  PROVE  At(t)' = At(t) /\ player'[t] = player[t] /\ heard'[t] = heard[t]
  BY BecomesAt DEF At

LEMMA HookedStep ==
  ASSUME IInv, Next
  PROVE  RunsHooked'
<1> USE DEF IInv, RunsHooked
<1>0. eng \in [Slots -> {"free", "loading", "spawned", "bot"}]
  BY DEF TypeOK
<1>1. CASE UNCHANGED <<phase, dropHook, player, eng>>
  BY <1>1
<1>2. CASE \E s \in Slots, notified \in BOOLEAN : ConnectClient(s, notified)
  <2>1. PICK s \in Slots, notified \in BOOLEAN : ConnectClient(s, notified)
    BY <1>2
  <2>2. /\ Becomes(s, Connected(s, notified)) /\ phase = "running"
        /\ eng' = [eng EXCEPT ![s] = "loading"] /\ UNCHANGED <<phase, dropHook>>
    BY <2>1 DEF ConnectClient, Connected
  <2>3. ~player'[s].ingame
    BY <2>2, BecomesAt, ConnectedCell DEF At
  <2>4. \A t \in Slots \ {s} : player'[t] = player[t]
    BY <2>2, BecomesAt, ConnectedCell
  <2> QED
    BY <1>0, <2>2, <2>3, <2>4
<1>3. CASE \E s \in Slots : Spawn(s)
  <2>1. PICK s \in Slots : Spawn(s)
    BY <1>3
  <2>2. /\ UNCHANGED <<player, heard>> \/ Becomes(s, Entered(s))
        /\ eng' = [eng EXCEPT ![s] = "spawned"] /\ phase = "running" /\ UNCHANGED <<phase, dropHook>>
    BY <2>1 DEF Spawn, Entered
  <2>3. \A t \in Slots \ {s} : player'[t] = player[t]
    BY <2>2, BecomesAt, EnteredCell
  <2> QED
    BY <1>0, <2>2, <2>3
<1>4. CASE \E s \in Slots : Drop(s)
  <2>1. PICK s \in Slots : Drop(s)
    BY <1>4
  <2>2. /\ UNCHANGED <<player, heard>> \/ Becomes(s, Left(At(s)))
        /\ eng' = [eng EXCEPT ![s] = "free"] /\ phase = "running" /\ UNCHANGED <<phase, dropHook>>
    BY <2>1 DEF Drop
  <2>3. \A t \in Slots \ {s} : player'[t] = player[t]
    BY <2>2, BecomesAt, AtIsCell, CellOps
  <2> QED
    BY <1>0, <2>2, <2>3
<1>5. CASE \E s \in Slots : AddBot(s)
  BY <1>0, <1>5 DEF AddBot, players
<1>6. CASE (\E dt \in {0, 1} : Frame(dt)) \/ (\E valid \in BOOLEAN : ChangeLevel(valid))
  BY <1>1, <1>6 DEF Frame, ChangeLevel, players
<1>7. CASE Inactivate \/ Shutdown
  BY <1>7 DEF Inactivate, Shutdown
<1>8. CASE Precache
  BY <1>8 DEF Precache, engine
<1>9. CASE \E asks \in BOOLEAN : FirstActivate(asks) \/ Reload(asks)
  BY <1>9 DEF FirstActivate, Reload, ResetPlayers, Nobody
<1> QED
  BY <1>2, <1>3, <1>4, <1>5, <1>6, <1>7, <1>8, <1>9 DEF Next

\* Of somebody who is not connected plugins have heard nothing.
LEMMA UnheardIsNothing ==
  ASSUME NEW c \in Cell, Agrees(c), ~c.p.init
  PROVE  c.h = Nothing
<1>1. c.h \in Hearings
  BY DEF Cell
<1>2. c.h.connect = 0 /\ c.h.auth = 0 /\ c.h.put = 0 /\ c.h.old = FALSE
  <2>1. ~c.p.auth /\ ~c.p.ingame
    BY DEF Agrees
  <2>2. c.h.connect = 0 /\ c.h.auth = 0 /\ c.h.put = 0
    BY <2>1 DEF Agrees
  <2>3. c.h.old = FALSE
    BY <1>1 DEF Agrees, Hearings
  <2> QED
    BY <2>2, <2>3
<1> QED
  BY <1>1, <1>2 DEF Nothing, Hearings

LEMMA LoadsStep ==
  ASSUME IInv, Next
  PROVE  LoadsEmpty'
<1> USE DEF IInv, LoadsEmpty
<1>0. /\ eng \in [Slots -> {"free", "loading", "spawned", "bot"}]
      /\ player \in [Slots -> Players] /\ heard \in [Slots -> Hearings]
  BY DEF TypeOK, Players, Hearings
<1>1. CASE phase' # "loading"
  BY <1>1
<1>2. CASE Inactivate
  <2>1. \A s \in Slots : ~player'[s].ingame
    BY <1>0, <1>2 DEF Inactivate, Nobody
  <2>2. \A s \in Slots : eng'[s] # "spawned"
    BY <1>0, <1>2 DEF Inactivate
  <2>3. ASSUME Sane', NEW s \in Slots PROVE heard'[s] = Nothing
    <3>1. Agrees(At(s)) /\ At(s) \in Cell
      BY <1>2, <2>3, AtIsCell DEF Inactivate, Sane, StoriesAgree
    <3>2. ~player[s].init => heard[s] = Nothing
      BY <3>1, UnheardIsNothing DEF At
    <3> QED
      BY <1>2, <3>2 DEF Inactivate
  <2> QED
    BY <1>2, <2>1, <2>2, <2>3 DEF Inactivate
<1>3. CASE Precache
  BY <1>3 DEF Precache, ResetPlayers, Nobody, engine, Sane
<1>4. CASE \E s \in Slots : \/ \E notified \in BOOLEAN : ConnectClient(s, notified)
                            \/ Spawn(s) \/ Drop(s) \/ AddBot(s)
  BY <1>1, <1>4 DEF ConnectClient, Spawn, Drop, AddBot
<1>5. CASE (\E dt \in {0, 1} : Frame(dt)) \/ (\E valid \in BOOLEAN : ChangeLevel(valid)) \/ Shutdown
  BY <1>1, <1>5 DEF Frame, ChangeLevel, Shutdown
<1>6. CASE \E asks \in BOOLEAN : FirstActivate(asks) \/ Reload(asks)
  BY <1>1, <1>6 DEF FirstActivate, Reload, Started
<1> QED
  BY <1>2, <1>3, <1>4, <1>5, <1>6 DEF Next

-----------------------------------------------------------------------------
(* What plugins hear *)

\* client_connect and client_authorized are told of a client that was unknown.
LEMMA JoinedFields ==
  ASSUME NEW c \in Cell, Agrees(c), ~c.p.init
  PROVE  /\ Joined(c) \in Cell /\ Agrees(Joined(c))
         /\ Joined(c).p.init /\ ~Joined(c).p.auth /\ ~Joined(c).p.ingame
<1>1. c.h = Nothing /\ ~c.p.ingame
  BY UnheardIsNothing DEF Agrees
<1>2. Joined(c) \in Cell
  BY CellOps
<1>3. /\ Joined(c).p.init /\ ~Joined(c).p.auth
      /\ Joined(c).p.ingame = c.p.ingame
  BY DEF Joined, Cell, Players
<1>4. Joined(c).h = [Nothing EXCEPT !.connect = 1]
  BY <1>1 DEF Joined, Nothing, More
<1>5. /\ Joined(c).h.connect = 1 /\ Joined(c).h.auth = 0 /\ Joined(c).h.put = 0
      /\ ~Joined(c).h.old
  BY <1>4 DEF Nothing
<1> QED
  BY <1>1, <1>2, <1>3, <1>5 DEF Agrees

LEMMA AuthorizedFields ==
  ASSUME NEW c \in Cell, Agrees(c), c.p.init
  PROVE  /\ Authorized(c) \in Cell /\ Agrees(Authorized(c))
         /\ Authorized(c).p.init /\ Authorized(c).p.auth
         /\ Authorized(c).p.ingame = c.p.ingame
<1>1. CASE c.p.auth
  BY <1>1 DEF Authorized
<1>2. CASE ~c.p.auth
  <2>1. c.p \in Players /\ c.h \in Hearings /\ c.h.auth = 0
    BY <1>2 DEF Cell, Agrees
  <2>2. /\ Authorized(c).p = [c.p EXCEPT !.auth = TRUE]
        /\ Authorized(c).h = [c.h EXCEPT !.auth = 1]
    BY <1>2, <2>1 DEF Authorized, More
  <2>3. /\ Authorized(c).p.init = c.p.init /\ Authorized(c).p.auth
        /\ Authorized(c).p.ingame = c.p.ingame
    BY <2>1, <2>2 DEF Players
  <2>4. /\ Authorized(c).h.auth = 1 /\ Authorized(c).h.connect = c.h.connect
        /\ Authorized(c).h.put = c.h.put /\ Authorized(c).h.old = c.h.old
    BY <2>1, <2>2 DEF Hearings
  <2> QED
    BY <2>3, <2>4, CellOps DEF Agrees
<1> QED
  BY <1>1, <1>2

LEMMA InServerFields ==
  ASSUME NEW c \in Cell, Agrees(c), c.p.auth
  PROVE  InServer(c) \in Cell /\ Agrees(InServer(c))
<1>1. /\ InServer(c).p.init = c.p.init /\ InServer(c).p.auth = c.p.auth
      /\ InServer(c).p.ingame /\ InServer(c).h = c.h
  BY DEF InServer, Cell, Players
<1> QED
  BY <1>1, CellOps DEF Agrees

LEMMA LeftFields ==
  ASSUME NEW c \in Cell, Agrees(c)
  PROVE  /\ Left(c) \in Cell /\ Agrees(Left(c)) /\ ~Left(c).p.init
<1>1. Left(c).p = Nobody /\ Left(c).h = Nothing
  BY UnheardIsNothing DEF Left
<1> QED
  BY <1>1, CellOps DEF Agrees, Nobody, Nothing

\* A client that connects: the old story is over, the new one has begun.
LEMMA ConnectedAgrees ==
  ASSUME TypeOK, NEW s \in Slots, NEW notified \in BOOLEAN,
         Agrees(At(s)), player[s].init => player[s].ingame
  PROVE  Agrees(Connected(s, notified))
<1> DEFINE c == Renewed(At(s))
           d == IF notified THEN Notify(c) ELSE c
<1>0. /\ At(s) \in Cell /\ c \in Cell /\ d \in Cell
      /\ At(s).p = player[s] /\ c.p = player[s]
  BY AtIsCell, CellOps DEF Renewed, At
<1>1. CASE player[s].ingame
  <2>1. c.p.ingame /\ c.p.auth /\ c.p.init
    BY <1>0, <1>1 DEF Agrees
  <2>2. Notify(c) = c
    BY <2>1 DEF Notify, Authorized
  <2>3. Retired(d).p = Nobody /\ Retired(d).h = Nothing /\ Retired(d) \in Cell
    BY <1>0, <2>1, <2>2, CellOps DEF Retired, Left
  <2>4. Agrees(Retired(d)) /\ ~Retired(d).p.init
    BY <2>3 DEF Agrees, Nobody, Nothing
  <2> QED
    BY <2>3, <2>4, JoinedFields DEF Connected, ClientConnected
<1>2. CASE ~player[s].ingame
  <2>1. ~c.p.init /\ ~c.p.ingame
    BY <1>0, <1>2
  <2>2. At(s).h = Nothing
    BY <1>0, <2>1, UnheardIsNothing
  <2>3. c.h = Nothing
    <3>1. c.h = [At(s).h EXCEPT !.old = (At(s).h # Nothing)]
      BY <1>0 DEF Renewed, Cell
    <3>2. (At(s).h # Nothing) = FALSE
      BY <2>2
    <3>3. [Nothing EXCEPT !.old = FALSE] = Nothing
      <4>1. Nothing \in Hearings /\ Nothing.old = FALSE
        BY DEF Nothing, Hearings
      <4>2. ASSUME NEW r \in Hearings, r.old = FALSE PROVE [r EXCEPT !.old = FALSE] = r
        BY <4>2 DEF Hearings
      <4> QED
        BY <4>1, <4>2
    <3> QED
      BY <2>2, <3>1, <3>2, <3>3
  <2>4. ~c.p.auth
    BY <1>0, <2>1 DEF Agrees
  <2>5. Agrees(c)
    BY <2>1, <2>3, <2>4 DEF Agrees, Nothing
  <2>6. /\ Agrees(Notify(c)) /\ Notify(c).p.init /\ ~Notify(c).p.ingame
        /\ Notify(c) = Authorized(Joined(c))
    BY <1>0, <2>1, <2>5, JoinedFields, AuthorizedFields DEF Notify
  <2>7. CASE notified
    BY <2>6, <2>7 DEF Connected, ClientConnected, Retired
  <2>8. CASE ~notified
    BY <1>0, <2>1, <2>5, <2>8, JoinedFields DEF Connected, ClientConnected, Retired
  <2> QED
    BY <2>7, <2>8
<1> QED
  BY <1>1, <1>2

LEMMA EnteredAgrees ==
  ASSUME TypeOK, NEW s \in Slots, Agrees(At(s))
  PROVE  Agrees(Entered(s))
<1> DEFINE c == IF player[s].init THEN At(s) ELSE Joined(At(s))
<1>1. At(s) \in Cell /\ At(s).p = player[s]
  BY AtIsCell DEF At
<1>2. c \in Cell /\ Agrees(c) /\ c.p.init
  BY <1>1, JoinedFields
<1>3. /\ Authorized(c) \in Cell /\ Agrees(Authorized(c)) /\ Authorized(c).p.auth
  BY <1>2, AuthorizedFields
<1>4. Agrees(InServer(Authorized(c)))
  BY <1>3, InServerFields
<1> QED
  BY <1>2, <1>4 DEF Entered

LEMMA StoriesStep ==
  ASSUME IInv, Next
  PROVE  StoriesAgree'
<1> USE DEF IInv
<1> DEFINE Fits(s) == /\ Agrees(At(s))
                      /\ s \in mask => player[s].ingame /\ heard[s].put = 0
                      /\ eng[s] \in {"free", "bot"} => ~player[s].init
<1> SUFFICES ASSUME (phase = "running" /\ Sane)', NEW t \in Slots PROVE Fits(t)'
  BY DEF StoriesAgree
<1>0. /\ eng \in [Slots -> {"free", "loading", "spawned", "bot"}]
      /\ player \in [Slots -> Players] /\ heard \in [Slots -> Hearings]
  BY DEF TypeOK, Players, Hearings
<1>a. phase = "running" /\ Sane => \A s \in Slots : Fits(s)
  BY DEF StoriesAgree
<1>1. ASSUME phase = "running", Sane, UNCHANGED <<player, heard, mask>>,
             eng'[t] = eng[t]
      PROVE  Fits(t)'
  BY <1>1, <1>a DEF At
<1>2. CASE \E s \in Slots, notified \in BOOLEAN : ConnectClient(s, notified)
  <2>1. PICK s \in Slots, notified \in BOOLEAN : ConnectClient(s, notified)
    BY <1>2
  <2>2. /\ Becomes(s, Connected(s, notified)) /\ phase = "running"
        /\ eng' = [eng EXCEPT ![s] = "loading"] /\ UNCHANGED mask
    BY <2>1 DEF ConnectClient, Connected
  <2>3. Renewed(At(s)).p = player[s]
    BY AtIsCell DEF Renewed, At, Cell
  <2>4. Sane /\ s \notin mask /\ (player[s].init => player[s].ingame)
    BY <2>1, <2>3 DEF ConnectClient, Sane
  <2>5. CASE t = s
    <3>1. Agrees(Connected(s, notified))
      BY <1>a, <2>2, <2>4, ConnectedAgrees
    <3>2. At(s)' = Connected(s, notified)
      BY <2>2, BecomesAt, ConnectedCell
    <3> QED
      BY <1>0, <2>2, <2>4, <2>5, <3>1, <3>2
  <2>6. CASE t # s
    BY <1>0, <1>a, <2>2, <2>4, <2>6, OthersKept, ConnectedCell
  <2> QED
    BY <2>5, <2>6
<1>3. CASE \E s \in Slots : Spawn(s)
  <2>1. PICK s \in Slots : Spawn(s)
    BY <1>3
  <2>2. phase = "running" /\ eng' = [eng EXCEPT ![s] = "spawned"]
    BY <2>1 DEF Spawn
  <2>3. Sane
    BY <2>1 DEF Spawn, Sane
  <2>4. CASE flag
    <3>1. UNCHANGED <<player, heard, mask>>
      BY <2>1, <2>4 DEF Spawn
    <3> QED
      BY <1>0, <1>a, <2>2, <2>3, <3>1 DEF At
  <2>5. CASE ~flag
    <3>1. /\ Becomes(s, Entered(s))
          /\ mask' = IF player[s].ingame THEN mask ELSE mask \cup {s}
      BY <2>1, <2>5, EnteredCell DEF Spawn, Entered
    <3>2. CASE t = s
      <4>1. At(s)' = Entered(s)
        BY <3>1, BecomesAt, EnteredCell
      <4>2. player'[s].ingame /\ heard'[s].put = heard[s].put
        <5>1. player'[s] = Entered(s).p /\ heard'[s] = Entered(s).h
          BY <4>1 DEF At
        <5> QED
          BY <5>1, EnteredCell
      <4>3. Agrees(At(s)) /\ (s \in mask => heard[s].put = 0)
        BY <1>a, <2>2, <2>3
      <4>4. ~player[s].ingame => heard[s].put = 0
        BY <4>3 DEF Agrees, At
      <4>5. s \in mask' => heard[s].put = 0
        BY <3>1, <4>3, <4>4
      <4>6. Agrees(Entered(s))
        BY <4>3, EnteredAgrees
      <4>7. eng'[s] = "spawned"
        BY <1>0, <2>2
      <4> QED
        BY <3>2, <4>1, <4>2, <4>5, <4>6, <4>7
    <3>3. CASE t # s
      BY <1>0, <1>a, <2>2, <2>3, <3>1, <3>3, OthersKept, EnteredCell
    <3> QED
      BY <3>2, <3>3
  <2> QED
    BY <2>4, <2>5
<1>4. CASE \E s \in Slots : Drop(s)
  <2>1. PICK s \in Slots : Drop(s)
    BY <1>4
  <2>2. /\ Becomes(s, Left(At(s))) /\ phase = "running"
        /\ eng' = [eng EXCEPT ![s] = "free"] /\ UNCHANGED mask
    BY <2>1 DEF Drop, RunsHooked
  <2>3. Sane /\ s \notin mask
    BY <2>1 DEF Drop, Sane
  <2>4. CASE t = s
    <3>1. Agrees(Left(At(s))) /\ ~Left(At(s)).p.init
      BY <1>a, <2>2, <2>3, AtIsCell, LeftFields
    <3>2. At(s)' = Left(At(s))
      BY <2>2, BecomesAt, AtIsCell, CellOps
    <3> QED
      BY <2>2, <2>3, <2>4, <3>1, <3>2 DEF At
  <2>5. CASE t # s
    BY <1>0, <1>a, <2>2, <2>3, <2>5, OthersKept, AtIsCell, CellOps
  <2> QED
    BY <2>4, <2>5
<1>5. CASE \E s \in Slots : AddBot(s)
  <2>1. PICK s \in Slots : AddBot(s)
    BY <1>5
  <2>2. /\ phase = "running" /\ eng[s] = "free" /\ eng' = [eng EXCEPT ![s] = "bot"]
        /\ UNCHANGED <<player, heard, mask, mishaps>>
    BY <2>1 DEF AddBot, players, ghosts
  <2>3. Sane
    BY <2>2 DEF Sane
  <2> QED
    BY <1>0, <1>a, <2>2, <2>3 DEF At
<1>6. CASE \E dt \in {0, 1} : Frame(dt)
  <2>1. PICK dt \in {0, 1} : Frame(dt)
    BY <1>6
  <2>2. /\ phase = "running" /\ Sane /\ UNCHANGED <<player, eng>>
    BY <2>1 DEF Frame, Sane
  <2>3. CASE flag
    BY <1>1, <2>1, <2>2, <2>3 DEF Frame, HookedFrame
  <2>4. CASE ~flag
    <3>1. /\ heard' = [s \in Slots |-> IF s \in Ready THEN Announced(heard[s]) ELSE heard[s]]
          /\ mask' \subseteq mask \ Ready
      BY <2>1, <2>4 DEF Frame, HookedFrame
    <3>2. CASE t \notin Ready
      BY <1>a, <2>2, <3>1, <3>2 DEF At
    <3>3. CASE t \in Ready
      <4>1. Agrees(At(t)) /\ player[t].ingame /\ heard[t].put = 0
        BY <1>a, <2>2, <3>3 DEF Ready
      <4>2. heard'[t] = [heard[t] EXCEPT !.put = 1] /\ t \notin mask'
        BY <3>1, <3>3, <4>1 DEF Announced, More
      <4>3. /\ heard'[t].connect = heard[t].connect /\ heard'[t].auth = heard[t].auth
            /\ heard'[t].old = heard[t].old /\ heard'[t].put = 1
        BY <1>0, <4>2 DEF Hearings
      <4>4. Agrees(At(t))'
        BY <2>2, <4>1, <4>3 DEF Agrees, At
      <4> QED
        BY <1>a, <2>2, <4>2, <4>4
    <3> QED
      BY <3>2, <3>3
  <2> QED
    BY <2>3, <2>4
<1>7. CASE \E valid \in BOOLEAN : ChangeLevel(valid)
  BY <1>1, <1>7 DEF ChangeLevel, players, Sane
<1>8. CASE Inactivate \/ Precache \/ Shutdown
  BY <1>8 DEF Inactivate, Precache, Shutdown, engine
<1>9. CASE \E asks \in BOOLEAN : FirstActivate(asks) \/ Reload(asks)
  <2>1. /\ phase = "loading" /\ UNCHANGED <<heard, mishaps>>
        /\ player' = [s \in Slots |-> Nobody]
    BY <1>9 DEF FirstActivate, Reload, Started, ResetPlayers
  <2>2. mask' = {}
    BY <1>9 DEF FirstActivate, Reload, MaskStartsEmpty
  <2>3. player'[t] = Nobody /\ heard'[t] = Nothing
    BY <2>1 DEF LoadsEmpty, Sane
  <2> QED
    BY <2>2, <2>3 DEF At, Agrees, Nobody, Nothing
<1> QED
  BY <1>2, <1>3, <1>4, <1>5, <1>6, <1>7, <1>8, <1>9 DEF Next

LEMMA ForgottenStep ==
  ASSUME IInv, Next
  PROVE  NobodyForgotten'
<1> USE DEF IInv
<1> DEFINE Seen(s) == player[s].ingame /\ (s \in mask \/ heard[s].put >= 1)
<1> SUFFICES ASSUME (phase = "running" /\ "latched" \notin mishaps)', NEW t \in Slots,
                    eng'[t] = "spawned"
             PROVE  Seen(t)'
  BY DEF NobodyForgotten
<1>0. /\ eng \in [Slots -> {"free", "loading", "spawned", "bot"}]
      /\ player \in [Slots -> Players] /\ heard \in [Slots -> Hearings]
  BY DEF TypeOK, Players, Hearings
<1>a. phase = "running" /\ "latched" \notin mishaps =>
        \A s \in Slots : eng[s] = "spawned" => Seen(s)
  BY DEF NobodyForgotten
<1>2. CASE \E s \in Slots, notified \in BOOLEAN : ConnectClient(s, notified)
  <2>1. PICK s \in Slots, notified \in BOOLEAN : ConnectClient(s, notified)
    BY <1>2
  <2>2. /\ Becomes(s, Connected(s, notified)) /\ phase = "running"
        /\ eng' = [eng EXCEPT ![s] = "loading"] /\ UNCHANGED mask
        /\ "latched" \notin mishaps
    BY <2>1 DEF ConnectClient, Connected
  <2>3. t # s
    BY <1>0, <2>2
  <2> QED
    BY <1>0, <1>a, <2>2, <2>3, OthersKept, ConnectedCell
<1>3. CASE \E s \in Slots : Spawn(s)
  <2>1. PICK s \in Slots : Spawn(s)
    BY <1>3
  <2>2. /\ ~flag /\ phase = "running" /\ eng[s] = "loading"
        /\ eng' = [eng EXCEPT ![s] = "spawned"] /\ "latched" \notin mishaps
        /\ Becomes(s, Entered(s))
        /\ mask' = IF player[s].ingame THEN mask ELSE mask \cup {s}
    BY <2>1, EnteredCell DEF Spawn, Entered
  <2>3. CASE t = s
    <3>1. player'[s].ingame
      <4>1. At(s)' = Entered(s)
        BY <2>2, BecomesAt, EnteredCell
      <4>2. player'[s] = Entered(s).p
        BY <4>1 DEF At
      <4> QED
        BY <4>2, EnteredCell
    <3>2. s \in mask'
      BY <2>2 DEF RunsHooked
    <3> QED
      BY <2>3, <3>1, <3>2
  <2>4. CASE t # s
    BY <1>0, <1>a, <2>2, <2>4, OthersKept, EnteredCell
  <2> QED
    BY <2>3, <2>4
<1>4. CASE \E s \in Slots : Drop(s)
  <2>1. PICK s \in Slots : Drop(s)
    BY <1>4
  <2>2. /\ Becomes(s, Left(At(s))) /\ phase = "running"
        /\ eng' = [eng EXCEPT ![s] = "free"] /\ UNCHANGED mask
        /\ "latched" \notin mishaps
    BY <2>1 DEF Drop, RunsHooked
  <2>3. t # s
    BY <1>0, <2>2
  <2> QED
    BY <1>0, <1>a, <2>2, <2>3, OthersKept, AtIsCell, CellOps
<1>5. CASE \E s \in Slots : AddBot(s)
  BY <1>0, <1>a, <1>5 DEF AddBot, players, ghosts
<1>6. CASE \E dt \in {0, 1} : Frame(dt)
  <2>1. PICK dt \in {0, 1} : Frame(dt)
    BY <1>6
  <2>2. phase = "running" /\ "latched" \notin mishaps /\ UNCHANGED <<player, eng>>
    BY <2>1 DEF Frame
  <2>3. Seen(t)
    BY <1>a, <2>2
  <2>4. CASE flag
    BY <2>1, <2>2, <2>3, <2>4 DEF Frame, HookedFrame
  <2>5. CASE ~flag
    <3>1. /\ heard' = [s \in Slots |-> IF s \in Ready THEN Announced(heard[s]) ELSE heard[s]]
          /\ \A s \in mask : s \in Ready \/ eng[s] = "free" \/ s \in mask'
      BY <2>1, <2>5 DEF Frame, HookedFrame
    <3>2. CASE t \in Ready
      <4>1. heard[t] \in Hearings /\ heard[t].put \in 0 .. 2
        BY <1>0 DEF Hearings
      <4>2. heard'[t].put = More(heard[t].put)
        BY <3>1, <3>2, <4>1 DEF Announced, Hearings
      <4>3. heard'[t].put >= 1
        BY <4>1, <4>2 DEF More
      <4> QED
        BY <2>2, <2>3, <4>3
    <3>3. CASE t \notin Ready
      BY <2>2, <2>3, <3>1, <3>3
    <3> QED
      BY <3>2, <3>3
  <2> QED
    BY <2>4, <2>5
<1>7. CASE \E valid \in BOOLEAN : ChangeLevel(valid)
  BY <1>a, <1>7 DEF ChangeLevel, players
<1>8. CASE Inactivate \/ Precache \/ Shutdown
  BY <1>8 DEF Inactivate, Precache, Shutdown, engine
<1>9. CASE \E asks \in BOOLEAN : FirstActivate(asks) \/ Reload(asks)
  <2>1. phase = "loading" /\ UNCHANGED eng
    BY <1>9 DEF FirstActivate, Reload, Started
  <2> QED
    BY <2>1 DEF LoadsEmpty
<1> QED
  BY <1>2, <1>3, <1>4, <1>5, <1>6, <1>7, <1>8, <1>9 DEF Next

-----------------------------------------------------------------------------
(* Theorems *)

\* The inductive invariant: each part needs others, the count and the stories
\* in particular what holds while a map loads.
THEOREM Invariance == Spec => []IInv
<1>1. IInv /\ Next => IInv'
  BY TypeStep, CountStep, LoadsStep, HookedStep, MaskStep, LifeStep, WatchStep, StoriesStep,
     ForgottenStep DEF IInv
<1>2. IInv /\ UNCHANGED vars => IInv'
  <2> SUFFICES ASSUME IInv, UNCHANGED vars PROVE IInv'
    OBVIOUS
  <2>1. UNCHANGED <<eng, phase, queued, burned, time, extInit, deferred, precached, flag,
                    shutting, latchedAt, player, mask, num, dropHook, heard, life, setAt, mishaps>>
    BY DEF vars, engine, startup, watch, players, ghosts
  <2>2. TypeOK' /\ PlayersCounted' /\ LoadsEmpty' /\ RunsHooked' /\ MaskStartsEmpty'
    BY <2>1 DEF IInv, TypeOK, PlayersCounted, LoadsEmpty, RunsHooked, MaskStartsEmpty, Sane
  <2>3. LifeSoFar' /\ WatchSound' /\ StoriesAgree' /\ NobodyForgotten'
    BY <2>1 DEF IInv, LifeSoFar, WatchSound, StoriesAgree, NobodyForgotten, Sane, At
  <2> QED
    BY <2>2, <2>3 DEF IInv
<1> QED
  BY <1>1, <1>2, InitIInv, PTL DEF Spec

\* Every variable keeps to its type; the count never falls below zero.
THEOREM ExtPlayersTyped == Spec => []TypeOK
<1>1. IInv => TypeOK
  BY DEF IInv
<1> QED
  BY <1>1, Invariance, PTL

\* g_players_num is the number of CPlayers in the game.
THEOREM PlayersCountedAlways == Spec => []PlayersCounted
<1>1. IInv => PlayersCounted
  BY DEF IInv
<1> QED
  BY <1>1, Invariance, PTL

\* Plugins hear each session's forwards once, in order, and of nobody else.
THEOREM HeardMatchesSessionAlways == Spec => []HeardMatchesSession
<1>1. IInv => HeardMatchesSession
  <2> SUFFICES ASSUME IInv, phase = "running", Sane, NEW s \in Slots
               PROVE  /\ eng[s] \in {"free", "bot"} => heard[s] = Nothing
                      /\ ~heard[s].old
                      /\ heard[s].connect <= 1 /\ heard[s].auth <= heard[s].connect
                      /\ heard[s].put <= heard[s].auth
                      /\ heard[s].put = 1 => player[s].ingame
    BY DEF HeardMatchesSession, Sane
  <2>1. /\ Agrees(At(s)) /\ At(s) \in Cell
        /\ eng[s] \in {"free", "bot"} => ~player[s].init
    BY AtIsCell DEF IInv, StoriesAgree
  <2>2. eng[s] \in {"free", "bot"} => heard[s] = Nothing
    BY <2>1, UnheardIsNothing DEF At
  <2> QED
    BY <2>1, <2>2 DEF Agrees, At
<1> QED
  BY <1>1, Invariance, PTL

\* Whoever has spawned is in the game, and announced or about to be.
THEOREM NobodyForgottenAlways == Spec => []NobodyForgotten
<1>1. IInv => NobodyForgotten
  BY DEF IInv
<1> QED
  BY <1>1, Invariance, PTL

\* Each map is begun once and ended once for the plugins.
THEOREM LifecyclePairedAlways == Spec => []LifecyclePaired
<1>1. IInv => LifecyclePaired
  BY DEF IInv, TypeOK, LifeSoFar, LifecyclePaired
<1> QED
  BY <1>1, Invariance, PTL

\* The watchdog releases the flag of a running map after Stuck seconds and not
\* before; that of a shutdown is never released.
THEOREM FlagIsWatchedAlways == Spec => FlagIsWatched
<1>1. ASSUME IInv, Next, phase = "running", phase' = "running", flag, ~flag'
      PROVE  time' - setAt >= Stuck
  <2>0. /\ time \in Nat /\ latchedAt \in Nat /\ setAt \in Nat /\ ~shutting
    BY <1>1 DEF IInv, TypeOK, WatchSound
  <2>1. CASE \E dt \in {0, 1} : Frame(dt)
    <3>1. PICK dt \in {0, 1} : Frame(dt)
      BY <2>1
    <3>2. /\ time' = time + dt /\ latchedAt # 0 /\ ~(time' < latchedAt)
          /\ time' - latchedAt >= Stuck
      BY <1>1, <2>0, <3>1, FrameWatch
    <3>3. setAt <= latchedAt
      BY <1>1, <2>0, <3>2 DEF IInv, WatchSound
    <3> QED
      BY <2>0, <3>2, <3>3
  <2>2. CASE ~ \E dt \in {0, 1} : Frame(dt)
    <3>1. flag' \/ phase # "running" \/ phase' # "running"
      BY <1>1, <2>2 DEF Next, ConnectClient, Spawn, Drop, AddBot, ChangeLevel, Inactivate, Precache,
                        FirstActivate, Reload, Started, Shutdown, watch
    <3> QED
      BY <1>1, <3>1
  <2> QED
    BY <2>1, <2>2
<1>2. IInv /\ [Next]_vars =>
        [phase = "running" /\ phase' = "running" /\ flag /\ ~flag' => time' - setAt >= Stuck]_vars
  BY <1>1
<1>3. IInv => (phase = "running" /\ flag => time - setAt <= Stuck)
  <2> SUFFICES ASSUME IInv, phase = "running", flag PROVE time - setAt <= Stuck
    OBVIOUS
  <2>1. time \in Nat /\ latchedAt \in Nat /\ setAt \in Nat
    BY DEF IInv, TypeOK
  <2> QED
    BY <2>1 DEF IInv, WatchSound
<1>4. IInv => (phase = "ended" => flag)
  BY DEF IInv, WatchSound
<1> QED
  BY <1>2, <1>3, <1>4, Invariance, PTL DEF Spec, FlagIsWatched

=============================================================================
