----------------------------- MODULE ExtPlayers -----------------------------
(***************************************************************************)
(* The players of a server that runs KTP AMX as a ReHLDS extension, and the *)
(* map changes they live through (meta_api.cpp).  The engine calls the      *)
(* hooks below from one thread, each to its end; the plugins hear of a      *)
(* client through forwards (client_connect, client_authorized,              *)
(* client_putinserver, client_disconnected) and of a map through            *)
(* plugin_precache, plugin_init and plugin_end.  A flag silences the hooks  *)
(* while a map change is under way; it may be latched for a change that     *)
(* never comes, and a watchdog then releases it.                            *)
(*                                                                         *)
(* The engine is external: which client sits in which slot, the queue of    *)
(* one level change and the clock of the map, which starts again with each  *)
(* map.                                                                     *)
(***************************************************************************)
EXTENDS Integers, FiniteSets

CONSTANTS
  Slots,    \* the engine's client slots
  Stuck,    \* KTP_MAPCHANGE_STUCK_SECONDS
  MaxTime   \* bound on the clock of a map

ASSUME SlotsAssumption == IsFiniteSet(Slots)
ASSUME StuckAssumption == Stuck \in Nat \ {0}
ASSUME TimeAssumption == MaxTime \in Nat /\ MaxTime > Stuck

VARIABLES
  \* the engine
  eng,        \* slot |-> "free", "loading", "spawned" or "bot"
  phase,      \* "loading" a map, "running" it, or "ended"
  queued,     \* a level change in the command buffer: "no", "fresh", or "due"
  burned,     \* this map's one queued level change has been used up
  time,       \* gpGlobals->time
  \* the core
  extInit,    \* g_bRehldsExtensionInit, and g_activated with it
  deferred,   \* g_bInitDuringPrecache
  precached,  \* g_bExtPrecacheProcessed
  flag,       \* g_bMapChangeInProgress
  shutting,   \* g_bExtShuttingDown
  latchedAt,  \* g_mapChangeLatchedAt, 0 if none
  dropHook,   \* g_isDropClientHookEnabled
  player,     \* slot |-> CPlayer: initialized, ingame, authorized
  mask,       \* g_putinserver_mask
  num,        \* g_players_num
  \* what the properties speak of
  heard,      \* slot |-> the forwards plugins got about the client in it
  life,       \* plugin_precache and plugin_init since the last plugin_end
  setAt,      \* when the flag was set in this map, 0 if it was not
  mishaps     \* the odd things that have happened

engine == <<eng, phase, queued, burned, time>>
startup == <<extInit, deferred, precached>>
watch == <<flag, shutting, latchedAt>>
players == <<player, mask, num, dropHook>>
ghosts == <<heard, life, setAt, mishaps>>
vars == <<engine, startup, watch, players, ghosts>>

-----------------------------------------------------------------------------
(* One slot: its CPlayer and what the plugins have heard about it           *)

Nobody == [init |-> FALSE, ingame |-> FALSE, auth |-> FALSE]
Nothing == [connect |-> 0, auth |-> 0, put |-> 0, old |-> FALSE]

More(n) == IF n = 2 THEN 2 ELSE n + 1

At(s) == [p |-> player[s], h |-> heard[s]]

\* CPlayer::Connect, which leaves ingame alone, and client_connect.
Joined(c) == [p |-> [c.p EXCEPT !.init = TRUE, !.auth = FALSE],
              h |-> [c.h EXCEPT !.connect = More(@)]]

\* CPlayer::Authorize and client_authorized, once per CPlayer::Connect.
Authorized(c) ==
  IF c.p.auth THEN c
  ELSE [p |-> [c.p EXCEPT !.auth = TRUE], h |-> [c.h EXCEPT !.auth = More(@)]]

\* client_disconnected, if the client had connected, and CPlayer::Disconnect.
Left(c) == [p |-> Nobody, h |-> IF c.p.init THEN Nothing ELSE c.h]

InServer(c) == [c EXCEPT !.p.ingame = TRUE]

\* The engine gives the slot to a new session: what was heard is of the old one.
Renewed(c) == [c EXCEPT !.h.old = c.h # Nothing]

Announced(h) == [h EXCEPT !.put = More(@)]

Becomes(s, c) ==
  /\ player' = [player EXCEPT ![s] = c.p]
  /\ heard' = [heard EXCEPT ![s] = c.h]

-----------------------------------------------------------------------------
(* Clients come and go                                                      *)

\* Steam_NotifyClientConnect_RH.
Notify(c) == Authorized(IF c.p.ingame THEN c ELSE Joined(c))

\* Mutant of Retired: as before AX-02, a stale session is not retired.
RetiredNever(c) == c

\* ClientConnected_RH retires a session that the engine ended without telling.
Retired(c) == IF c.p.ingame THEN Left(c) ELSE c
ClientConnected(c) == IF Retired(c).p.init THEN Retired(c) ELSE Joined(Retired(c))

\* Mutant of ConnectClient: the retired player is not taken off g_players_num.
ConnectClientUncounted(s, notified) ==
  LET c == Renewed(At(s)) IN
  /\ phase = "running" /\ eng[s] # "bot"
  /\ eng' = [eng EXCEPT ![s] = "loading"]
  /\ Becomes(s, ClientConnected(IF notified THEN Notify(c) ELSE c))
  /\ mishaps' = mishaps \cup {m \in {"retry"} : c.p.init /\ ~c.p.ingame}
                        \cup {m \in {"stale"} : s \in mask}
  /\ UNCHANGED <<phase, queued, burned, time, startup, watch, mask, num, dropHook, life, setAt>>

\* SV_ConnectClient, for a new client or for one that connects again to the slot
\* it has (after a crash, or after a map change).  Steam's notification comes
\* first; it may be missing, or come too early for the hook to look at it.
ConnectClient(s, notified) ==
  LET c == Renewed(At(s)) IN
  /\ phase = "running" /\ eng[s] # "bot"
  /\ eng' = [eng EXCEPT ![s] = "loading"]
  /\ Becomes(s, ClientConnected(IF notified THEN Notify(c) ELSE c))
  /\ num' = IF c.p.ingame THEN num - 1 ELSE num
  /\ mishaps' = mishaps \cup {m \in {"retry"} : c.p.init /\ ~c.p.ingame}
                        \cup {m \in {"stale"} : s \in mask}
  /\ UNCHANGED <<phase, queued, burned, time, startup, watch, mask, dropHook, life, setAt>>

\* SV_Spawn_f_RH: the client enters the game, which a later frame announces.  A
\* client that the hooks above have not seen is connected first.
Spawn(s) ==
  LET c == IF player[s].init THEN At(s) ELSE Joined(At(s))
      enters == ~c.p.ingame
  IN
  /\ phase = "running" /\ eng[s] = "loading"
  /\ eng' = [eng EXCEPT ![s] = "spawned"]
  /\ IF flag
     THEN /\ mishaps' = mishaps \cup {"latched"}
          /\ UNCHANGED <<player, heard, num, mask>>
     ELSE /\ Becomes(s, IF enters THEN InServer(Authorized(c)) ELSE c)
          /\ num' = IF enters THEN num + 1 ELSE num
          /\ mask' = IF enters THEN mask \cup {s} ELSE mask
          /\ UNCHANGED mishaps
  /\ UNCHANGED <<phase, queued, burned, time, startup, watch, dropHook, life, setAt>>

\* SV_DropClient_RH and its two halves, around the engine's own work.
Drop(s) ==
  /\ phase = "running" /\ eng[s] # "free"
  /\ eng' = [eng EXCEPT ![s] = "free"]
  /\ IF dropHook
     THEN /\ Becomes(s, Left(At(s)))
          /\ num' = IF player[s].ingame THEN num - 1 ELSE num
     ELSE UNCHANGED <<player, heard, num>>
  /\ mishaps' = mishaps \cup {m \in {"stale"} : s \in mask}
  /\ UNCHANGED <<phase, queued, burned, time, startup, watch, mask, dropHook, life, setAt>>

\* A fake client takes a slot; the hooks above leave it alone (FL_FAKECLIENT), so
\* plugins hear nothing of it, which is not what amxmodx.inc:183 says.
AddBot(s) ==
  /\ phase = "running" /\ eng[s] = "free"
  /\ eng' = [eng EXCEPT ![s] = "bot"]
  /\ UNCHANGED <<phase, queued, burned, time, startup, watch, players, ghosts>>

-----------------------------------------------------------------------------
(* Frames                                                                   *)

\* KTPAMX_MapChangeWatchdog at time now.
Watchdog(now) ==
  LET fresh == latchedAt = 0 \/ now < latchedAt
      over == ~fresh /\ now - latchedAt >= Stuck
  IN /\ flag' = (shutting \/ ~over)
     /\ latchedAt' = CASE shutting \/ over -> 0
                       [] fresh /\ ~shutting -> now
                       [] OTHER -> latchedAt

\* The slots whose bit a frame finds with a spawned client in them.
Ready == {s \in mask : eng[s] \in {"spawned", "bot"}}

\* Mutant of HookedFrame: the bits are consumed before the flag is looked at.
HookedFrameClearing(now, gone) ==
  /\ mask' = {}
  /\ IF flag
     THEN Watchdog(now) /\ UNCHANGED heard
     ELSE /\ latchedAt' = 0
          /\ heard' = [s \in Slots |-> IF s \in Ready THEN Announced(heard[s]) ELSE heard[s]]
          /\ UNCHANGED flag

\* Mutant of HookedFrame: a healthy frame does not reset the latch's start.
HookedFrameKeeping(now, gone) ==
  IF flag
  THEN /\ Watchdog(now)
       /\ UNCHANGED <<mask, heard>>
  ELSE /\ mask' = mask \ (Ready \cup gone)
       /\ heard' = [s \in Slots |-> IF s \in Ready THEN Announced(heard[s]) ELSE heard[s]]
       /\ UNCHANGED <<flag, latchedAt>>

\* SV_Frame_RH, after the engine has moved the clock by dt.  A change that is
\* due is made before the next frame.  A bit whose slot is empty is dropped if
\* the edict is gone.
HookedFrame(now, gone) ==
  IF flag
  THEN /\ Watchdog(now)
       /\ UNCHANGED <<mask, heard>>
  ELSE /\ latchedAt' = 0
       /\ mask' = mask \ (Ready \cup gone)
       /\ heard' = [s \in Slots |-> IF s \in Ready THEN Announced(heard[s]) ELSE heard[s]]
       /\ UNCHANGED flag

Frame(dt) ==
  /\ phase \in {"running", "ended"} /\ queued # "due"
  /\ time + dt <= MaxTime
  /\ time' = time + dt
  /\ queued' = IF queued = "fresh" THEN "due" ELSE "no"
  /\ \E gone \in SUBSET {s \in mask : eng[s] = "free"} : HookedFrame(time', gone)
  /\ setAt' = IF flag' THEN setAt ELSE 0
  /\ UNCHANGED <<eng, phase, burned, startup, shutting, player, num, dropHook, life, mishaps>>

-----------------------------------------------------------------------------
(* Maps                                                                     *)

\* PF_changelevel_I_RH latches the flag for a map that exists, whether or not the
\* engine still has this map's one level change to give.
ChangeLevel(valid) ==
  /\ phase = "running"
  /\ flag' = (flag \/ valid)
  /\ setAt' = IF ~flag /\ valid THEN time ELSE setAt
  /\ queued' = IF valid /\ ~burned THEN "fresh" ELSE queued
  /\ burned' = TRUE
  /\ UNCHANGED <<eng, phase, time, startup, shutting, latchedAt, players, heard, life, mishaps>>

\* Mutant of Inactivate: g_bExtPrecacheProcessed stays set.
InactivateProcessed ==
  /\ phase = "running"
  /\ phase' = "loading" /\ queued' = "no"
  /\ flag' = TRUE
  /\ heard' = [s \in Slots |-> IF player[s].init THEN Nothing ELSE heard[s]]
  /\ player' = [s \in Slots |-> IF player[s].ingame THEN Nobody ELSE player[s]]
  /\ dropHook' = FALSE /\ num' = 0
  /\ life' = [precache |-> 0, init |-> 0]
  /\ eng' = [s \in Slots |-> IF eng[s] \in {"loading", "spawned"} THEN "loading" ELSE "free"]
  /\ UNCHANGED <<burned, time, startup, shutting, latchedAt, mask, setAt, mishaps>>

\* SV_InactivateClients_RH, for the queued change or one from the console.  The
\* plugins hear that everybody has left, but a player who was not in the game
\* keeps its CPlayer; then the engine drops the bots and sends the others to
\* connect again.
Inactivate ==
  /\ phase = "running"
  /\ phase' = "loading" /\ queued' = "no"
  /\ flag' = TRUE
  /\ heard' = [s \in Slots |-> IF player[s].init THEN Nothing ELSE heard[s]]
  /\ player' = [s \in Slots |-> IF player[s].ingame THEN Nobody ELSE player[s]]
  /\ dropHook' = FALSE /\ num' = 0
  /\ precached' = FALSE
  /\ life' = [precache |-> 0, init |-> 0]
  /\ eng' = [s \in Slots |-> IF eng[s] \in {"loading", "spawned"} THEN "loading" ELSE "free"]
  /\ UNCHANGED <<burned, time, extInit, deferred, shutting, latchedAt, mask, setAt, mishaps>>

\* KTPAMX_InitAsRehldsExtension and KTPAMX_ReloadPlugins reset every CPlayer.
ResetPlayers ==
  /\ player' = [s \in Slots |-> Nobody]
  /\ dropHook' = TRUE

\* PF_precache_model_I_RH, on the first model of a map; on the first map it also
\* loads the plugins.
Precache ==
  /\ phase = "loading" /\ ~precached
  /\ precached' = TRUE
  /\ life' = [life EXCEPT !.precache = More(@)]
  /\ IF extInit
     THEN UNCHANGED <<extInit, deferred, player, dropHook, num>>
     ELSE /\ extInit' = TRUE /\ deferred' = TRUE
          /\ ResetPlayers /\ num' = 0
  /\ UNCHANGED <<engine, watch, mask, heard, setAt, mishaps>>

\* The new map's clock starts; plugin_init may ask for another map at once, and
\* the hook then clears the flag that this request has latched.
Started(asks) ==
  /\ phase = "loading" /\ phase' = "running"
  /\ time' = 1
  /\ burned' = asks
  /\ queued' = IF asks THEN "fresh" ELSE "no"
  /\ flag' = FALSE /\ setAt' = 0
  /\ deferred' = FALSE
  /\ UNCHANGED <<eng, shutting, latchedAt, mishaps>>

\* SV_ActivateServer_RH on the first map, whose initialisation may have been
\* begun by Precache.
FirstActivate(asks) ==
  /\ ~extInit \/ deferred
  /\ Started(asks)
  /\ extInit' = TRUE
  /\ life' = [precache |-> IF precached THEN life.precache ELSE More(life.precache),
              init |-> More(life.init)]
  /\ ResetPlayers /\ num' = 0
  /\ UNCHANGED <<precached, mask, heard>>

\* SV_ActivateServer_RH on every other map: KTPAMX_ReloadPlugins.  The hook does not
\* ask for the precaching; an engine that loads a map precaches a model first.
Reload(asks) ==
  /\ extInit /\ ~deferred /\ flag /\ precached
  /\ Started(asks)
  /\ ResetPlayers /\ mask' = {}
  /\ life' = [life EXCEPT !.init = More(@)]
  /\ UNCHANGED <<extInit, precached, num, heard>>

\* KTP_ExtensionShutdown: the plugins and their forwards are gone.
Shutdown ==
  /\ phase = "running"
  /\ phase' = "ended" /\ queued' = "no"
  /\ shutting' = TRUE /\ flag' = TRUE
  /\ setAt' = IF flag THEN setAt ELSE time
  /\ UNCHANGED <<eng, burned, time, startup, latchedAt, players, heard, life, mishaps>>

-----------------------------------------------------------------------------
Init ==
  /\ eng = [s \in Slots |-> "free"]
  /\ phase = "loading" /\ queued = "no" /\ burned = FALSE /\ time = 1
  /\ extInit = FALSE /\ deferred = FALSE /\ precached = FALSE
  /\ flag \in BOOLEAN /\ shutting = FALSE /\ latchedAt = 0
  /\ player = [s \in Slots |-> Nobody]
  /\ mask = {} /\ num = 0 /\ dropHook = FALSE
  /\ heard = [s \in Slots |-> Nothing]
  /\ life = [precache |-> 0, init |-> 0]
  /\ setAt = 0 /\ mishaps = {}

Next ==
  \/ \E s \in Slots :
       \/ \E notified \in BOOLEAN : ConnectClient(s, notified)
       \/ Spawn(s) \/ Drop(s) \/ AddBot(s)
  \/ \E dt \in {0, 1} : Frame(dt)
  \/ \E valid \in BOOLEAN : ChangeLevel(valid)
  \/ Inactivate \/ Precache
  \/ \E asks \in BOOLEAN : FirstActivate(asks) \/ Reload(asks)
  \/ Shutdown

Spec == Init /\ [][Next]_vars

-----------------------------------------------------------------------------
(* Properties *)

TypeOK ==
  /\ eng \in [Slots -> {"free", "loading", "spawned", "bot"}]
  /\ phase \in {"loading", "running", "ended"}
  /\ queued \in {"no", "fresh", "due"} /\ burned \in BOOLEAN
  /\ time \in 1 .. MaxTime
  /\ extInit \in BOOLEAN /\ deferred \in BOOLEAN /\ precached \in BOOLEAN
  /\ flag \in BOOLEAN /\ shutting \in BOOLEAN /\ latchedAt \in 0 .. MaxTime
  /\ player \in [Slots -> [init : BOOLEAN, ingame : BOOLEAN, auth : BOOLEAN]]
  /\ mask \in SUBSET Slots /\ num \in Nat /\ dropHook \in BOOLEAN
  /\ heard \in [Slots -> [connect : 0 .. 2, auth : 0 .. 2, put : 0 .. 2, old : BOOLEAN]]
  /\ life \in [precache : 0 .. 2, init : 0 .. 2]
  /\ setAt \in 0 .. MaxTime
  /\ mishaps \in SUBSET {"retry", "stale", "latched"}

\* get_playersnum() is the number of players in the game, whichever of the four
\* ways out a client took.
PlayersCounted == num = Cardinality({s \in Slots : player[s].ingame})

\* What plugins have heard of a slot is the story of the client in it, from its
\* start and in order: nothing of an empty slot, one client_connect and one
\* client_authorized before client_putinserver, and everything taken back by one
\* client_disconnected.  The exceptions are a client that connects again
\* before it is in the game ("retry") and a bit of the mask that outlives its
\* client ("stale").  amxmodx.inc:183 promises client_authorized of bots as well;
\* the hooks skip them, so no announcement is asked for in the slot of a bot.
HeardMatchesSession ==
  phase = "running" /\ mishaps \cap {"retry", "stale"} = {} =>
    \A s \in Slots :
      LET h == heard[s] IN
      /\ eng[s] = "free" => h = Nothing
      /\ ~h.old
      /\ h.connect <= 1 /\ h.auth <= h.connect /\ h.put <= h.auth
      /\ h.put = 1 => player[s].ingame

\* Nobody plays unseen: a client that has spawned is in the game for the plugins,
\* which hear of it at the latest in the next frame that is not silenced.  The
\* exception is a client that spawns while the flag is latched ("latched").
NobodyForgotten ==
  phase = "running" /\ "latched" \notin mishaps =>
    \A s \in Slots : eng[s] = "spawned" =>
      player[s].ingame /\ (s \in mask \/ heard[s].put >= 1)

\* The watchdog releases a flag that has been set for Stuck seconds of this map,
\* never one that is younger, whatever is left of an earlier map in latchedAt, and
\* never that of a shutdown.
FlagIsWatched ==
  /\ [][phase = "running" /\ phase' = "running" /\ flag /\ ~flag'
          => time' - setAt >= Stuck]_vars
  /\ [](phase = "running" /\ flag => time - setAt <= Stuck)
  /\ [](phase = "ended" => flag)

\* On every map the plugins run plugin_precache and plugin_init once, and between
\* two maps plugin_end, however the first initialisation was split.
LifecyclePaired ==
  /\ phase = "running" => life = [precache |-> 1, init |-> 1]
  /\ phase = "loading" => life.init = 0

\* amxmodx.inc:202, "It is guaranteed to pair with the client_connect() forward":
\* no client is announced twice without having left in between.
ConnectIsPaired == \A s \in Slots : heard[s].connect <= 1

=============================================================================
