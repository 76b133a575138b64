-------------------------------- MODULE Cvars --------------------------------
(***************************************************************************)
(* Managed cvars (amxmodx/CvarManager.cpp and the natives of cvars.cpp):   *)
(* bounds, variables of plugins bound to a cvar, and hooks that are told   *)
(* of every change.  All three hang on one hook on the engine's            *)
(* Cvar_DirectSet, which is off until a plugin asks for any of them.       *)
(*                                                                         *)
(* A hook is plugin code and may set cvars, their bounds and other hooks   *)
(* before it returns.  frames is the stack of the walks over hooks, and of *)
(* the create_cvar calls, that wait for plugin code.                       *)
(*                                                                         *)
(* Values are numbers with an exact decimal form.  A bound need not have   *)
(* one, and the engine prints it when a value is put back into range.      *)
(***************************************************************************)
EXTENDS Integers, Sequences, FiniteSets

CONSTANTS Cvars,
          Values,      \* values of cvars
          Default,     \* the value with which plugins create one
          Bounds,      \* values of bounds
          Printed,     \* bound -> the value that Cvar_SetValue prints for it
          Managed,     \* cvars that plugins register and bound, the others being the game's
          Variables,   \* global variables of plugins
          MaxHooks,    \* bound on the hooks of a map
          MaxDepth     \* bound on the nesting of hooks

None == -1
Never == -2

ASSUME CvarsAssumption ==
  /\ Managed \subseteq Cvars /\ Default \in Values
  /\ Bounds \subseteq Nat /\ Values \subseteq Nat
  /\ Printed \in [Bounds -> Values]
  /\ \A b \in Bounds \cap Values : Printed[b] = b
  /\ MaxHooks \in Nat /\ MaxDepth \in Nat \ {0}

VARIABLES
  detour,   \* the hook on Cvar_DirectSet is enabled
  cvar,     \* cvar -> its CvarInfo and its cvar_t
  hooks,    \* cvar -> its hooks in order: enabled or not
  binds,    \* cvar -> the variables bound to it
  var,      \* variable -> value
  frames,   \* natives in progress
  heard,    \* history: cvar -> the value each enabled hook was last told, or read
  endless   \* Cvar_DirectSet_Custom calls itself for ever

vars == <<detour, cvar, hooks, binds, var, frames, heard, endless>>

\* pluginId # -1 is owned; hasMin and minVal are min.
NoCvar == [exists |-> FALSE, cached |-> FALSE, amxmodx |-> FALSE, owned |-> FALSE,
           value |-> None, min |-> None, max |-> None]

Top == frames[Len(frames)]
Below == SubSeq(frames, 1, Len(frames) - 1)

\* Plugin code runs, or nothing does; and a native that it may call.
Idle == ~endless /\ (frames # <<>> => Top.op = "walk")
CanNest == Len(frames) < MaxDepth

\* Some cvars are there before any plugin.
Init ==
  /\ detour = FALSE
  /\ \E game \in SUBSET Cvars, v \in Values :
       /\ Cvars \ Managed \subseteq game
       /\ cvar = [c \in Cvars |-> IF c \in game THEN [NoCvar EXCEPT !.exists = TRUE, !.value = v]
                                                ELSE NoCvar]
  /\ hooks = [c \in Cvars |-> <<>>] /\ binds = [c \in Cvars |-> {}]
  /\ var = [x \in Variables |-> None]
  /\ frames = <<>>
  /\ heard = [c \in Cvars |-> <<>>] /\ endless = FALSE

-----------------------------------------------------------------------------
(* Cvar_DirectSet_Custom *)

TooLow(info, v) == info.min # None /\ v < info.min
TooHigh(info, v) == info.max # None /\ v > info.max
Fits(info, v) == ~TooLow(info, v) /\ ~TooHigh(info, v)

\* What CVAR_SET_FLOAT is given instead of v, as the engine prints it.
Clamped(info, v) ==
  CASE TooLow(info, v) -> Printed[info.min]
    [] ~TooLow(info, v) /\ TooHigh(info, v) -> Printed[info.max]
    [] OTHER -> v

\* Setting v sets what v is clamped to, and so on, until a value fits or is the one
\* that the cvar has.  The third would repeat one before it.
Landing(info, v) ==
  LET once == Clamped(info, v)
      twice == Clamped(info, once)
      Rests(w) == w = info.value \/ Fits(info, w)
  IN  CASE Rests(v) -> v
        [] ~Rests(v) /\ Rests(once) -> once
        [] ~Rests(v) /\ ~Rests(once) /\ Rests(twice) -> twice
        [] OTHER -> Never

\* The hooks of c from one on are called as long as they are enabled.  The next is
\* told the value that c has when it is called; fs is the stack without the walk.
Walk(c, from, value, fs) ==
  LET left == {i \in from .. Len(hooks[c]) : hooks[c][i]}
  IN  \/ left = {} /\ frames' = fs /\ UNCHANGED heard
      \/ \E i \in left :
           /\ \A j \in left : i <= j
           /\ frames' = Append(fs, [op |-> "walk", c |-> c, at |-> i, max |-> None])
           /\ heard' = [heard EXCEPT ![c][i] = value]

CallHooksUnnested(c, value, fs) ==
  IF fs = <<>> THEN Walk(c, 1, value, fs) ELSE frames' = fs /\ UNCHANGED heard

CallHooks(c, value, fs) == Walk(c, 1, value, fs)

\* With the detour, binds are written and then hooks called, if the value changes.
Assign(c, info, v, fs) ==
  LET w == IF detour' /\ info.cached THEN Landing(info, v) ELSE v
      seen == detour' /\ info.cached /\ w \notin {info.value, Never}
  IN  /\ endless' = (w = Never)
      /\ cvar' = [cvar EXCEPT ![c] = IF w = Never THEN info ELSE [info EXCEPT !.value = w]]
      /\ var' = [x \in Variables |-> IF x \in binds[c] /\ seen THEN w ELSE var[x]]
      /\ IF seen THEN CallHooks(c, w, fs) ELSE frames' = fs /\ UNCHANGED heard

\* The cvar keeps its value.
Keep(c, info, fs) ==
  /\ cvar' = [cvar EXCEPT ![c] = info]
  /\ frames' = fs
  /\ UNCHANGED <<var, heard, endless>>

\* A hook returns to its walk.
Return ==
  /\ ~endless /\ frames # <<>> /\ Top.op = "walk"
  /\ Walk(Top.c, Top.at + 1, cvar[Top.c].value, Below)
  /\ UNCHANGED <<detour, cvar, hooks, binds, var, endless>>

\* A plugin, the engine or the console sets a cvar; the natives that take a name
\* look it up, and so put it into the cache.
SetCvar(c, v, byName) ==
  /\ Idle /\ CanNest /\ cvar[c].exists
  /\ UNCHANGED <<detour, hooks, binds>>
  /\ Assign(c, [cvar[c] EXCEPT !.cached = @ \/ byName], v, frames)

\* get_cvar_pointer, the natives that read a cvar, and those that refuse the call.
FindCvar(c) ==
  /\ Idle /\ cvar[c].exists
  /\ cvar' = [cvar EXCEPT ![c].cached = TRUE]
  /\ UNCHANGED <<detour, hooks, binds, var, frames, heard, endless>>

-----------------------------------------------------------------------------
(* Bounds *)

\* SetCvarMin and SetCvarMax, with a bound or without.
SetCvarMin(c, info, b, fs) ==
  LET new == [info EXCEPT !.min = b]
  IN  IF b = None \/ info.value >= b THEN Keep(c, new, fs) ELSE Assign(c, new, Printed[b], fs)

SetCvarMaxLate(c, info, b, fs) ==
  Keep(c, [info EXCEPT !.max = b], fs)

SetCvarMax(c, info, b, fs) ==
  LET new == [info EXCEPT !.max = b]
  IN  IF b = None \/ info.value <= b THEN Keep(c, new, fs) ELSE Assign(c, new, Printed[b], fs)

\* set_pcvar_bounds refuses bounds that cross.
SetMin(c, b) ==
  /\ Idle /\ CanNest /\ cvar[c].exists
  /\ b # None /\ cvar[c].max # None => b <= cvar[c].max
  /\ detour' = (detour \/ b # None)
  /\ UNCHANGED <<hooks, binds>>
  /\ SetCvarMin(c, [cvar[c] EXCEPT !.cached = TRUE], b, frames)

SetMax(c, b) ==
  /\ Idle /\ CanNest /\ cvar[c].exists
  /\ b # None /\ cvar[c].min # None => b >= cvar[c].min
  /\ detour' = (detour \/ b # None)
  /\ UNCHANGED <<hooks, binds>>
  /\ SetCvarMax(c, [cvar[c] EXCEPT !.cached = TRUE], b, frames)

-----------------------------------------------------------------------------
(* create_cvar *)

\* CreateCvar: a cvar that is new to the cache gets the default, one that a plugin
\* of an earlier map registered loses its bounds.
Created(c) ==
  LET info == cvar[c]
  IN  CASE ~info.cached -> [NoCvar EXCEPT !.exists = TRUE, !.cached = TRUE, !.owned = TRUE,
                                          !.amxmodx = ~info.exists, !.value = Default]
        [] info.cached /\ ~info.owned -> [info EXCEPT !.owned = TRUE, !.min = None, !.max = None]
        [] OTHER -> info

\* register_cvar, and create_cvar with bounds that cross: nothing else is done.
RegisterCvar(c) ==
  LET info == Created(c)
  IN  /\ Idle
      /\ detour' = (detour \/ info.min # None \/ info.max # None)
      /\ UNCHANGED <<hooks, binds>>
      /\ Keep(c, info, frames)

\* The bounds are set one after the other, and the first may call hooks.
CreateCvar(c, min, max) ==
  LET info == Created(c)
  IN  /\ Idle /\ CanNest
      /\ min # None /\ max # None => min <= max
      /\ detour' = (detour \/ info.min # None \/ info.max # None \/ min # None)
      /\ UNCHANGED <<hooks, binds>>
      /\ SetCvarMin(c, info, min, Append(frames, [op |-> "create", c |-> c, at |-> 0, max |-> max]))

FinishCreating ==
  /\ ~endless /\ frames # <<>> /\ Top.op = "create"
  /\ detour' = (detour \/ Top.max # None)
  /\ UNCHANGED <<hooks, binds>>
  /\ SetCvarMax(Top.c, cvar[Top.c], Top.max, Below)

-----------------------------------------------------------------------------
(* Hooks and variables *)

HookCvarChange(c) ==
  /\ Idle /\ cvar[c].exists
  /\ Cardinality(UNION {{d} \X DOMAIN hooks[d] : d \in Cvars}) < MaxHooks
  /\ detour' = TRUE
  /\ cvar' = [cvar EXCEPT ![c].cached = TRUE]
  /\ hooks' = [hooks EXCEPT ![c] = Append(@, TRUE)]
  /\ heard' = [heard EXCEPT ![c] = Append(@, cvar[c].value)]
  /\ UNCHANGED <<binds, var, frames, endless>>

\* enable_cvar_hook and disable_cvar_hook.  A plugin that enables its hook looks at
\* the cvar, which it was told nothing of.
EnableCvarHook(c, i) ==
  /\ Idle /\ ~hooks[c][i]
  /\ hooks' = [hooks EXCEPT ![c][i] = TRUE]
  /\ heard' = [heard EXCEPT ![c][i] = cvar[c].value]
  /\ UNCHANGED <<detour, cvar, binds, var, frames, endless>>

DisableCvarHook(c, i) ==
  /\ Idle /\ hooks[c][i]
  /\ hooks' = [hooks EXCEPT ![c][i] = FALSE]
  /\ heard' = [heard EXCEPT ![c][i] = None]
  /\ UNCHANGED <<detour, cvar, binds, var, frames, endless>>

BindWithoutDetour(c, x) ==
  /\ Idle /\ cvar[c].exists /\ x \notin binds[c]
  /\ cvar' = [cvar EXCEPT ![c].cached = TRUE]
  /\ binds' = [binds EXCEPT ![c] = @ \cup {x}]
  /\ var' = [var EXCEPT ![x] = cvar[c].value]
  /\ UNCHANGED <<detour, hooks, frames, heard, endless>>

\* Only the binds of the same cvar are searched for the variable.
BindCvar(c, x) ==
  /\ Idle /\ cvar[c].exists /\ x \notin binds[c]
  /\ detour' = TRUE
  /\ cvar' = [cvar EXCEPT ![c].cached = TRUE]
  /\ binds' = [binds EXCEPT ![c] = @ \cup {x}]
  /\ var' = [var EXCEPT ![x] = cvar[c].value]
  /\ UNCHANGED <<hooks, frames, heard, endless>>

\* OnPluginUnloaded, at a map change: bounds stay in force for what hooks on next.
OnPluginUnloaded ==
  /\ ~endless /\ frames = <<>>
  /\ detour' = FALSE
  /\ cvar' = [c \in Cvars |-> [cvar[c] EXCEPT !.owned = @ /\ ~cvar[c].amxmodx]]
  /\ hooks' = [c \in Cvars |-> <<>>] /\ heard' = [c \in Cvars |-> <<>>]
  /\ binds' = [c \in Cvars |-> {}]
  /\ var' = [x \in Variables |-> None]
  /\ UNCHANGED <<frames, endless>>

-----------------------------------------------------------------------------
Next ==
  \/ Return \/ FinishCreating \/ OnPluginUnloaded
  \/ \E c \in Cvars :
       \/ FindCvar(c) \/ HookCvarChange(c)
       \/ \E v \in Values, byName \in BOOLEAN : SetCvar(c, v, byName)
       \/ \E i \in DOMAIN hooks[c] : EnableCvarHook(c, i) \/ DisableCvarHook(c, i)
       \/ \E x \in Variables : BindCvar(c, x)
       \/ /\ c \in Managed
          /\ \/ RegisterCvar(c)
             \/ \E b \in Bounds \cup {None} : SetMin(c, b) \/ SetMax(c, b)
             \/ \E min, max \in Bounds \cup {None} : CreateCvar(c, min, max)

Spec == Init /\ [][Next]_vars

-----------------------------------------------------------------------------
(* Properties *)

Info == [exists : BOOLEAN, cached : BOOLEAN, amxmodx : BOOLEAN, owned : BOOLEAN,
         value : Values \cup {None}, min : Bounds \cup {None}, max : Bounds \cup {None}]

Frame == [op : {"walk", "create"}, c : Cvars, at : Nat, max : Bounds \cup {None}]

TypeOK ==
  /\ detour \in BOOLEAN /\ endless \in BOOLEAN
  /\ cvar \in [Cvars -> Info]
  /\ hooks \in [Cvars -> Seq(BOOLEAN)]
  /\ heard \in [Cvars -> Seq(Values \cup {None})]
  /\ \A c \in Cvars : Len(heard[c]) = Len(hooks[c])
  /\ binds \in [Cvars -> SUBSET Variables]
  /\ var \in [Variables -> Values \cup {None}]
  /\ frames \in Seq(Frame)

\* When the dust of nested changes has settled, every enabled hook was last told
\* the value that its cvar has, also the hooks that were called before the one
\* that changed it again, and those it registered or enabled.
HooksHearLatest ==
  frames = <<>> =>
    \A c \in Cvars : \A i \in DOMAIN hooks[c] : hooks[c][i] => heard[c][i] = cvar[c].value

\* A variable "will then always contain the current cvar value" (cvars.inc): no
\* plugin code, the hooks of a change included, sees an earlier one.  A variable
\* bound to two cvars, which only the message at CvarManager.cpp:409 excludes,
\* has the value of one of them.
VariablesMirror ==
  Idle => \A x \in Variables :
    LET sources == {c \in Cvars : x \in binds[c]}
    IN  sources # {} => \E c \in sources : var[x] = cvar[c].value

\* Bounds that setting can satisfy: not crossed, and with an exact decimal form.
Sound(info) ==
  /\ info.min \in Values \cup {None} /\ info.max \in Values \cup {None}
  /\ info.min # None /\ info.max # None => info.min <= info.max

\* While the detour is on, a value that changes lands between the bounds of its
\* cvar, one that stays is inside a bound that changes, and Cvar_DirectSet_Custom
\* stops calling itself.  The exceptions are bounds that have crossed (create_cvar
\* moves one before the other, over what another create_cvar has set) and bounds
\* that the engine rounds; with those, setting may indeed never end.
BoundsHold ==
  [][/\ endless' => \E c \in Managed : ~Sound(cvar'[c])
     /\ \A c \in Cvars : LET old == cvar[c] new == cvar'[c] IN
          detour' /\ Sound(old) /\ Sound(new) =>
            /\ old.value # new.value => Fits(new, new.value)
            /\ old.min # new.min => ~TooLow(new, new.value)
            /\ old.max # new.max => ~TooHigh(new, new.value)]_vars

=============================================================================
