# KTP AMX in TLA+

A verification project for the server plugin platform in this repository (AMX Mod X
as KTP maintains it: `amxmodx/` is the core, `modules/` the loadable modules). It
holds TLA+ modules translated from the C and C++ sources, TLC configurations that
check them on small instances, and proofs, checked by TLAPS, of what matters most.

Paths below are relative to the source tree; a line number after a colon is a line of
the file named before it.

## 1. The system

A game server loads the core, as a Metamod plugin or (the KTP way, "extension mode")
directly into ReHLDS. The core loads modules (shared libraries) and plugins (scripts of
the Pawn abstract machine). All plugin code runs on the game thread, called by the
engine's hooks: a frame, a client that connects, a map that ends. What makes the code
hard is that

- **calls nest**: a hook calls plugins, which call natives, which call plugins again, and
  may even make the engine run a frame or change the map inside the call. Every table
  that is walked while plugins are called can be changed under the walk;
- **maps end at any moment**, and tasks, forwards, queries and players of one map must not
  reach the next;
- **a few threads exist**: one writes logs, one per SQL module runs queries. They share
  queues with the game thread under mutexes, condition variables and atomics;
- **the process crashes** (game servers do), and log files and vaults are read back.

### Inventory

| Component | State it keeps | Operations | Interacts with | Hard behaviours | What makes it correct |
|---|---|---|---|---|---|
| Asynchronous log queue, `amxmodx/amxxlog.cpp:35-262` | ring of 1024 slots, head, tail, drop counter, running and stop flags, thread handle | enqueue, create writer, write, shut down | `CLog`, module threads | two threads that create the writer, lost wake-ups, full ring, shutdown inside `dlclose` | bounded FIFO, one writer, nothing lost silently, the shutdown returns |
| `CLog`, `amxmodx/amxxlog.cpp:227-555` | log type, per-map file name, error latches, mode | log, log error, map change, detach | the queue, files, `localinfo` | names probed on disk before the writer creates them; mode switches; failing files; crashes | order in a file, one map per file, each error under its header, losses counted |
| Single-plugin forwards, `amxmodx/CForward.cpp:374-872` | slots with reference counts, call depth and "to delete", stack of free ids | register, duplicate, execute, unregister, clear | tasks, menus, queries, plugins | functions released or registered again while they execute | an id means one function from registration to release |
| Tasks, `amxmodx/CTask.cpp` | vector of tasks, count of active ones, first free hint, frame depth, deferred clear | set, remove, change, frame, clear | forwards, frames, map changes | callbacks that edit the vector, nested frames, map changes in a callback | each task runs when due, as often as asked; nothing is destroyed while it runs |
| nVault, `modules/nvault/` | map of keys to values and stamps, vault file, journal | open, set, touch, get, remove, prune, close | files, plugins | crashes at any point, failing saves, failing journal writes | what was stored is read back |
| Threaded SQL, `modules/sqlite/thread/`, `modules/sqlite/threading.cpp` | worker state and queue, results, pool of query objects | query, run, deliver in a frame, stop, unload plugins | plugins, frames, the worker thread | missed signals; callbacks that query or end the map while results are walked | each query is answered once, before its plugin goes |
| Players and map changes, `amxmodx/meta_api.cpp`, `amxmodx/CMisc.cpp` | a `CPlayer` per slot, pending-announcement mask, player count, map-change flag and its watchdog, start-up flags | connect, authorise, spawn, drop, frame, change level, inactivate, activate, shut down | the engine, forwards | clients that connect again without leaving; a latched flag nobody clears; a start split over two hooks | plugins hear each session's story in order; each map is begun and ended once |
| Menus, `amxmodx/newmenus.cpp`, `newmenus.h` | menus by id, stack of free ids, items, the menu, page and keys of each player | create, add items, display, turn, select, cancel, destroy, the game's own menus | forwards, players, the client | a menu destroyed, replaced or displayed again in its own callback; keys drawn by one function and read by another | an id denotes one live menu, each display is told to its handler once, a key does what stands beside it |
| Cvars, `amxmodx/CvarManager.cpp`, `cvars.cpp` | per cvar: value, bounds, owner, hooks, bound variables; the detour on `Cvar_DirectSet` | register, create, set, bound, hook, enable, disable, bind, unload plugins | the engine, plugins | a hook that sets the cvar, its bounds or its hooks again; a minimum that moves over a maximum | bounds hold, bindings mirror the value, hooks end up knowing it |
| Multi-plugin forwards and prepared arrays, `amxmodx/CForward.cpp` | plugins per forward, `m_TmpArrays` | register, prepare array, execute, copy back | all hooks, natives of plugins | nested calls share the table of arrays | the arrays of a call are its own |
| Events and messages, `amxmodx/CEvent.cpp`, `messages.cpp` | message being parsed, handlers | parse, dispatch | the engine, plugins | nested messages | each handler sees its own message |
| Plugins, modules, natives, `amxmodx/CPlugin.cpp`, `CModule.cpp`, `natives.cpp` | loaded libraries and tables | load, pause, unload | all | little while the server runs | |
| Data handles, `amxmodx/natives_handles.h`, `datastructs.cpp` | vector of objects by id | create, look up, free | plugins | ids that are used again | an id denotes one object |
| Text and configuration, abstract machine, game and engine modules, compiler, installer | | | | sequential; the engine's state or pure computation | not modelled |

The first ten rows are modelled (section 3); `PROJECT.json` lists every component with its
status, and every hazard of the code with its line and the properties that would notice it.

## 2. Conventions

One module per component; the `MC...` modules add only what a configuration needs
(symmetry). An action is what happens between two points at which somebody else can act:
for the two threaded components a critical section, an atomic access, a signal or a wait;
for the components on the game thread a whole handler, or, where it calls plugins, the part
between two calls. A plugin is any sequence of legal calls, so a callback is not an
operation of its own: while a call is on the stack, the same actions are enabled as outside.

History variables (marked "history" in the declarations) remember what the properties speak
of and influence no guard of code. Every bound is a constant whose comment says "bound"; the
bounds appear in the guards of the actions that would exceed them.

**Mutants.** An operator whose name is that of another one with a suffix that names a mistake
(`HookedFrameClearing` beside `HookedFrame`) is the same operator with a plausible bug. The
specifications do not use it: it is there to be put in the place of the original, and
the property it belongs to is then violated (`PROJECT.json`, "mutants").

**Mishaps.** Some properties hold except after certain events, for which the code itself is
the reason. Such an event is recorded in a variable `mishaps`, or in one of its own (`torn` of `NVault`, `stale` of `Menus`, `safe` of an index in
`ForwardCalls`, `endless` of `Cvars`), and the property names it. Each
one was checked to be necessary: without the exception TLC finds a counterexample. They are
listed with their property in section 4 and belong to what a reader should take from this
project.

## 3. Modules

### LogChannel and LogQueue: the asynchronous log queue

`LogChannel` promises a bounded FIFO of `Cap` lines: a line is accepted whenever there is room, and refused
and counted only when `Cap` lines wait; the writer takes the lines out in order and writes each or counts it as
lost. Under the mapping at the end of `LogQueue` the lines that wait are those of the ring (`Waiting`), the line in the
writer's hands is apart (`InHand`), and `Cap` is the size of the ring less one. `LogQueue` is the code: `Call`, `Ensure`, `AlreadySpawned`, `Spawn`, `SpawnFails`, `PushFull`, `Push`
and `Notify` are the steps of `KTP_ALogEnqueue` and `KTP_ALogEnsureThread` (the unlocked load
of the running flag, the load under the lock, the critical section that advances the head,
the notification after the unlock); `Sleep`, `SpuriousWake`, `Quit`, `Take`, `WriteLine` and
`LoseLine` are the writer's loop; `Shutdown` to `ClearStop` are the stores, the notification and
the join of `AsyncShutdown`, each visible to the others on its own. The variables carry the
names of the statics (comments in the declaration). A line is its file and its number.

### CLog: files and modes

The object `g_log` on the game thread over the channel that `LogQueue` implements. A handler
is an operator from the state it finds to the state it leaves, so that `CLog`'s
calls to itself (`Log` and `MapChange` create the per-map file, `CreateNewFile` closes the
old one) nest as in the code. `f` is the set of file operations that fail during a
call: creating the writer, creating the per-map file, the two tries to open for
appending; the writer's own failure is an action. `Detach` waits for the writer
(`Joined`). `Crash` restarts the process over the files it left. `Configure` is the operator who changes `amxx_logging` and
`amxx_log_async`.

### HandleTable and SPForwards: ids of functions

`HandleTable` promises that a holder's handle means the function it was registered for until
it is released, and that calls nest. `SPForwards` is the registry: `Register` (shared, recycled from
the free stack, or appended; `RecycleFails` when the plugin lacks the function), `Duplicate`,
`Release`, `Execute`, `Finish` (which completes a release put off), `Clear`. Reference counts,
the deletion flag, the call depth and the free stack are the code's. `Clear` is modelled with no
call on the stack.

### ForwardCalls: calls and their arrays

`ForwardCalls` extends `SPForwards` by what the calls themselves do: `CallOne` and `ReturnOne` are a call of a registered
function (and take `Execute` and `Finish` with them), `CallAll`, `NextFunction` and `ReturnAll` one of a multi-forward,
`CallNobody` one that finds nothing to execute. `calls` is the stack, with the engine at its bottom: each call has the
arrays it was passed and those its code has `PrepareArray`d and not passed on yet. An array is the index that
`prepareArray` returned, the array it was for, and whether it is still safe: `Leave` is the return, which sets
`m_TmpArraysNum` to 0 and with that makes every index in use unsafe. The results of plugins are reduced to whether they
end the walk over the plugins.

### TaskMngr: tasks

`Kinds` says of each id what it may register: timed tasks, tasks for the start ("c") or the end ("d") of a map. `SetTask`, `RemoveTasks`, `ChangeTasks`, `StartFrame`, `EndFrame`, `Pass`, `Call`, `Skip`, `Return`,
`Clear`. `frames` is the stack of frames in progress, each with the index it has come to and
whether it is in a callback; so nested frames are a frame started while the innermost one is
calling. Time is relative: `wait` is what is left until the task is due. The flags "c" and "d" are two events that open
and close. A called function may clear the vector for the next map, which is put off (`deferred`); with `ClearInFrame` =
"unnested" only one whose call no nested frame shares. `lost` (history) counts the tasks that a deferred clear destroys
and `m_ActiveCount` still counts.

### NVault: a vault and its journal

Memory, file and journal of one vault. Files are what reading them yields, so a torn last record is
a record that is not there. `Crash` keeps any prefix of the journal, because stdio buffers
it, and in the middle of a save any part of the entries. `Close` is `StartSave`, `FinishSave` and
`EndJournal`, or `SaveFails`. `Set` reads the clock twice, as the code does. `Replay` is the last value of `After`, the
map after each record.

A write to the journal may fail, and nobody looks (`Journal.cpp:175-229`, called at `NVault.cpp:273, 282, 291, 299,
312`): `WriteFails` changes memory and leaves the journal as it is (`torn`). While all later writes fail too, the journal is the
beginning of the session; `WriteBehind` is a write that succeeds after one that failed, whose record lies behind a gap or out of
the frame of the torn one, and may then read as any of `Misread` (in the run, as a record that clears the map). Failed writes and crashes are
counted together, up to `MaxFaults`. The specification is called `VaultSpec`, and its parts accordingly, so that one module can hold proofs about this one and `SqlWorker`.

### SqlWorker: threaded queries

The worker (`Look`, `Check`, `Wait`, `Woken`, `Again`, `Pop`, `Ran`) and the game thread (`ThreadQuery`,
`Call`, `Return`, `Unload` and its steps, `Detach`, `Start`). The split of the worker's loop into
reading the state, testing the queue under its lock, unlocking and waiting is what the run
`sql_stop` is about. `results` and `free` are stacks, as in the code; an object is carried
around by its number and `query` says which query it carries.

### ExtPlayers: players and map changes in extension mode

The hooks of extension mode, each run to its end on the game thread: `ConnectClient` (Steam's
notification and `ClientConnected_RH`, either of which may be missing or late), `Spawn`, `Drop`,
`AddBot`, `Frame` with `HookedFrame` and `Watchdog`, `ChangeLevel`, `Inactivate`, `Precache`, `FirstActivate`,
`Reload`, `Shutdown`. The engine is external and small: who sits in which slot, the one level
change a map may queue, and a clock that starts again with each map. No frame runs between
`Inactivate` and the activation, because the engine changes a level in one call. `heard` is what the plugins were told
about the client in a slot since its session began; `life` is what they were told about the map.

Two assumptions on the engine: later maps precache a model before they are activated, so `Reload` comes after `Precache`
(`meta_api.cpp:3078` itself does not test it); and a bot (`AddBot`) takes a slot without any of the hooks having an effect, since they
skip who has `FL_FAKECLIENT`, so no announcement is asked for in its slot (see "Disagreements without a run").

### MenuPages and Menus

`MenuPages` holds the two functions that must agree: `Legend` is what `Menu::GetTextString` draws beside the keys of a
page, `PagekeyToItem` what is made of a key, each written after its own code. `Menus` is the table of menus, the
players' screens and the natives: `MenuCreate`, `MenuAddItem`, `MenuDisplay`, `ShowMenu`, `MenuCancel`, `MenuDestroy`,
`Select` and `SelectLate` (a key, in and after the time of the menu), `Join`, `Leave`, `Client_ShowMenu` (the game's
own menu), `ClearMenus`. A native that calls the handler, the page callback or the callbacks of items becomes a
frame; the actions `GoOn...`, `Drawn`, `Closed` and `Left` are what it does when the callback returns, with what it
looked up before and what it looks up again told apart, as in the code. `text` is `m_Text`, one text per menu: every display of
a menu empties it, writes its page into it line by line and sends what is there, so a display that an item callback makes of the same
menu and the one around it share it, while each collects its keys on its own. A player's screen keeps the keys and the text that were
sent; a line is the page it was written for, a key and what that key selects there. A menu is known by its id, which is used
again, and by its allocation, which is not, so that `stale` can record a native that goes on with a deleted menu.

Abstracted: the callbacks of the items of a page are asked all at once, before its first line is written, which is exact with one
item per page; with more, the text of the outer display would have lost lines that the model keeps. A text is forgotten when no native
is drafting one, since the next display empties it. `View` of `MCMenus` ignores the last page of a player
without a menu, which is read only while a page is being turned; `menu_destroy` visits the players in any order;
which menus have callbacks is given by their order of creation (`Turning`, `Asking`). Blanks (`menu_addblank`) are
not added while a menu runs; their pages are compared for all the menus in `Shapes` at once (`PagesAreHonest`).

### Cvars

`cvar` is the `CvarInfo` with the value of the engine's `cvar_t`. `Assign` is `Cvar_DirectSet_Custom`: clamp, set, write
bound variables, walk over the hooks. The clamping sets the cvar again through the detour, so `Landing` is where that
recursion ends, or `Never`. `Walk` runs to the next enabled hook and leaves a frame there; while it waits, any
native may run, and `Return` goes on over the list as it is then. `SetCvar`, `FindCvar`, `SetMin`, `SetMax`,
`RegisterCvar`, `CreateCvar` with `FinishCreating` (the two bounds are set one after the other, hooks run in
between), `HookCvarChange`, `EnableCvarHook`, `DisableCvarHook`, `BindCvar` and `OnPluginUnloaded` are the operations.
Values are numbers with an exact decimal form; `Printed` says what the engine makes of a bound that has none, because
`CVAR_SET_FLOAT` goes through text. `heard` is history: what each hook was last told.

## 4. What TLC checks

| Run | Instance | Shows |
|---|---|---|
| `log` | the game thread and a module thread, 1 file, ring of 2, 3 lines, 2 writers; fair | One writer at a time, first in first out, every line accounted for, `LogQueue` implements `LogChannel`; an accepted line is written or counted (`AcceptedIsDisposedOf`), the shutdown returns (`ShutdownReturns`) and then the ring is empty and no writer lives (`DrainedWhenJoined`). |
| `clog_faults` | ring of 1, settings 1, 2 and 7, both modes, all failures, 4 calls, 2 maps, 1 crash | `NothingLostSilently` always; `FileOrder`, `OneSessionPerFile`, `ErrorsHaveHeader` outside their mishaps. |
| `forwards` | 3 holders, 3 functions (1 missing), 2 slots, a multi-forward in 2 plugins, 2 arrays, 2 entries, calls 3 deep | Handles keep their meaning (`HandlesDenote`); counts and free stack are exact and releases put off are carried out (`RegistryExact`); the registry implements `HandleTable`; a call's arrays are its own until a call returns (`ArraysAreOwn`). |
| `tasks` | 3 slots; one id with timed tasks, one with tasks for the end of the map; repeats 0 and 2; frames 3 deep; map changes in callbacks that no nested frame shares; fair | `CountersExact`, `BookedTasksKept`, `RepeatsExact`, `ExecutingOnce` under callbacks that edit the vector in nested frames; the called task outlives its call (`CalleeExists`); a due task runs (`DueTaskRuns`). |
| `task_nested` | two ids with timed tasks, repeated twice, frames 2 deep, map changes in any callback | **Violated**: `CalleeExists`, see findings. |
| `vault` | 2 keys, 1 value, clock of 2, 2 records, 2 faults (crashes or failed writes to the journal) | `JournalCoversSession`, `RecoversAState`. |
| `sql` | 5 queries, 3 lives; fair | Objects in one place, answers once, nothing outlives the plugins, every query is answered unless a wake-up was missed. |
| `sql_stop` | 1 query, 1 life; fair | **Violated**: `StopReturns`, see findings. |
| `players` | 2 slots, watchdog of 2, clock of 4, any number of maps | What plugins hear is each session's story, the count is exact, nobody is forgotten, each map is begun and ended once, the flag is released in time and not before. |
| `players_paired` | 1 slot | **Violated**: `ConnectIsPaired`, see findings. |
| `menus` | 2 players, 2 ids, 3 menus (two with a page callback, one with item callbacks), 1 item per page, 2 rounds of closing, callbacks 2 deep; pages of menus of up to 4 items | Handlers are told once (`HandlerToldOnce`), ids denote (`IdsDenote`), the lines of a page and its keys agree (`KeysKeepMeaning`, `PagesAreHonest`). |
| `cvars` | 2 cvars (1 with bounds), values 0, 2, 4, bounds 1 (printed as 2), 2, 4, 1 variable, 2 hooks, nested 2 deep | `HooksHearLatest`, `VariablesMirror`, `BoundsHold`. |

**Why the bounds are enough.** A ring of 2 holds one line, so it is empty, full and wraps around within three lines, and two
producers race for the creation of the writer and for the last slot; two writers suffice to have one of them exit while
the next is created. In `CLog` a ring of one is full after one line, and four calls are a map change, two lines and an
error in any order with a second map and a crash between any of them. In `ForwardCalls` two slots and three holders
share, recycle and extend; three calls deep a function executes twice with another in between, and an outer call has
arrays while one call in it has returned and another prepares; two entries are full with one array each of two calls.
In `TaskMngr` three tasks are a caller, one it removes and one it adds; three frames deep, two calls are suspended while a
third frame walks. In `NVault` two records are an operation and the one that undoes it, and two faults are a crash
during the recovery from another, or a failed write and a crash. In `SqlWorker` three lives are two map changes, and five queries keep one queued, one
running, one in the results, one in its callback and one waiting to be asked. In `ExtPlayers` slots interact through the
count and the mask only; with `Stuck` = 2 and a clock of 4 the watchdog fires, fires again, and the clock goes back while
it waits. In `Menus` three menus over two ids use an id again while a native still has the old menu in hand; one item per
page gives menus of several pages; callbacks two deep are a handler that destroys, displays or closes inside a native
that is going on. In `Cvars` a hook sets the cvar, whose hooks run, one of which does so again; a bound of 1 that prints
as 2 stands for the rounding, and two `create_cvar` over one cvar cross its bounds.

**Fairness.** `LogQueue`: threads are scheduled and file operations return, per thread; nobody has to log or to
shut down. `TaskMngr`: the engine runs frames, a frame goes on, and a callback returns, strongly fair because a frame that
nests in the callback disables the return for a while. `SqlWorker`: both threads run, the server runs frames, callbacks return. No fairness is assumed of plugins, operators, clients, failures or crashes. The
other modules check safety only.

**Deadlock** is checked, except where the system may stop: after the bounded number of lines, calls or
queries (`LogQueue`, `CLog`, `SqlWorker`), when all menus have been made (`Menus`) and when a set of a cvar never ends (`Cvars`)
nothing need happen any more.

**Types.** Each module has one `TypeOK`; where a run does not list it, it is a conjunct of one of the run's invariants
(`FileOrder`, `CountersExact`, `JournalCoversSession`, `ObjectsInOnePlace`, `IdsDenote`, `ArraysAreOwn`) or proved (section 5).

### Exceptions in the properties

| Property | Exception | Why |
|---|---|---|
| `FileOrder` | `bypass` | A map change that turns `amxx_log_async` off lets the next line be written before those queued. |
| `FileOrder`, `OneSessionPerFile` | `create` | When the per-map file cannot be created, `CLog` goes on logging to its name, which the next probe may give out again. |
| `ErrorsHaveHeader` | `writer` | The latch is set when the header is queued; the writer may fail to write it. |
| `NothingLostSilently` | a crash | Destroys the lines in the ring, not one line as the comment at `amxxlog.cpp:114` has it; the model counts exactly those. |
| `RecoversAState`, `JournalCoversSession` | `touch`, `second` | A stamp that is not journaled, or that differs between memory and journal because the clock was read twice, changes what a replayed prune removes. |
| `RecoversAState` | `gap` | A record is written behind one whose write failed. Until then, failed writes lose operations from the end only. |
| `JournalCoversSession` | `torn` | Once a write has failed the journal lacks what memory has. |
| `RecoversAState` | `save`, `again` | The vault file is truncated before it is written; the journal is erased before its contents are saved, and a second crash loses them. |
| `BookedTasksKept` | `deferred` | Between a forced map change in a callback and the end of the frame nothing is promised: a task that `set_task` adds there is wiped by the deferred clear (`CTask.cpp:330`). |
| `CalleeExists` (`tasks`) | a clear under nested frames | The finding of `task_nested`. |
| `AcceptedIsDisposedOf` | `Abandoned` | A module thread that logs during `AsyncShutdown` hands over its line after the writer has left, or starts a writer that sees the stop flag before it is cleared (`amxxlog.cpp:261`). |
| `ArraysAreOwn` | after a nested call has returned | `CForward.cpp:756` sets the counter of prepared arrays to 0, so the next array takes an entry of the outer call (see "Disagreements without a run"). |
| `HandlerToldOnce` | displays that slip away | The game's own menu takes the screen without telling the handler (`emsg.cpp:49, 70`); so does a display from a page or item callback (`newmenus.cpp:322`, `meta_api.cpp:3830`). |
| `IdsDenote` | `stale` | Once a native has gone on with a deleted menu nothing is promised, and the model stops. |
| `KeysKeepMeaning` | lines of another page | A text may hold lines of a page that a nested display wrote; their keys are another page's. |
| `PagesAreHonest` | pages that are not `Orderly` | Exempt are the single, first and middle pages of a menu that has blanks with numbers, its last page when not all fits, and any last page with blanks that take no number. Such blanks shift the keys of what follows from what `newmenus.inc` says. |
| `BoundsHold` | crossed bounds | A second `create_cvar` moves the minimum over the maximum of the first (`cvars.cpp:57`, against `cvars.inc:46-48`); the value may then rest below the minimum, or `Cvar_DirectSet_Custom` calls itself for ever (`Never`). |
| `BoundsHold` | rounded bounds | A bound without an exact decimal form is printed and read again by the engine, and may land outside itself. |
| `VariablesMirror` | a variable bound to two cvars | `CvarManager.cpp:401-412` looks for the variable among those of the same cvar only, though its message at 409 excludes more; the variable then mirrors one of the two. |
| `HeardMatchesSession` | `retry` | The finding of `players_paired`. |
| `HeardMatchesSession` | bots | Nothing need be heard of a bot. |
| `HeardMatchesSession` | `stale` | The bit of a client that left before the frame announces the bot that took its slot. |
| `NobodyForgotten` | `latched` | A client that spawns while the flag is latched for a change that never comes is never put in server. |
| `QueriesAnswered` | `Stranded` | The missed wake-up of `sql_stop`, for a query. |

Two more things a reader of `CvarManager.cpp` should know, which no property excludes: a hook may be told of a change whose old and new
value are the same, after a nested change that restored it (compare the comment at line 25); and `create_cvar` over a cvar of
the engine that was not cached yet overwrites its value (lines 268-273, compare the comment at 214).

### Findings

1. `task_nested`. `CTask.cpp:340` says that the vector cannot be destroyed while
   `executeIfRequired` is on the stack, and `CTask.h:71` that the frame counter is a depth for
   that reason. The deferred clear at `CTask.cpp:331` does not look at the depth: clear in a callback, set a
   task, run a nested frame, and the inner frame destroys the vector under the outer one.
2. `sql_stop`. `IThreader.h:226` says that `Stop` waits until the tasks are depleted and then ends. The worker reads
   its state, unlocks its queue and only then waits for the signal, without testing anything again
   (`ThreadWorker.cpp:85`); a `Stop` in between is not noticed, and the game thread waits for ever.
3. `players_paired`. `amxmodx.inc:202` guarantees that `client_disconnected` pairs with `client_connect`. A
   client that connects again while it is still loading is announced again without having been retired, since
   the hook retires only those in the game (`meta_api.cpp:1617`).

### Disagreements without a run

Met while modelling; each is what the model does. The formulas named are in the modules and not true: TLC refutes each on the
instance of its component's run within seconds when it is added to the configuration.

1. `EntriesNotShared` (`ForwardCalls`). `executeForwards` sets `m_TmpArraysNum` to 0 whenever it returns, also inside another
   call (`CForward.cpp:756`). A function called with an array that makes a call of its own and then prepares an array gets the
   entry of the outer call, whose next plugin (line 231) and whose copy-back (lines 317, 544) then use the inner array, against
   `amxmodx.inc:3297`: "modifications made by the called plugin(s) will be copied back to the caller".
2. `DestroyedIsNoticed` (`Menus`). `menu_display` takes the pointer to its menu before it calls handlers, and afterwards
   only tests that the slot of the id is not empty (`newmenus.cpp:908`). A handler that destroys the menu and creates another, which gets
   the id, leaves it filled, and the display runs on the deleted menu; so does the rest of `GetTextString` after an item callback that
   destroys the menu (line 444). `newmenus.inc:273`: "future attempts to access the menu resource will result in an error".
3. `ShownIsSelected` (`Menus`). An item callback that displays another page of the menu being drawn empties the text
   (`newmenus.cpp:358`) and writes its own page; the outer display goes on behind it. The player sees lines of both pages with
   the keys and the page number of the outer one (lines 320-323), so a key written beside an item of the inner page
   selects another. `newmenus.inc:108` calls the handler's parameter the "Item the client selected."
4. Bots (`ExtPlayers`). The hooks of extension mode skip whoever has `FL_FAKECLIENT` (`meta_api.cpp:1160, 1596, 1743`), and no other
   code of the core takes their place; only the Metamod path emulates the calls (1883-1905). `amxmodx.inc:183` says of `client_authorized`: "This is
   called for bots, and the SteamID will be "BOT"."
5. The alerts of a failed open say that logging is off for this map (`amxxlog.cpp:548`), but `m_FoundError` stays set until a restart.

## 5. What TLAPS proves

For every value of the constants, under the named assumptions of the modules only.

**LogQueueProofs** (assumptions: finitely many producers, one of which is the game thread, ring size above 1, `NoPath`
is not a file):

- `SingleWriterAlways`, `RingIsFifoAlways`, `EveryLineAccountedAlways`: the three safety properties of
  `log`;
- `LogQueueImplementsChannel`: `Spec` implies `LogChannel`'s specification under the mapping at the end of
  `LogQueue`; that a line is refused only when the channel is full is part of it.

The inductive invariant `IInv` is `TypeOK`, `RingIsFifo` and two parts that the runs do not check on their own. `ArgIsOp`:
a producer that is handing a line over has one. `OneThread`: only the writer that `s_ktpALogThreadId` names is alive, it is gone
whenever the running flag is down and once the game thread has joined it, and the flag is up from the store of the stop flag
to the join. `SingleWriter` follows from `OneThread`, and could not be proved by itself: that `Spawn` makes no second writer
rests on what the flag says of the first, and that the flag can be cleared rests on the join. `RingIsFifo` then has a single line in a writer's
hands to speak of. The arithmetic of the ring is in two lemmas, `PushRing` and `TakeRing` (how many slots are used, and which slot is the k-th
after the tail), so that no step of the specification expands it. `EveryLineAccounted` is a sum, preserved by a lemma
that says how each step changes `HandingOver` and the counters.

**CLogProofs** (assumptions: a ring of at least one line, settings are numbers, modes Booleans, the bounds are numbers):

- `FileOrderAlways`, `OneSessionPerFileAlways`, `ErrorsHaveHeaderAlways`, `NothingLostSilentlyAlways`: all the properties of
  `clog_faults`, with the exceptions of section 4 and no others.

A handler of `CLog` is a composition of operators, so the invariant is stated of any state `s` of a handler and the lines `W` on
their way (`Sound(s, W, c)`), and proved to hold between any two steps of one. It says: nothing is on its way without a
writer, nor in the direct mode unless a map change bypassed the queue (`Idle`); errors are in the error log, headers and
closing lines in per-map files (`KindsFit`); the per-map files that lines are on their way to exist (`Created`), which is why a name found free
is nobody's, and what `CreateNewFile` would break if it left the creation to the writer; one session per file
(`Sessions`); of two lines of a file the one before has the smaller number (`Ordered`, over the relation `Before`, which speaks of disk and queue together and does not change when the writer takes a
line from one to the other); errors are covered (`Headed`). What a handler must hold only at its ends is apart: the file in use has no closing line (`Unclosed`),
the latch `m_LoggedErrMap` implies a header that is given (`Latched`). All ways in which a line goes out, through the queue or directly, are one relation `Put`, and
`PutSound` is proved once for it; the handlers follow by composing (`LogPut`, `CreateNewFileSound`, `CloseFileSound`, `MapChangeSound`). That
`CreateNewFile` finds a name at all is a pigeonhole argument (`SomeNameFree`) and the choice of the first one the least element of a set of
naturals (`Least`). `NothingLostSilently` compares a count with the cardinality of the numbers of kept lines: a step that adds a new number adds one, one that loses lines takes away at
most as many as it lost (`NumbersLost`), and the sums are lemmas of their own.

**ForwardCallsProofs**, first part, the registry `SPForwards` (assumptions: finitely many holders, a bound on the slots, `None` is not a function):

- `HandlesDenoteAlways`, `RegistryExactAlways`: two invariants of `forwards`;
- `SPForwardsImplementTable`: `Spec` implies `HandleTable`'s specification.

Here the conjunction of the properties is itself the inductive invariant, with `SlotsHaveKeys` added (a slot in use has a function):
sharing relies on the counts, recycling on the exactness of the free stack (or two registrations would get one slot), and
the completion of a release on the equivalence "no holder left = to be deleted". One lemma per action, then one
theorem `Invariance`.

Second part, the calls (in addition: a table of arrays that is not empty, and each multi-forward has some number of plugins):

- `CallsKeepRegistry`: `CallSpec` implies `SPForwards`' specification, since each step of a call is one of the registry or
  leaves it alone. So everything proved of the registry holds under calls of all kinds (`HandlesDenoteUnderCalls`,
  `RegistryExactUnderCalls`, `CallsImplementTable`);
- `ArraysAreOwnAlways`: an index that is safe is below the counter and its entry holds its array. That is inductive as it stands: a
  new index is the counter, so above all that are safe, and a return leaves none safe.

**TaskMngrProofs** (assumptions: a bound on the vector, each id has a set of kinds, intervals and repeats are integers):

- `TasksKept` (`BookedTasksKept`), `CallsExact` (`RepeatsExact`), `HintExact`, whatever clears the vector and when;
- `CountsExact` (`CountersExact`), `CalleesExist`, `ExecutingExact` (`ExecutingOnce`), under the hypothesis `~SharesClear`.

The hypothesis is the finding of `task_nested`: with a clear that nested frames share the three are false, and TLC shows it. The
invariant ties the stack of frames to the vector: every frame but the innermost waits in a call, and a slot is marked
executing exactly if one frame with a live vector calls it (`FramesNest`, `CallsMatch`); slots the vector has not reached
are blank; a task's calls made and left add up to those asked for, one more while it executes (`CallsCounted`); `booked` is a cardinality
(`BookingsKept`). Without shared clears, in addition, a deferred clear belongs to the only frame there is (`ClearIsOurs`), and `m_ActiveCount` is the
number of tasks set or executing, plus those a deferred clear destroyed (`CountExact`).

**ModulesProofs** has the two loadable modules, in two parts that share nothing. For `SqlWorker` (assumptions: the bounds are numbers, "no query" is not a query):

- `OnePlace` (`ObjectsInOnePlace`), `CalledOnce` (`AnsweredOnce`), `NothingLeftOver` (`NothingOutlivesPlugins`).

`WorkerFollows` and `GameLeads` say where each of the two threads can be while the other is where it is, and which piles are then empty:
a joined worker has left an empty queue, and the plugins go only after the results have been delivered. `InOnePlace`
says that the five piles are disjoint and hold every object once; `PendingDiffer` and `Answers` that objects still to be
handed out carry different queries and that the accepted queries that nobody carries are those answered, from which `AnsweredOnce` follows.

For `NVault` (assumptions `VaultAssumption`: the bounds are numbers, the clock can reach 1; `MisreadAssumption`: bytes out of frame read as
records; nothing is assumed of keys and values):

- `JournalCovers` (`JournalCoversSession`), `VaultRecovers` (`RecoversAState`): both properties of `vault`, for journals of any length.

`Replay` is a recursive function over the records. That such a function exists, and that journals which agree on their first n records
make the same of them, is shown by induction (`RunExists`, `AfterAgrees`); `ReplayAppend` and `ReplayPrefix` follow, which is all that appending
and a crash need. The induction is that of `UpTo`, over a set of numbers and from the least element of a set
(`WFMin`), since the induction theorems of the library take an operator as parameter, which the provers cannot instantiate.
The invariant: a saved file is the map; the journal leads to the map; each prefix of it leads to a map in `past`; and a
closed vault opens with one in `past`. Recovery after a crash rests on the second to keep the third.

**MenusProofs** (assumptions `MenusAssumption`: the numbers are numbers, up to seven items per page as `menu_setprop` enforces, "nobody" is
not a player, finitely many slots; `ShapesAssumption`: `Shapes` has menus):

- `ToldExactlyOnce` (`HandlerToldOnce`), `ScreensHaveMenus` (`IdsDenote`),
  and `NativesFindTheirs`, the invariant a reader of the natives should know;
- `PagesHonest`: `GetTextString` and `PagekeyToItem` agree about every key of every orderly page of every menu, with any number of items and
  blanks; `ShapesHonest` is its instance for the property `PagesAreHonest`;
- `KeysMeanTheSame` (`KeysKeepMeaning`).

Ids are used again and natives keep pointers, so the invariant speaks of allocations: two live menus are two
(`AllocationsDiffer`), and the menu a waiting native draws can be found under the id it took or not at all (`Placed`). A `menu_destroy` in
progress finds its menu there and dying, with nobody it has visited looking at it, and no native above it on the stack draws or destroys that
menu (`DestroysApart`): that is what the flag `isDestroying` is for, and what keeps a menu from being freed twice.

The pages are arithmetic. Blanks are counted by sums (`Sums`, a recursive function that is shown to exist and to grow by the
induction of `UpTo`); the page a number denotes is settled by a lemma about division (`PagesOf`), one case for each number of items per page. Then one
lemma for each way `PagekeyToItem` takes (`SinglePageMeant`, `FirstPageMeant`, `MiddlePageMeant`, `LastPageMeant`) and two for what is drawn
(`EndOfItems`: items and padding end where Back begins; `DrawnFits`). The last page with numbered blanks searches for the first item that
uses up the key; it finds the right one since what is used grows strictly from item to item (`UsedGrows`).

A page is drawn at one time and its key pressed at another, when the menu may have more items and a last page may have become a middle
one. `KeysKeepMeaning` is therefore proved from a stronger fact: what is drawn `Fits` the menu, which says where the
keys are without saying which page is the last, and stays true when items are added (`FitsExtended`). `LegendsFit` says so of every line of screens and of texts being
written, for the page the line was written for (`TextInvariant` has that the texts are of that form), next to `IInv`, which gives that the id of either is still that of the same menu.

**CvarsProofs** (assumptions: values and bounds are natural numbers, the default is a value, `Printed` maps a bound to a value, and
to itself when it is one; some depth of calls is allowed):

- `HooksHearLatestAlways`, `VariablesMirrorAlways`, `BoundsHoldAlways`, and `TypeCorrect`.

`HooksHearLatest` speaks of the moments when no hook runs, so its invariant `Hears` has to say what holds in between: an enabled hook
knows the value, or a walk on the stack will still come to it (it is `Owed`). The innermost walk calls with the value of
now and not with the one it began with, so a hook told by it knows the latest; a hook before its position was told by an earlier
one, and told again if the value changed since. The rest is about who may hang on a cvar: `DetourServes` (hooks and bindings
imply that the detour is on and the cvar cached), `BoundsAreManaged` and `CreatingIsManaged` (only cached cvars of
`Managed` have bounds, also while `create_cvar` is half done), `Mirrors` (a bound variable has the value).
`LandingInside` says that where the recursion of the clamping ends is inside sound bounds, `WalkStep` what a walk does to the
hooks it owes; then one lemma per action.

**ExtPlayersProofs** (assumptions: finitely many slots, a positive threshold, a clock that can reach beyond it):

- `PlayersCountedAlways`, `HeardMatchesSessionAlways`, `NobodyForgottenAlways`, `LifecyclePairedAlways`, `FlagIsWatchedAlways`:
  all the properties of the run `players`.

The invariant adds what holds between two maps (`LoadsEmpty`: the count is zero, nobody is in the game, nothing was heard), because `Reload`
resets the players but not the count; that the drop hook is on while a map runs (`RunsHooked`); that the mask
is empty before the first map (`MaskStartsEmpty`), because `FirstActivate` does not clear it; and
that a `CPlayer` and what was heard of its client agree field by field (`StoriesAgree`, from which `HeardMatchesSession`
follows). For the watchdog, `WatchSound` says when `latchedAt` may be out of date: after the flag was set and before
the next frame, with a value that is left over from an earlier map and then lies in the new map's future, or is the present. One lemma per
operator on a slot, one per part of the invariant with one step per action.

**Only model-checked.** Liveness (`AcceptedIsDisposedOf`, `DrainedWhenJoined`, `ShutdownReturns`, `DueTaskRuns`, `QueriesAnswered`): TLAPS does
not handle `ENABLED`. Every invariant and action property of the passing runs is stated by a theorem.

## 6. What is not modelled

- The text of lines, the byte layout of vault and journal (a key of 256 or more characters misframes them,
  `Journal.cpp:246`: the length is one byte), parameters and results of plugin functions.
- `CForwardMngr::clear` and the unloading of plugins with calls on the stack (`CForward.cpp:803`): the plugin's memory is
  freed in the same call, so nothing can be said of what follows.
- Calls with an index of -1, which `prepareArray` returns when its table is full and which `CForward::execute` then uses; strings and
  references as parameters, whose storage is the call's own; results of plugins other than that they stop a forward.
- In `Menus` the old menus (`CMenu.cpp`), `menu_setprop` after the creation, blanks added while a menu runs, and the Metamod
  twin of the key handler (`meta_api.cpp:2005-2105`, the same code as 3788-3858).
- In `Cvars` flags, descriptions and default values, the types of bound variables, paused plugins, a map change inside a
  hook, handles of hooks kept from an earlier map, and the queries of clients' cvars.
- The table of vault ids that plugins share; the leak of a query object's old forward.
- The Metamod hooks of players and maps; the messages, commands and user info of clients.
- Components with status `not_modelled` in `PROJECT.json`, each with its reason.

## 7. Plan

1. *(done)* The log queue with its channel and proofs; `CLog`; single-plugin forwards with their table and proofs; tasks;
   nVault; SQL worker; players and map changes with proofs.
2. *(done)* One run of the log queue with module threads, liveness included; tasks in nested frames and across map changes,
   with `DueTaskRuns`; menus; cvars with proofs; multi-forwards and prepared arrays with proofs.
3. Model more:
   - the dispatch of messages to plugins (`CEvent.cpp`, `messages.cpp`): a message that is sent from a handler is parsed into the
     same buffers;
   - a composition of `TaskMngr` and `SPForwards`: each task holds one handle, from `set_task` to its end, and a map
     change releases all;
   - the ids of vaults that plugins share (`amxxapi.cpp:54`), and a crash inside `Open`.
4. *(done)* Prove more: the tasks, the SQL worker, the vault, the menus and their pages, `CLog`.
5. Prove next: that the channel `CLog` uses is `LogChannel`, several of whose steps one handler takes.

## 8. Running

In this directory, with TLC and TLAPS and the community modules on the library path:

    tlc -workers 2 -config LogQueue.cfg MCLogQueue
    tlapm LogQueueProofs.tla

`PROJECT.json` names the module and the configuration of each run, and for each definition the lines it models. The
longest runs (`forwards`, `menus`) take about two minutes with two workers.
