-------------------------------- MODULE Menus --------------------------------
(***************************************************************************)
(* Menus and their handlers (amxmodx/newmenus.cpp and the parts of         *)
(* amxmodx.cpp, CMisc.cpp, emsg.cpp and meta_api.cpp that open and close   *)
(* them).  The natives close menus by calling the plugin's handler and     *)
(* page and item callbacks, and those may create, display, cancel and      *)
(* destroy any menu before they return: frames is the stack of natives     *)
(* that wait for a callback, and plugin code runs when it is empty or its  *)
(* top is calling.                                                         *)
(*                                                                         *)
(* A menu is known by the id that plugins hold and by the allocation (obj) *)
(* the code's pointers refer to; ids are used again, allocations are not.  *)
(***************************************************************************)
EXTENDS MenuPages

CONSTANTS Players,
          MaxIds,      \* bound on g_NewMenus.length()
          MaxMade,     \* bound on the menus created between two clears
          Turning,     \* which of them get a page callback
          Asking,      \* and which get items with a callback
          MaxItems,    \* bound on the items of a menu
          PerPage,     \* items_per_page of a new menu, 7 in the code
          MaxLoops,    \* the limit of CloseNewMenus, 10 in the code
          MaxDepth,    \* bound on the nesting of callbacks
          Shapes,      \* menus with blanks, to compare what is drawn and what is read
          Nobody

ASSUME MenusAssumption ==
  /\ MaxIds \in Nat /\ MaxMade \in Nat /\ MaxItems \in Nat /\ PerPage \in 0 .. 7
  /\ MaxLoops \in Nat \ {0} /\ MaxDepth \in Nat \ {0} /\ Nobody \notin Players

Id == 0 .. MaxIds - 1
Obj == 1 .. MaxMade

\* menu_setprop takes up to seven items per page.
Records == [obj : 0 .. MaxMade, items : Seq(Items), per : 0 .. 7, never : BOOLEAN,
            force : BOOLEAN, dying : BOOLEAN]

ASSUME ShapesAssumption == Shapes \subseteq Records

VARIABLES
  len,      \* g_NewMenus.length()
  menu,     \* g_NewMenus: id -> menu
  freeIds,  \* g_MenuFreeStack
  made,     \* number of menus created
  ingame,   \* players in the game
  screen,   \* player -> newmenu, page and keys, and the text that was sent
  text,     \* menu -> m_Text
  frames,   \* natives in progress
  waiting,  \* history: player -> displays whose handler is still to be told
  extra,    \* history: a handler was told of a display that was over
  stale     \* history: how a native came to use a deleted menu, or "no"

tableVars == <<len, menu, freeIds, made>>
histVars == <<waiting, extra, stale>>
vars == <<tableVars, ingame, screen, text, frames, histVars>>

\* NULL in g_NewMenus, and a new menu.
NoMenu == [obj |-> 0, items |-> <<>>, per |-> 0, never |-> FALSE, force |-> FALSE,
           dying |-> FALSE]
NewMenu(o) == [NoMenu EXCEPT !.obj = o, !.per = PerPage]

\* newmenu = -1.  The field page keeps the last page displayed.
Blank(pg) == [id |-> -1, page |-> pg, keys |-> {}, text |-> {}]

\* get_menu_by_id, and GETMENU, which refuses a menu that is being destroyed.
Live(id) == id \in Id /\ id < len /\ menu[id] # NoMenu
Usable(id) == Live(id) /\ ~menu[id].dying

\* The menu a player has on the screen, as a set of at most one.
Shown(p) == {menu[i].obj : i \in {j \in {screen[p].id} : Live(j)}}

Top == frames[Len(frames)]
Below == SubSeq(frames, 1, Len(frames) - 1)
Instead(f) == Append(Below, f)

\* Plugin code runs, or nothing; a native goes on when its callback returns.
Quiet == stale = "no" /\ frames = <<>>
Idle == stale = "no" /\ (frames # <<>> => Top.calling)
Resumes(op) == stale = "no" /\ frames # <<>> /\ Top.op = op

\* A frame is a native: op says which, for player p, menu id and allocation obj,
\* and page (the way to turn it in "turn"), with the keys of the page and what it
\* writes beside them; n counts the rounds of its loop and todo has the players it
\* will still look at.
Frame(op, p, id, obj, pg) ==
  [op |-> op, p |-> p, id |-> id, obj |-> obj, page |-> pg, legend |-> {}, n |-> 0,
   todo |-> {}, calling |-> FALSE]

\* The frame of a native that has nothing left to do after its callback.
LastCall == [Frame("close", Nobody, -1, 0, 0) EXCEPT !.calling = TRUE]
Callback(f) == [f EXCEPT !.calling = TRUE]

CanNest == Len(frames) < MaxDepth

Init == /\ len = 0 /\ menu = [i \in Id |-> NoMenu] /\ freeIds = <<>> /\ made = 0
        /\ ingame = {}
        /\ screen = [p \in Players |-> Blank(0)] /\ text = [o \in Obj |-> {}]
        /\ frames = <<>>
        /\ waiting = [p \in Players |-> {}] /\ extra = FALSE /\ stale = "no"

-----------------------------------------------------------------------------
(* Telling the handler, and Close *)

\* The handler of allocation o is called for player p.
Told(p, o) ==
  /\ waiting' = [waiting EXCEPT ![p] = @ \ {o}]
  /\ extra' = (extra \/ o \notin waiting[p])
  /\ UNCHANGED stale

CloseAfterwards(p, fs) ==
  /\ Told(p, menu[screen[p].id].obj)
  /\ frames' = fs
  /\ UNCHANGED <<tableVars, ingame, screen, text>>

\* Menu::Close: the player has no menu any more when the handler is called.  fs is
\* the stack during the call.
Close(p, fs) ==
  /\ Told(p, menu[screen[p].id].obj)
  /\ screen' = [screen EXCEPT ![p] = Blank(@.page)]
  /\ frames' = fs
  /\ UNCHANGED <<tableVars, ingame, text>>

\* menu_cancel, and get_user_menu when the time of the menu is up.
MenuCancel(p) ==
  /\ Idle /\ CanNest /\ p \in ingame /\ Live(screen[p].id)
  /\ Close(p, Append(frames, LastCall))

Closed == /\ Resumes("close")
          /\ frames' = Below
          /\ UNCHANGED <<tableVars, ingame, screen, text, histVars>>

-----------------------------------------------------------------------------
(* menu_create, menu_additem *)

\* A free id is taken off the stack, or the table grows.
MenuCreate ==
  /\ Idle /\ made < MaxMade
  /\ IF freeIds = <<>>
     THEN /\ len < MaxIds
          /\ menu' = [menu EXCEPT ![len] = NewMenu(made + 1)]
          /\ len' = len + 1
          /\ UNCHANGED freeIds
     ELSE /\ menu' = [menu EXCEPT ![freeIds[Len(freeIds)]] = NewMenu(made + 1)]
          /\ freeIds' = SubSeq(freeIds, 1, Len(freeIds) - 1)
          /\ UNCHANGED len
  /\ made' = made + 1 /\ text' = [text EXCEPT ![made + 1] = {}]
  /\ UNCHANGED <<ingame, screen, frames, histVars>>

MenuAddItem(id) ==
  /\ Idle /\ Usable(id) /\ Count(menu[id]) < MaxItems
  /\ menu' = [menu EXCEPT ![id].items = Append(@, [on |-> TRUE, nums |-> 0, lines |-> 0])]
  /\ UNCHANGED <<len, freeIds, made, ingame, screen, text, frames, histVars>>

-----------------------------------------------------------------------------
(* Menu::Display *)

\* The text of menu o matters while a native below the top is drawing it.
Drafting(o) == \E k \in 1 .. Len(frames) - 1 : frames[k].op = "text" /\ frames[k].obj = o

\* The page goes on the screen, over whatever a callback has put there: the keys
\* are those of this native, the text is what was in m_Text before and what it has
\* written there.  Gone are the displays that get lost besides.
Show(f, before, gone) ==
  LET said == before \cup ({f.page} \X f.legend)
  IN  /\ screen' = [screen EXCEPT ![f.p] = [id |-> f.id, page |-> f.page,
                                           keys |-> {l[1] : l \in f.legend}, text |-> said]]
      /\ text' = [text EXCEPT ![f.obj] = IF Drafting(f.obj) THEN said ELSE {}]
      /\ waiting' = [waiting EXCEPT ![f.p] = (@ \ (Shown(f.p) \cup gone)) \cup {f.obj}]
      /\ frames' = Below
      /\ UNCHANGED <<tableVars, ingame, extra, stale>>

\* The native on top is over, and displays that are not on the screen are lost.
GiveUp(gone) ==
  /\ frames' = Below
  /\ waiting' = [p \in Players |-> IF p = Top.p THEN waiting[p] \ (gone \ Shown(p)) ELSE waiting[p]]
  /\ UNCHANGED <<tableVars, ingame, screen, text, extra, stale>>

\* GetTextString refuses a page the menu does not have, empties m_Text, even if
\* another call is writing it, and asks the callbacks of the items on the page,
\* here all before it writes the first.
Display(f, m) ==
  LET drawn == [f EXCEPT !.op = "text", !.obj = m.obj, !.legend = Legend(m, f.page)]
  IN  IF f.page \notin 0 .. PageCount(m) - 1 THEN GiveUp({f.obj})
      ELSE IF m.obj \in Asking
      THEN /\ frames' = Instead(Callback(drawn))
           /\ text' = [text EXCEPT ![m.obj] = {}]
           /\ waiting' = [waiting EXCEPT ![f.p] = IF f.obj = m.obj THEN @ ELSE @ \ {f.obj}]
           /\ UNCHANGED <<tableVars, ingame, screen, extra, stale>>
      ELSE Show(drawn, {}, {f.obj})

\* A native goes on with a menu that was deleted during its callback.
UseDeleted(how) ==
  /\ stale' = how
  /\ UNCHANGED <<tableVars, ingame, screen, text, frames, waiting, extra>>

\* The rest of GetTextString and of Display, on the menu it was called on.
Drawn ==
  /\ Resumes("text")
  /\ IF Live(Top.id) /\ menu[Top.id].obj = Top.obj THEN Show(Top, text[Top.obj], {})
                                                  ELSE UseDeleted("item callback")

-----------------------------------------------------------------------------
(* menu_display and show_menu, around CloseNewMenus *)

MenuDisplay(p, id, pg) ==
  /\ Idle /\ CanNest /\ Usable(id) /\ p \in ingame
  /\ frames' = Append(frames, Frame("display", p, id, menu[id].obj, pg))
  /\ UNCHANGED <<tableVars, ingame, screen, text, histVars>>

ShowMenu(p) ==
  /\ Idle /\ CanNest /\ p \in ingame
  /\ frames' = Append(frames, Frame("show", p, -1, 0, 0))
  /\ UNCHANGED <<tableVars, ingame, screen, text, histVars>>

\* One round of CloseNewMenus: a handler may have put up another menu to close.
MoreToClose(f) == f.n < MaxLoops /\ Live(screen[f.p].id)
Round(f) == Close(f.p, Instead(Callback([f EXCEPT !.n = @ + 1])))

\* menu_display closes what the player has on the screen; then, unless the slot of
\* its menu is empty, it goes on with the pointer it took before.
GoOnDisplaying ==
  LET f == Top
  IN  /\ Resumes("display")
      /\ IF MoreToClose(f) THEN Round(f)
         ELSE IF f.n = MaxLoops \/ ~Live(f.id) THEN GiveUp({})
         ELSE IF menu[f.id].obj = f.obj THEN Display(f, menu[f.id])
         ELSE UseDeleted("id in use again")

\* show_menu does the same before it shows a menu that no handler is told of.
GoOnShowing ==
  LET f == Top
  IN  /\ Resumes("show")
      /\ IF MoreToClose(f) THEN Round(f)
         ELSE /\ frames' = Below
              /\ screen' = [screen EXCEPT ![f.p].page = IF f.n = MaxLoops THEN @ ELSE 0]
              /\ UNCHANGED <<tableVars, ingame, text, histVars>>

-----------------------------------------------------------------------------
(* menu_destroy *)

DestroyTwice(id) ==
  /\ Idle /\ CanNest /\ Live(id)
  /\ frames' = Append(frames, [Frame("destroy", Nobody, id, menu[id].obj, 0) EXCEPT !.todo = Players])
  /\ menu' = [menu EXCEPT ![id].dying = TRUE]
  /\ UNCHANGED <<len, freeIds, made, ingame, screen, text, histVars>>

MenuDestroy(id) ==
  /\ Idle /\ CanNest /\ Usable(id)
  /\ frames' = Append(frames, [Frame("destroy", Nobody, id, menu[id].obj, 0) EXCEPT !.todo = Players])
  /\ menu' = [menu EXCEPT ![id].dying = TRUE]
  /\ UNCHANGED <<len, freeIds, made, ingame, screen, text, histVars>>

\* The slot is emptied and its id set free.
Delete(id) ==
  /\ menu' = [menu EXCEPT ![id] = NoMenu]
  /\ freeIds' = Append(freeIds, id)
  /\ frames' = Below
  /\ UNCHANGED <<len, made, ingame, screen, text, histVars>>

Viewers(f) == {q \in f.todo : screen[q].id = f.id}

\* The menu is closed for one viewer after the other, in some order, and deleted
\* after the last.
GoOnDestroying ==
  LET f == Top
  IN  /\ Resumes("destroy")
      /\ IF Viewers(f) = {} THEN Delete(f.id)
         ELSE \E q \in Viewers(f) :
                Close(q, Instead(Callback([f EXCEPT !.todo = @ \ {q}])))

-----------------------------------------------------------------------------
(* menuselect *)

\* A key of a menu whose time is up closes it.
SelectLate(p) ==
  /\ Quiet /\ Live(screen[p].id) /\ screen[p].keys # {}
  /\ Close(p, <<LastCall>>)

\* The handler is told which item was chosen, or the page callback which way the
\* player turns the page.  The menu is off the screen during either.
Select(p, key) ==
  LET s == screen[p]
      m == menu[s.id]
      item == PagekeyToItem(m, s.page, key)
      turn == Frame("turn", p, s.id, m.obj, IF item = MENU_BACK THEN -1 ELSE 1)
  IN  /\ Quiet /\ Live(s.id) /\ key \in s.keys
      /\ screen' = [screen EXCEPT ![p] = Blank(@.page)]
      /\ IF item \in {MENU_BACK, MENU_MORE}
         THEN /\ frames' = <<IF m.obj \in Turning THEN Callback(turn) ELSE turn>>
              /\ UNCHANGED histVars
         ELSE /\ frames' = <<LastCall>>
              /\ Told(p, m.obj)
      /\ UNCHANGED <<tableVars, ingame, text>>

\* The id and the page are looked up again after the page callback, and the page
\* next to it of the menu that the id denotes now, if any, is displayed.
GoOnTurning ==
  LET f == [Top EXCEPT !.page = screen[Top.p].page + @]
  IN  /\ Resumes("turn")
      /\ IF Live(f.id) THEN Display(f, menu[f.id]) ELSE GiveUp({f.obj})

-----------------------------------------------------------------------------
(* Players, the game and map changes *)

Join(p) ==
  /\ Quiet /\ p \notin ingame
  /\ ingame' = ingame \cup {p}
  /\ screen' = [screen EXCEPT ![p] = Blank(@.page)]
  /\ UNCHANGED <<tableVars, text, frames, histVars>>

\* CPlayer::Disconnect: the player is out of the game when the handler is told.
Leave(p) ==
  /\ Quiet /\ p \in ingame
  /\ ingame' = ingame \ {p}
  /\ screen' = [screen EXCEPT ![p] = Blank(@.page)]
  /\ IF Live(screen[p].id)
     THEN /\ Told(p, menu[screen[p].id].obj)
          /\ frames' = <<Callback(Frame("leave", p, -1, 0, 0))>>
     ELSE UNCHANGED <<frames, histVars>>
  /\ UNCHANGED <<tableVars, text>>

\* The rest of CPlayer::Disconnect.
Left ==
  /\ Resumes("leave")
  /\ screen' = [screen EXCEPT ![Top.p] = Blank(@.page)]
  /\ frames' = Below
  /\ UNCHANGED <<tableVars, ingame, text, histVars>>

\* The game shows the player a menu of its own.
Client_ShowMenu(p) ==
  /\ Idle /\ p \in ingame
  /\ screen' = [screen EXCEPT ![p] = Blank(@.page)]
  /\ waiting' = [waiting EXCEPT ![p] = @ \ Shown(p)]
  /\ UNCHANGED <<tableVars, ingame, text, frames, extra, stale>>

\* KTPAMX_ReloadPlugins deletes all menus and starts the players afresh.
ClearMenus ==
  /\ Quiet
  /\ len' = 0 /\ menu' = [i \in Id |-> NoMenu] /\ freeIds' = <<>> /\ made' = 0
  /\ ingame' = {} /\ screen' = [p \in Players |-> Blank(screen[p].page)]
  /\ text' = [o \in Obj |-> {}] /\ waiting' = [p \in Players |-> {}]
  /\ UNCHANGED <<frames, extra, stale>>

-----------------------------------------------------------------------------
Native ==
  \/ MenuCreate
  \/ \E id \in Id : MenuAddItem(id) \/ MenuDestroy(id)
  \/ \E p \in Players : \/ MenuCancel(p) \/ ShowMenu(p)
                        \/ \E id \in Id, pg \in 0 .. MaxItems - 1 : MenuDisplay(p, id, pg)

GoOn == Closed \/ Drawn \/ GoOnDisplaying \/ GoOnShowing \/ GoOnDestroying
        \/ GoOnTurning \/ Left

Client == \E p \in Players : \/ SelectLate(p) \/ \E key \in 1 .. LastKey : Select(p, key)
                             \/ Join(p) \/ Leave(p) \/ Client_ShowMenu(p)

Next == Native \/ GoOn \/ Client \/ ClearMenus

Spec == Init /\ [][Next]_vars

-----------------------------------------------------------------------------
(* Properties *)

Ops == {"close", "text", "display", "show", "destroy", "turn", "leave"}
FrameTyped(f) ==
  /\ f.op \in Ops /\ f.p \in Players \cup {Nobody} /\ f.id \in Id \cup {-1}
  /\ f.obj \in 0 .. MaxMade /\ f.page \in Int /\ f.todo \subseteq Players

StateOK ==
  /\ len \in 0 .. MaxIds /\ made \in 0 .. MaxMade
  /\ menu \in [Id -> Records]
  /\ \A i \in Id : menu[i] = NoMenu \/ menu[i].obj \in Obj
  /\ freeIds \in Seq(Id)
  /\ ingame \subseteq Players
  /\ \A p \in Players : screen[p].id \in Id \cup {-1} /\ screen[p].page \in Nat
  /\ \A k \in 1 .. Len(frames) : FrameTyped(frames[k])
  /\ waiting \in [Players -> SUBSET Obj]
  /\ extra \in BOOLEAN

\* A line of m_Text: the page it is of, a key, and what the key is said to do.
Line == Nat \X (Nat \X Int)
TextOK == text \in [Obj -> SUBSET Line]

TypeOK == StateOK /\ TextOK

\* A display that is neither over nor on the screen: the page is being drawn or
\* turned.
InTransit(p) == {frames[k].obj : k \in {j \in 1 .. Len(frames) :
                   frames[j].p = p /\ frames[j].op \in {"turn", "text"}}}

\* The handler "will be invoked once and only once to every menu_display() call"
\* (newmenus.inc:119): what is on a screen waits for its handler, no handler is
\* told of a display twice, and none of a display that is off the screen, except
\* those that slip away when the game's own menu or a display from a page or
\* item callback takes the screen, or when the menu is gone after its page
\* callback.
HandlerToldOnce ==
  /\ ~extra
  /\ \A p \in Players : /\ Shown(p) \subseteq waiting[p]
                        /\ waiting[p] \subseteq Shown(p) \cup InTransit(p)

\* An id is free exactly when its slot is empty, and is free once, however the
\* handlers of a dying menu try to destroy it again ...
FreeIdsExact ==
  /\ \A k \in 1 .. Len(freeIds) : freeIds[k] < len /\ menu[freeIds[k]] = NoMenu
  /\ \A j, k \in 1 .. Len(freeIds) : freeIds[j] = freeIds[k] => j = k
  /\ \A i \in Id : i < len /\ menu[i] = NoMenu => \E k \in 1 .. Len(freeIds) : freeIds[k] = i

\* ... and an id on a screen is the id of a menu: none outlives its menu, to turn
\* up later as the id of another.
IdsDenote ==
  /\ TypeOK /\ FreeIdsExact
  /\ stale = "no" => \A p \in Players : screen[p].id # -1 => Live(screen[p].id)

\* What a player reads beside a key that works, of page pg, is what the key does.
Means(p, pg) ==
  \A l \in screen[p].text :
    l[1] = pg /\ l[2][1] \in screen[p].keys =>
      PagekeyToItem(menu[screen[p].id], screen[p].page, l[2][1]) = l[2][2]

\* What the page on a screen says its keys do is what they do when they are
\* pressed, whatever items the menu got in the meantime, and though other displays
\* of the menu write into the same text while its items are asked.
KeysKeepMeaning ==
  \A p \in Players : Live(screen[p].id) => Means(p, screen[p].page)

\* "item - Item the client selected" (newmenus.inc:108): the same of every line
\* that is on the screen, those of another page included.  This is false: no run
\* checks it, TLC refutes it on the instance of Menus.cfg.
ShownIsSelected ==
  \A p \in Players, pg \in 0 .. MaxItems : Live(screen[p].id) => Means(p, pg)

\* After menu_destroy "future attempts to access the menu resource will result in
\* an error" (newmenus.inc:273): menu_display does not go on with a menu that a
\* handler or an item callback it called has destroyed.  This is false as well.
DestroyedIsNoticed == stale = "no"

\* The same of every page of the menus in Shapes: GetTextString and PagekeyToItem
\* agree, whatever the number of items per page and the exit setting, on menus
\* without blanks, and with blanks wherever an orderly page has them.  It is a
\* fact about Shapes, looked at while there is neither a menu nor a player.
PagesAreHonest ==
  made = 0 /\ ingame = {} =>
    \A m \in Shapes : \A pg \in 0 .. PageCount(m) - 1 : Orderly(m, pg) => Honest(m, pg)

=============================================================================
