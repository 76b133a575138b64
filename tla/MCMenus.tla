------------------------------ MODULE MCMenus ------------------------------
(* Menus on a small instance.                                               *)
EXTENDS Menus, TLC

Symmetry == Permutations(Players)

\* The last page of a player without a menu is read only when a page is turned.
Turned(p) == \E k \in 1 .. Len(frames) : frames[k].op = "turn" /\ frames[k].p = p
Page(p) == IF screen[p].id = -1 /\ ~Turned(p) THEN 0 ELSE screen[p].page
View == <<tableVars, ingame, [p \in Players |-> [screen[p] EXCEPT !.page = Page(p)]],
          text, frames, histVars>>

\* Up to four items, two of them possibly with blanks, up to three on a page.
SomeItems == [on : BOOLEAN, nums : 0 .. 1, lines : 0 .. 1]
SmallMenus ==
  {m \in [items : UNION {[1 .. n -> SomeItems] : n \in 0 .. 4}, per : 0 .. 3,
          never : BOOLEAN, force : BOOLEAN, obj : {0}, dying : {FALSE}] :
     /\ \A i \in DOMAIN m.items : i \in {2, 3} => m.items[i].on
     /\ m.never => ~m.force}
=============================================================================
