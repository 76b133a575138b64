------------------------------ MODULE MenuPages ------------------------------
(***************************************************************************)
(* The pages of a menu (amxmodx/newmenus.cpp): what Menu::GetTextString    *)
(* writes beside each key of a page, and what Menu::PagekeyToItem makes of *)
(* the key when the client presses it.  The two are written independently  *)
(* of each other, in one pass over the items each.                         *)
(*                                                                         *)
(* A menu is [items, per, never, force].  An item is [on, nums, lines]:    *)
(* whether the player may choose it, and how many of the blanks added      *)
(* after it take a number and how many do not.  Items count from 0 and     *)
(* keys from 1, as in the code.                                            *)
(***************************************************************************)
EXTENDS Integers, Sequences, FiniteSetsExt

MENU_EXIT == -3
MENU_BACK == -2
MENU_MORE == -1

\* Clients have ten keys.
LastKey == 10

Items == [on : BOOLEAN, nums : Nat, lines : Nat]

Least(a, b) == IF a < b THEN a ELSE b
Floor0(a) == IF a > 0 THEN a ELSE 0

Count(m) == Len(m.items)
Item(m, i) == m.items[i + 1]

PageCount(m) ==
  IF m.per = 0 THEN 1
  ELSE Count(m) \div m.per + (IF Count(m) % m.per = 0 THEN 0 ELSE 1)

\* The sums of the first 0, 1, 2 .. n values of f.
Sums(f, n) == LET s[k \in 0 .. n] == IF k = 0 THEN 0 ELSE s[k - 1] + f[k] IN s

\* Blanks with a number, and without, after the items i .. j - 1.
Nums(m, i, j) ==
  LET s == Sums([k \in 1 .. Count(m) |-> m.items[k].nums], Count(m)) IN s[j] - s[i]
Lines(m, i, j) ==
  LET s == Sums([k \in 1 .. Count(m) |-> m.items[k].lines], Count(m)) IN s[j] - s[i]

-----------------------------------------------------------------------------
(* GetTextString *)

First(m, page) == page * m.per
After(m, page) == IF m.per = 0 THEN Least(Count(m), LastKey)
                  ELSE Least(First(m, page) + m.per, Count(m))

HasBack(m, page) == page > 0
HasMore(m, page) == First(m, page) + m.per < Count(m)
HasExit(m) == \/ m.per # 0 /\ ~m.never
              \/ m.force /\ Count(m) < LastKey

ItemKey(m, page, i) == i - First(m, page) + Nums(m, First(m, page), i) + 1

\* The last key used by the items and the padding below them.
ItemsEnd(m, page) ==
  LET from == First(m, page)
      used == After(m, page) - from + Nums(m, from, After(m, page))
  IN  used + Floor0(m.per - used - Lines(m, from, After(m, page)))

BackKey(m, page) == ItemsEnd(m, page) + 1
MoreKey(m, page) == ItemsEnd(m, page) + 2
ExitKey(m, page) == ItemsEnd(m, page) + (IF m.per = 0 THEN 1 ELSE 3)

\* The keys of a page with what is written beside them.
Legend(m, page) ==
  {<<ItemKey(m, page, i), i>> :
     i \in {j \in First(m, page) .. After(m, page) - 1 : Item(m, j).on}}
  \cup (IF m.per = 0 \/ PageCount(m) = 1 THEN {} ELSE
          (IF HasBack(m, page) THEN {<<BackKey(m, page), MENU_BACK>>} ELSE {})
          \cup (IF HasMore(m, page) THEN {<<MoreKey(m, page), MENU_MORE>>} ELSE {}))
  \cup (IF HasExit(m) THEN {<<ExitKey(m, page), MENU_EXIT>>} ELSE {})

-----------------------------------------------------------------------------
(* PagekeyToItem *)

OnSinglePage(m, key) == IF key > Count(m) THEN MENU_EXIT ELSE key - 1

OnFirstPageSwapped(m, key) ==
  LET k == Floor0(key - Nums(m, 0, Least(key - 1, Count(m))))
  IN  CASE k = m.per + 1 -> MENU_MORE
        [] k = m.per + 3 -> MENU_EXIT
        [] OTHER -> k - 1

\* The blanks of key - 1 items are taken off the key.
OnFirstPage(m, key) ==
  LET k == Floor0(key - Nums(m, 0, Least(key - 1, Count(m))))
  IN  CASE k = m.per + 2 -> MENU_MORE
        [] k = m.per + 3 -> MENU_EXIT
        [] OTHER -> k - 1

OnMiddlePage(m, page, key) ==
  LET from == First(m, page)
      k == Floor0(key - Nums(m, from, Least(from + m.per - 1, Count(m))))
  IN  CASE k = m.per + 1 -> MENU_BACK
        [] k = m.per + 2 -> MENU_MORE
        [] k = m.per + 3 -> MENU_EXIT
        [] OTHER -> from + k - 1

OnLastPageLate(m, page, key) ==
  LET from == First(m, page)
      rest == Count(m) - from
      Used(j) == j + Nums(m, from, from + j)
      reached == {j \in 0 .. rest - 1 : Used(j) >= key}
  IN  CASE reached # {} -> from + Min(reached)
        [] reached = {} /\ Used(rest) < key /\ key = m.per + 1 -> MENU_BACK
        [] reached = {} /\ Used(rest) < key /\ key = m.per + 3 -> MENU_EXIT
        [] OTHER -> from + rest - 1

\* Items and their blanks use up the key until an item is reached with at most
\* one left of it; a key that is left over belongs to Back or Exit.
OnLastPage(m, page, key) ==
  LET from == First(m, page)
      rest == Count(m) - from
      Used(j) == j + Nums(m, from, from + j)
      reached == {j \in 0 .. rest - 1 : Used(j) >= key - 1}
  IN  CASE reached # {} -> from + Min(reached)
        [] reached = {} /\ Used(rest) < key /\ key = m.per + 1 -> MENU_BACK
        [] reached = {} /\ Used(rest) < key /\ key = m.per + 3 -> MENU_EXIT
        [] OTHER -> from + rest - 1

PagekeyToItem(m, page, key) ==
  CASE PageCount(m) = 1 -> OnSinglePage(m, key)
    [] PageCount(m) # 1 /\ page = 0 -> OnFirstPage(m, key)
    [] PageCount(m) # 1 /\ page # 0 /\ page = PageCount(m) - 1 -> OnLastPage(m, page, key)
    [] OTHER -> OnMiddlePage(m, page, key)

-----------------------------------------------------------------------------
\* Blanks that the code can cope with: those with a number only on the last of
\* several pages and if everything fits there, the others only elsewhere.
Orderly(m, page) ==
  LET last == PageCount(m) > 1 /\ page = PageCount(m) - 1
      nums == Nums(m, 0, Count(m))
  IN  \/ nums = 0 /\ (last => Lines(m, First(m, page), Count(m)) = 0)
      \/ /\ last /\ Lines(m, First(m, page), Count(m)) = 0
         /\ Count(m) - First(m, page) + Nums(m, First(m, page), Count(m)) <= m.per

\* Each key of a page selects what is written beside it.
Honest(m, page) ==
  \A l \in Legend(m, page) : l[1] <= LastKey => PagekeyToItem(m, page, l[1]) = l[2]

=============================================================================
