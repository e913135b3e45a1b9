------------------------------- MODULE Window -------------------------------
(***************************************************************************)
(* The scrolling of ui/window.c: which row of a list is at the top of a     *)
(* window and which one is selected, after each command.                   *)
(*                                                                         *)
(* Rows are positions 1..n of a list of n rows, and 0 is the list's head:   *)
(* common/iter.h walks a ring of n + 1 places, and get_next and get_prev    *)
(* tell that they came to the head. A window is a record                   *)
(*     top, sel   positions                                                *)
(*     nr         nr_rows                                                  *)
(*     off        the option scroll_offset                                 *)
(* Every row of the lists of this program can be selected (no window sets   *)
(* "selectable"), which leaves out the loops that skip rows.               *)
(***************************************************************************)
EXTENDS Integers

ListHead == 0

Least(a, b) == IF a < b THEN a ELSE b
AtLeast0(a) == IF a < 0 THEN 0 ELSE a

\* d calls of get_next (get_prev if d < 0), and how many succeed in a row
Walk(p, d, n) == (p + d) % (n + 1)
RowsBelow(p, n) == n - p
RowsAbove(p, n) == IF p = ListHead THEN n ELSE p - 1

UpperBound(w) == Least(w.off, w.nr \div 2)
LowerBound(w) == Least(w.off, (w.nr - 1) \div 2)

\* window_new, then window_set_contents
FreshWindow(nr, off) == [top |-> ListHead, sel |-> ListHead, nr |-> nr, off |-> off]
SetContents(w, n) == [w EXCEPT !.top = Walk(ListHead, 1, n), !.sel = Walk(ListHead, 1, n)]

-----------------------------------------------------------------------------
(* window_changed: the list or the height has changed. *)

\* the distance from top to sel, with top moved to sel if sel is above it
Sighted(w) == IF w.sel = ListHead \/ w.sel < w.top THEN [w EXCEPT !.top = w.sel] ELSE w

\* the rows from sel to the edges are at least the scroll offset
ScrolledToSel(w, n) ==
    LET delta == w.sel - w.top
        down == AtLeast0(delta - (w.nr - UpperBound(w)) + 1)
        top == Walk(w.top, down, n)
        up == AtLeast0(Least(UpperBound(w) - (delta - down), RowsAbove(top, n)))
    IN  [w EXCEPT !.top = Walk(top, -up, n)]

\* no blank rows at the bottom while there are rows above
Filled(w, n) ==
    LET rows == Least(w.nr, 1 + RowsBelow(w.top, n))
    IN  [w EXCEPT !.top = Walk(w.top, -Least(w.nr - rows, RowsAbove(w.top, n)), n)]

Changed(w, n) ==
    IF w.top = ListHead THEN SetContents(w, n)
    ELSE Filled(ScrolledToSel(Sighted(w), n), n)

\* faulty: the height is set, the rows are not looked at again
SetNrRowsOnly(w, n, rows) == IF rows < 1 THEN w ELSE [w EXCEPT !.nr = rows]

SetNrRows(w, n, rows) == IF rows < 1 THEN w ELSE Changed([w EXCEPT !.nr = rows], n)

-----------------------------------------------------------------------------
(* Moving the selection by rows. *)

Up(w, n, k) ==
    LET buffer == Walk(w.sel, -w.top, n)
        moved == Least(k, RowsAbove(w.sel, n))
        sel == Walk(w.sel, -moved, n)
        bound == IF moved = 0 THEN Least(buffer + k, w.nr \div 2) ELSE UpperBound(w)
        offset == Least(bound, RowsAbove(sel, n))
    IN  [w EXCEPT !.sel = sel, !.top = Walk(w.top, -AtLeast0(offset + moved - buffer), n)]

Down(w, n, k) ==
    LET buffer == w.nr - 1 - Walk(w.sel, -w.top, n)
        moved == Least(k, RowsBelow(w.sel, n))
        sel == Walk(w.sel, moved, n)
        bound == IF moved = 0 THEN Least(buffer + k, (w.nr - 1) \div 2) ELSE LowerBound(w)
        offset == AtLeast0(Least(bound, RowsBelow(sel, n)))
    IN  [w EXCEPT !.sel = sel, !.top = Walk(w.top, AtLeast0(offset + moved - buffer), n)]

\* window_row_vanishes: the row at p is about to leave the list
RowVanishes(w, n, p) ==
    LET neighbour == IF p < n THEN p + 1 ELSE p - 1
        Off(q) == IF q = p THEN neighbour ELSE q
    IN  [w EXCEPT !.top = Off(w.top), !.sel = Off(w.sel)]

\* window_set_sel. p and w.top are rows: the code asserts it
SetSel(w, n, p) ==
    LET bound == LowerBound(w)
        last == w.top + w.nr - 1
        \* scroll down: top comes along until p is visible, then until there
        \* are bound rows below p or no more rows; if the last row of the list
        \* is above the bottom of the window, it stays
        missing == AtLeast0(p - last)
        below == IF p > last THEN bound
                 ELSE IF last <= n THEN AtLeast0(p + bound - last) ELSE 0
        from == IF p > last THEN p ELSE last
    IN  IF w.sel = p THEN w
        ELSE IF p < w.top + UpperBound(w)
        THEN [w EXCEPT !.sel = p, !.top = IF p <= UpperBound(w) THEN 1 ELSE p - UpperBound(w)]
        ELSE [w EXCEPT !.sel = p,
                       !.top = Walk(w.top, missing + AtLeast0(Least(below, n - from)), n)]

-----------------------------------------------------------------------------
(* Moving by pages. *)

GotoTop(w, n) == SetContents(w, n)
GotoBottom(w, n) ==
    LET last == Walk(ListHead, -1, n)
    IN  [w EXCEPT !.sel = last, !.top = Walk(last, -Least(w.nr - 1, RowsAbove(last, n)), n)]

\* win-page-up moves by nr - 1 rows, win-half-page-up by half of that
PageUp(w, n, rows) ==
    LET up == Least(rows, Least(RowsAbove(w.sel, n), RowsAbove(w.top, n)))
    IN  [w EXCEPT !.sel = Walk(w.sel, -up, n), !.top = Walk(w.top, -up, n)]

Bottom(w, n) == Walk(w.top, Least(w.nr - 1, RowsBelow(w.top, n)), n)

PageDown(w, n, rows) ==
    LET down == Least(rows, Least(RowsBelow(w.sel, n), RowsBelow(Bottom(w, n), n)))
    IN  [w EXCEPT !.sel = Walk(w.sel, down, n), !.top = Walk(w.top, down, n)]

ScrollDown(w, n) ==
    IF RowsBelow(Bottom(w, n), n) = 0 \/ RowsBelow(w.top, n) = 0 THEN w
    ELSE [w EXCEPT !.top = Walk(w.top, 1, n),
                   !.sel = IF w.sel = w.top THEN Walk(w.sel, 1, n) ELSE w.sel]

ScrollUp(w, n) ==
    IF RowsAbove(w.top, n) = 0 THEN w
    ELSE [w EXCEPT !.top = Walk(w.top, -1, n),
                   !.sel = IF w.sel = Bottom(w, n) THEN Walk(w.sel, -1, n) ELSE w.sel]

\* window_goto_pos walks round the ring: on a list that ends above the row it
\* stops at the head, or begins again at the top
GotoPos(w, n, rows) == [w EXCEPT !.sel = Walk(w.top, rows, n)]
PageTop(w, n) == GotoPos(w, n, 0)
PageMiddle(w, n) == GotoPos(w, n, w.nr \div 2)
PageBottom(w, n) == GotoPos(w, n, w.nr - 1)

\* what every command of the window can make of it, except the jumps below the
\* end of the list
Commanded(w, n) ==
    {Up(w, n, 1), Down(w, n, 1), GotoTop(w, n), GotoBottom(w, n),
     PageUp(w, n, w.nr - 1), PageUp(w, n, (w.nr - 1) \div 2),
     PageDown(w, n, w.nr - 1), PageDown(w, n, (w.nr - 1) \div 2),
     ScrollUp(w, n), ScrollDown(w, n), PageTop(w, n)}
    \cup {v \in {PageMiddle(w, n), PageBottom(w, n)} : v.sel >= w.top \/ n = 0}

\* the selected row is shown; nothing is selected only in an empty list
ShowsSelection(w, n) ==
    /\ w.top \in (IF n = 0 THEN {ListHead} ELSE 1..n)
    /\ w.sel \in (IF n = 0 THEN {ListHead} ELSE w.top..(w.top + w.nr - 1) \cap 1..n)
=============================================================================
