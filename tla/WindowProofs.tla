---------------------------- MODULE WindowProofs ----------------------------
(***************************************************************************)
(* Theorems about ui/window.c, for a list of any length, a window of any     *)
(* height and any scroll_offset: whatever a command does, and whatever       *)
(* happens to the list, the selected row is a row of the list and on the     *)
(* screen. That is what Lists.SelectionIsShown says of each window in turn;  *)
(* here it is proved of the functions the windows share, one step at a time. *)
(***************************************************************************)
EXTENDS Window, TLAPS

\* A window of at least one row, over a list of n rows
Windows == [top : Nat, sel : Nat, nr : Nat \ {0}, off : Nat]

Shows(w, n) == w \in Windows /\ ShowsSelection(w, n)

-----------------------------------------------------------------------------
(* The ring. *)

\* A walk that does not pass the head is a sum.
LEMMA WalkIs ==
    ASSUME NEW n \in Nat, NEW p \in 0 .. n, NEW d \in Int, p + d \in 0 .. n
    PROVE  Walk(p, d, n) = p + d
<1>1. \A a \in Int, b \in Int : 0 <= a /\ a < b => a % b = a
    OBVIOUS
<1> QED
    BY <1>1 DEF Walk

\* A step over the head comes to the other end.
LEMMA WalkRound ==
    ASSUME NEW n \in Nat
    PROVE  /\ Walk(0, -1, n) = n
           /\ n = 0 => \A d \in Int : Walk(0, d, n) = 0
<1> QED
    BY DEF Walk

\* What the fields of a window that shows its selection may be.
LEMMA ShownFields ==
    ASSUME NEW n \in Nat, NEW w, Shows(w, n)
    PROVE  /\ w.nr \in Nat /\ w.nr >= 1 /\ w.off \in Nat
           /\ w.top \in 0 .. n /\ w.sel \in 0 .. n
           /\ n = 0 => w.top = 0 /\ w.sel = 0
           /\ n > 0 => 1 <= w.top /\ w.top <= w.sel /\ w.sel <= w.top + w.nr - 1
    BY DEF Shows, Windows, ShowsSelection, ListHead

\* What must be said of a new top and a new selection.
LEMMA ShowsAgain ==
    ASSUME NEW n \in Nat, NEW w \in Windows, NEW top \in 0 .. n, NEW sel \in 0 .. n,
           n > 0 => 1 <= top /\ top <= sel /\ sel <= top + w.nr - 1
    PROVE  Shows([w EXCEPT !.top = top, !.sel = sel], n)
<1> DEFINE v == [w EXCEPT !.top = top, !.sel = sel]
<1>1. top \in Nat /\ sel \in Nat
    OBVIOUS
<1>2. v \in Windows /\ v.top = top /\ v.sel = sel /\ v.nr = w.nr
    BY <1>1 DEF Windows
<1>3. w.nr \in Nat
    BY DEF Windows
<1> HIDE DEF v
<1>4. ShowsSelection(v, n)
    BY <1>1, <1>2, <1>3 DEF ShowsSelection, ListHead
<1> QED
    BY <1>2, <1>4 DEF v, Shows

\* In an empty list, both stay on the head.
LEMMA ShowsEmpty ==
    ASSUME NEW w \in Windows
    PROVE  Shows([w EXCEPT !.top = 0, !.sel = 0], 0)
<1>1. 0 \in Nat /\ 0 \in 0 .. 0
    OBVIOUS
<1>2. ~(0 > 0)
    OBVIOUS
<1> QED
    BY <1>1, <1>2, ShowsAgain, Zenon

\* The scroll offset leaves room for the selection between its two margins.
LEMMA MarginsFit ==
    ASSUME NEW w \in Windows
    PROVE  /\ UpperBound(w) \in Nat /\ 2 * UpperBound(w) <= w.nr
           /\ LowerBound(w) \in Nat /\ 2 * LowerBound(w) <= w.nr - 1
    BY DEF UpperBound, LowerBound, Least, Windows

-----------------------------------------------------------------------------
(* The commands. *)

\* win-up, by any number of rows: the selection stays in sight, whether it
\* moves or is on the first row already and only the window scrolls.
LEMMA UpShows ==
    ASSUME NEW n \in Nat, NEW w, Shows(w, n), NEW k \in Nat
    PROVE  Shows(Up(w, n, k), n)
<1> DEFINE buffer == Walk(w.sel, -w.top, n)
           moved == Least(k, RowsAbove(w.sel, n))
           sel == Walk(w.sel, -moved, n)
           bound == IF moved = 0 THEN Least(buffer + k, w.nr \div 2) ELSE UpperBound(w)
           offset == Least(bound, RowsAbove(sel, n))
           scroll == AtLeast0(offset + moved - buffer)
           top == Walk(w.top, -scroll, n)
<1>1. w \in Windows
    BY DEF Shows
<1>2. Up(w, n, k) = [w EXCEPT !.top = top, !.sel = sel]
    BY <1>1 DEF Up, Windows
<1>3. CASE n = 0
    <2>1. RowsAbove(w.sel, n) = 0 /\ moved \in Int
        BY <1>3, ShownFields DEF RowsAbove, ListHead, Least
    <2>2. sel = 0 /\ buffer = 0
        BY <1>3, <2>1, ShownFields, WalkRound
    <2>3. scroll \in Int
        BY <1>1, <2>1, <2>2, MarginsFit, ShownFields, <1>3 DEF AtLeast0, Least, RowsAbove, ListHead
    <2>4. top = 0
        BY <1>3, <2>3, ShownFields, WalkRound
    <2> HIDE DEF sel, top
    <2> HIDE DEF top, sel
    <2>5. Shows([w EXCEPT !.top = top, !.sel = sel], n)
        BY <1>1, <1>3, <2>2, <2>4, ShowsEmpty
    <2> QED
        BY <1>2, <2>5
<1>4. CASE n > 0
    <2>1. moved \in 0 .. w.sel - 1
        BY <1>4, ShownFields DEF RowsAbove, ListHead, Least
    <2>2. buffer = w.sel - w.top
        BY <1>4, WalkIs, ShownFields
    <2> HIDE DEF moved
    <2>3. sel = w.sel - moved
        BY <1>4, <2>1, WalkIs, ShownFields
    <2>4. bound \in Nat /\ 2 * bound <= w.nr
        BY <1>1, <1>4, <2>2, MarginsFit, ShownFields DEF Least
    <2> HIDE DEF bound, buffer, sel
    <2>5. offset \in Nat /\ offset <= bound /\ offset <= sel - 1
        BY <1>4, <2>1, <2>3, <2>4, ShownFields DEF RowsAbove, ListHead, Least
    <2> HIDE DEF offset
    <2>6. /\ scroll \in Nat
          /\ scroll = 0 => moved <= buffer - offset
          /\ scroll > 0 => scroll = offset + moved - buffer
        BY <1>4, <2>1, <2>2, <2>5, ShownFields DEF AtLeast0
    <2> HIDE DEF scroll
    <2>7. w.top - scroll \in 1 .. sel
        BY <1>4, <2>1, <2>2, <2>3, <2>5, <2>6, ShownFields
    <2>8. top = w.top - scroll
        BY <2>6, <2>7, <2>3, <2>1, <1>4, WalkIs, ShownFields
    <2> HIDE DEF top
    <2>9. sel <= top + w.nr - 1
        BY <1>4, <2>1, <2>2, <2>3, <2>4, <2>5, <2>6, <2>8, ShownFields
    <2>10. top \in 0 .. n /\ sel \in 0 .. n /\ 1 <= top /\ top <= sel
        BY <1>4, <2>1, <2>3, <2>7, <2>8, ShownFields
    <2>11. Shows([w EXCEPT !.top = top, !.sel = sel], n)
        BY <1>1, <2>9, <2>10, ShowsAgain
    <2> QED
        BY <1>2, <2>11
<1> QED
    BY <1>3, <1>4

\* win-down, by any number of rows.
LEMMA DownShows ==
    ASSUME NEW n \in Nat, NEW w, Shows(w, n), NEW k \in Nat
    PROVE  Shows(Down(w, n, k), n)
<1> DEFINE buffer == w.nr - 1 - Walk(w.sel, -w.top, n)
           moved == Least(k, RowsBelow(w.sel, n))
           sel == Walk(w.sel, moved, n)
           bound == IF moved = 0 THEN Least(buffer + k, (w.nr - 1) \div 2) ELSE LowerBound(w)
           offset == AtLeast0(Least(bound, RowsBelow(sel, n)))
           scroll == AtLeast0(offset + moved - buffer)
           top == Walk(w.top, scroll, n)
<1>1. w \in Windows
    BY DEF Shows
<1>2. Down(w, n, k) = [w EXCEPT !.top = top, !.sel = sel]
    BY <1>1 DEF Down, Windows
<1>3. CASE n = 0
    <2>1. moved = 0
        BY <1>3, ShownFields DEF RowsBelow, Least
    <2>2. sel = 0 /\ buffer = w.nr - 1
        BY <1>3, <2>1, ShownFields, WalkRound
    <2>3. scroll \in Int
        BY <1>1, <2>1, <2>2, MarginsFit, ShownFields, <1>3 DEF AtLeast0, Least, RowsBelow
    <2>4. top = 0
        BY <1>3, <2>3, ShownFields, WalkRound
    <2> HIDE DEF top, sel
    <2>5. Shows([w EXCEPT !.top = top, !.sel = sel], n)
        BY <1>1, <1>3, <2>2, <2>4, ShowsEmpty
    <2> QED
        BY <1>2, <2>5
<1>4. CASE n > 0
    <2>1. moved \in 0 .. n - w.sel
        BY <1>4, ShownFields DEF RowsBelow, Least
    <2>2. buffer = w.nr - 1 - (w.sel - w.top)
        BY <1>4, WalkIs, ShownFields
    <2> HIDE DEF moved
    <2>3. sel = w.sel + moved
        BY <1>4, <2>1, WalkIs, ShownFields
    <2>4. bound \in Nat /\ 2 * bound <= w.nr - 1
        BY <1>1, <1>4, <2>2, MarginsFit, ShownFields DEF Least
    <2> HIDE DEF bound, buffer, sel
    <2>5. offset \in Nat /\ offset <= bound /\ offset <= n - sel
        BY <1>4, <2>1, <2>3, <2>4, ShownFields DEF RowsBelow, Least, AtLeast0
    <2> HIDE DEF offset
    <2>6. /\ scroll \in Nat
          /\ scroll = 0 => moved <= buffer - offset
          /\ scroll > 0 => scroll = offset + moved - buffer
        BY <1>4, <2>1, <2>2, <2>5, ShownFields DEF AtLeast0
    <2> HIDE DEF scroll
    <2>7. w.top + scroll \in 1 .. sel
        BY <1>4, <2>1, <2>2, <2>3, <2>4, <2>5, <2>6, ShownFields
    <2>8. top = w.top + scroll
        BY <2>6, <2>7, <2>3, <2>1, <1>4, WalkIs, ShownFields
    <2> HIDE DEF top
    <2>9. sel <= top + w.nr - 1
        BY <1>4, <2>1, <2>2, <2>3, <2>4, <2>5, <2>6, <2>8, ShownFields
    <2>10. top \in 0 .. n /\ sel \in 0 .. n /\ 1 <= top /\ top <= sel
        BY <1>4, <2>1, <2>3, <2>7, <2>8, ShownFields
    <2>11. Shows([w EXCEPT !.top = top, !.sel = sel], n)
        BY <1>1, <2>9, <2>10, ShowsAgain
    <2> QED
        BY <1>2, <2>11
<1> QED
    BY <1>3, <1>4, ShownFields

\* win-page-up and win-half-page-up: window and selection move together.
LEMMA PageUpShows ==
    ASSUME NEW n \in Nat, NEW w, Shows(w, n), NEW rows \in Nat
    PROVE  Shows(PageUp(w, n, rows), n)
<1> DEFINE up == Least(rows, Least(RowsAbove(w.sel, n), RowsAbove(w.top, n)))
           sel == Walk(w.sel, -up, n)
           top == Walk(w.top, -up, n)
<1>1. w \in Windows /\ PageUp(w, n, rows) = [w EXCEPT !.top = top, !.sel = sel]
    BY DEF Shows, PageUp, Windows
<1>2. /\ up \in Nat
      /\ n > 0 => up <= w.sel - 1 /\ up <= w.top - 1
    BY ShownFields DEF RowsAbove, ListHead, Least
<1> HIDE DEF up
<1>3. n = 0 => top = 0 /\ sel = 0
    BY <1>2, ShownFields, WalkRound
<1>4. n > 0 => top = w.top - up /\ sel = w.sel - up
    BY <1>2, ShownFields, WalkIs
<1> HIDE DEF top, sel
<1>5. top \in 0 .. n /\ sel \in 0 .. n
    BY <1>2, <1>3, <1>4, ShownFields
<1>6. n > 0 => 1 <= top /\ top <= sel /\ sel <= top + w.nr - 1
    <2>1. /\ w.nr \in Nat /\ w.top \in Nat /\ w.sel \in Nat
          /\ n > 0 => w.top <= w.sel /\ w.sel <= w.top + w.nr - 1
        BY ShownFields
    <2> SUFFICES ASSUME n > 0 PROVE 1 <= top /\ top <= sel /\ sel <= top + w.nr - 1
        OBVIOUS
    <2> DEFINE t == w.top
               s == w.sel
               rowsShown == w.nr
    <2>2. /\ t \in Nat /\ s \in Nat /\ rowsShown \in Nat /\ t <= s /\ s <= t + rowsShown - 1
          /\ up \in Nat /\ up <= t - 1 /\ top = t - up /\ sel = s - up
        BY <1>2, <1>4, <2>1
    <2> HIDE DEF t, s, rowsShown
    <2>3. 1 <= top
        BY <2>2
    <2>4. top <= sel
        BY <2>2
    <2>5. sel <= top + rowsShown - 1
        BY <2>2, SMTT(30)
    <2> QED
        BY <2>3, <2>4, <2>5 DEF rowsShown
<1>7. Shows([w EXCEPT !.top = top, !.sel = sel], n)
    BY <1>1, <1>5, <1>6, ShowsAgain
<1> QED
    BY <1>1, <1>7, Zenon

\* The last row of the window, or of the list.
LEMMA BottomIs ==
    ASSUME NEW n \in Nat, NEW w, Shows(w, n), n > 0
    PROVE  /\ Bottom(w, n) \in w.sel .. n
           /\ Bottom(w, n) <= w.top + w.nr - 1
<1> DEFINE down == Least(w.nr - 1, RowsBelow(w.top, n))
<1>1. down \in Nat /\ down <= w.nr - 1 /\ down <= n - w.top
      /\ w.sel <= w.top + down
    BY ShownFields DEF Least, RowsBelow
<1> HIDE DEF down
<1>2. Walk(w.top, down, n) = w.top + down
    BY <1>1, ShownFields, WalkIs
<1> QED
    BY <1>1, <1>2, ShownFields DEF Bottom, down

\* win-page-down and win-half-page-down: the last row of the list stays at or
\* below the bottom of the window.
LEMMA PageDownShows ==
    ASSUME NEW n \in Nat, NEW w, Shows(w, n), NEW rows \in Nat
    PROVE  Shows(PageDown(w, n, rows), n)
<1> DEFINE down == Least(rows, Least(RowsBelow(w.sel, n), RowsBelow(Bottom(w, n), n)))
           sel == Walk(w.sel, down, n)
           top == Walk(w.top, down, n)
<1>1. w \in Windows /\ PageDown(w, n, rows) = [w EXCEPT !.top = top, !.sel = sel]
    BY DEF Shows, PageDown, Windows
<1>2. n = 0 => Bottom(w, n) = 0
    BY ShownFields, WalkRound DEF Bottom, Least, RowsBelow
<1>3. down \in Nat /\ down <= n - w.sel
    BY <1>2, ShownFields, BottomIs DEF RowsBelow, Least
<1> HIDE DEF down
<1>4. n = 0 => top = 0 /\ sel = 0
    BY <1>3, ShownFields, WalkRound
<1>5. n > 0 => top = w.top + down /\ sel = w.sel + down
    BY <1>3, ShownFields, WalkIs
<1> HIDE DEF top, sel
<1>6. top \in 0 .. n /\ sel \in 0 .. n
    BY <1>3, <1>4, <1>5, ShownFields
<1>7. n > 0 => 1 <= top /\ top <= sel /\ sel <= top + w.nr - 1
    <2>1. /\ w.nr \in Nat /\ w.top \in Nat /\ w.sel \in Nat
          /\ n > 0 => 1 <= w.top /\ w.top <= w.sel /\ w.sel <= w.top + w.nr - 1
        BY ShownFields
    <2> SUFFICES ASSUME n > 0 PROVE 1 <= top /\ top <= sel /\ sel <= top + w.nr - 1
        OBVIOUS
    <2> DEFINE t == w.top
               s == w.sel
               rowsShown == w.nr
    <2>2. /\ t \in Nat /\ s \in Nat /\ rowsShown \in Nat
          /\ 1 <= t /\ t <= s /\ s <= t + rowsShown - 1
          /\ down \in Nat /\ top = t + down /\ sel = s + down
        BY <1>3, <1>5, <2>1
    <2> HIDE DEF t, s, rowsShown
    <2>3. 1 <= top
        BY <2>2
    <2>4. top <= sel
        BY <2>2
    <2>5. sel <= top + rowsShown - 1
        BY <2>2, SMTT(30)
    <2> QED
        BY <2>3, <2>4, <2>5 DEF rowsShown
<1>8. Shows([w EXCEPT !.top = top, !.sel = sel], n)
    BY <1>1, <1>6, <1>7, ShowsAgain
<1> QED
    BY <1>1, <1>8, Zenon

\* win-scroll-down: the selection leaves the row that goes out of sight.
LEMMA ScrollDownShows ==
    ASSUME NEW n \in Nat, NEW w, Shows(w, n)
    PROVE  Shows(ScrollDown(w, n), n)
<1> DEFINE sel == IF w.sel = w.top THEN Walk(w.sel, 1, n) ELSE w.sel
           top == Walk(w.top, 1, n)
<1>1. CASE RowsBelow(Bottom(w, n), n) = 0 \/ RowsBelow(w.top, n) = 0
    BY <1>1 DEF ScrollDown
<1>2. CASE ~(RowsBelow(Bottom(w, n), n) = 0 \/ RowsBelow(w.top, n) = 0)
    <2>1. w \in Windows /\ ScrollDown(w, n) = [w EXCEPT !.top = top, !.sel = sel]
        BY <1>2 DEF Shows, ScrollDown, Windows
    <2>2. n > 0 /\ w.top < n
        BY <1>2, ShownFields DEF RowsBelow
    <2>3. top = w.top + 1 /\ Walk(w.top, 1, n) = w.top + 1
        BY <2>2, ShownFields, WalkIs
    <2>4. sel = IF w.sel = w.top THEN w.sel + 1 ELSE w.sel
        BY <2>3
    <2> HIDE DEF top, sel
    <2>5. top \in 0 .. n /\ sel \in 0 .. n
        BY <2>2, <2>3, <2>4, ShownFields
    <2>6. 1 <= top /\ top <= sel /\ sel <= top + w.nr - 1
        BY <2>2, <2>3, <2>4, ShownFields
    <2>7. Shows([w EXCEPT !.top = top, !.sel = sel], n)
        BY <2>1, <2>5, <2>6, ShowsAgain
    <2> QED
        BY <2>1, <2>7
<1> QED
    BY <1>1, <1>2

\* win-scroll-up: the same at the bottom.
LEMMA ScrollUpShows ==
    ASSUME NEW n \in Nat, NEW w, Shows(w, n)
    PROVE  Shows(ScrollUp(w, n), n)
<1> DEFINE sel == IF w.sel = Bottom(w, n) THEN Walk(w.sel, -1, n) ELSE w.sel
           top == Walk(w.top, -1, n)
<1>1. CASE RowsAbove(w.top, n) = 0
    BY <1>1 DEF ScrollUp
<1>2. CASE RowsAbove(w.top, n) # 0
    <2>1. w \in Windows /\ ScrollUp(w, n) = [w EXCEPT !.top = top, !.sel = sel]
        BY <1>2 DEF Shows, ScrollUp, Windows
    <2>2. n > 0 /\ w.top > 1
        BY <1>2, ShownFields DEF RowsAbove, ListHead
    <2>3. top = w.top - 1 /\ Walk(w.sel, -1, n) = w.sel - 1
        BY <2>2, ShownFields, WalkIs
    <2>4. sel = IF w.sel = Bottom(w, n) THEN w.sel - 1 ELSE w.sel
        BY <2>3
    <2>5. w.sel # Bottom(w, n) => w.sel < w.top + w.nr - 1
        BY <2>2, BottomIs, ShownFields
    <2> HIDE DEF top, sel
    <2>6. top \in 0 .. n /\ sel \in 0 .. n
        BY <2>2, <2>3, <2>4, ShownFields
    <2>7. 1 <= top /\ top <= sel /\ sel <= top + w.nr - 1
        BY <2>2, <2>3, <2>4, <2>5, ShownFields
    <2>8. Shows([w EXCEPT !.top = top, !.sel = sel], n)
        BY <2>1, <2>6, <2>7, ShowsAgain
    <2> QED
        BY <2>1, <2>8
<1> QED
    BY <1>1, <1>2

\* win-top, and what a window shows of new contents.
LEMMA TopShows ==
    ASSUME NEW n \in Nat, NEW w \in Windows
    PROVE  Shows(SetContents(w, n), n)
<1> DEFINE first == Walk(ListHead, 1, n)
<1>1. first = IF n = 0 THEN 0 ELSE 1
    BY WalkIs, WalkRound DEF ListHead
<1>2. SetContents(w, n) = [w EXCEPT !.top = first, !.sel = first]
    BY DEF SetContents
<1> HIDE DEF first
<1>3. first \in 0 .. n /\ (n > 0 => 1 <= first /\ first <= first /\ first <= first + w.nr - 1)
    BY <1>1 DEF Windows
<1> QED
    BY <1>2, <1>3, ShowsAgain

\* win-bottom: the last row is selected, and is the last of a full window if
\* there are rows enough.
LEMMA BottomShows ==
    ASSUME NEW n \in Nat, NEW w, Shows(w, n)
    PROVE  Shows(GotoBottom(w, n), n)
<1> DEFINE last == Walk(ListHead, -1, n)
           up == Least(w.nr - 1, RowsAbove(last, n))
           top == Walk(last, -up, n)
<1>1. w \in Windows /\ GotoBottom(w, n) = [w EXCEPT !.top = top, !.sel = last]
    BY DEF Shows, GotoBottom, Windows
<1>2. last = n
    BY WalkRound DEF ListHead
<1> HIDE DEF last
<1>3. up \in Nat /\ up <= w.nr - 1 /\ (n > 0 => up <= n - 1) /\ (n = 0 => up = 0)
    BY <1>2, ShownFields DEF RowsAbove, ListHead, Least
<1> HIDE DEF up
<1>4. top = n - up
    BY <1>2, <1>3, WalkIs
<1> HIDE DEF top
<1>5. top \in 0 .. n /\ last \in 0 .. n
    BY <1>2, <1>3, <1>4
<1>6. n > 0 => 1 <= top /\ top <= last /\ last <= top + w.nr - 1
    <2> SUFFICES ASSUME n > 0 PROVE 1 <= top /\ top <= last /\ last <= top + w.nr - 1
        OBVIOUS
    <2> DEFINE rowsShown == w.nr
    <2>1. rowsShown \in Nat /\ up \in Nat /\ up <= rowsShown - 1 /\ up <= n - 1 /\ top = n - up /\ last = n
        BY <1>2, <1>3, <1>4, ShownFields
    <2> HIDE DEF rowsShown
    <2>2. 1 <= top
        BY <2>1
    <2>3. top <= last
        BY <2>1
    <2>4. last <= top + rowsShown - 1
        BY <2>1
    <2> QED
        BY <2>2, <2>3, <2>4 DEF rowsShown
<1> QED
    BY <1>1, <1>5, <1>6, ShowsAgain

\* win-page-top, -middle and -bottom, unless the walk went round the ring.
LEMMA GotoPosShows ==
    ASSUME NEW n \in Nat, NEW w, Shows(w, n), NEW rows \in 0 .. w.nr - 1,
           GotoPos(w, n, rows).sel >= w.top \/ n = 0
    PROVE  Shows(GotoPos(w, n, rows), n)
<1> DEFINE sel == Walk(w.top, rows, n)
<1>1. w \in Windows /\ w.top \in Nat
    BY DEF Shows, Windows
<1>2. GotoPos(w, n, rows) = [w EXCEPT !.sel = sel] /\ GotoPos(w, n, rows).sel = sel
    BY <1>1 DEF GotoPos, Windows
<1>3. [w EXCEPT !.sel = sel] = [w EXCEPT !.top = w.top, !.sel = sel]
    BY <1>1 DEF Windows
<1>4. \A a \in Nat : a % (n + 1) \in 0 .. n /\ a % (n + 1) <= a
    OBVIOUS
<1>5. rows \in Nat /\ rows <= w.nr - 1
    BY ShownFields
<1>6. w.top + rows \in Nat
    BY <1>1, <1>5
<1>7. sel \in 0 .. n /\ sel <= w.top + rows
    BY <1>4, <1>6 DEF Walk
<1> HIDE DEF sel
<1>8. n > 0 => 1 <= w.top /\ w.top <= sel /\ sel <= w.top + w.nr - 1
    BY <1>2, <1>5, <1>7, ShownFields
<1>9. Shows([w EXCEPT !.top = w.top, !.sel = sel], n)
    BY <1>1, <1>7, <1>8, ShowsAgain, ShownFields
<1> QED
    BY <1>2, <1>3, <1>9

-----------------------------------------------------------------------------
(* When the list or the height has changed. *)

\* All that window_changed is given: top and sel are rows of the list as it is
\* now, anywhere, or nothing was shown.
OnRows(w, n) ==
    /\ w \in Windows
    /\ w.top \in 0 .. n /\ w.sel \in 0 .. n
    /\ w.top # 0 => w.sel # 0

\* The margins above and below the selection, once it is not above the window.
LEMMA ScrolledShows ==
    ASSUME NEW n \in Nat, NEW w \in Windows, w.top \in 1 .. n, w.sel \in w.top .. n
    PROVE  Shows(ScrolledToSel(w, n), n)
<1> DEFINE U == UpperBound(w)
           delta == w.sel - w.top
           down == AtLeast0(delta - (w.nr - U) + 1)
           mid == Walk(w.top, down, n)
           up == AtLeast0(Least(U - (delta - down), RowsAbove(mid, n)))
           top == Walk(mid, -up, n)
<1>1. ScrolledToSel(w, n) = [w EXCEPT !.top = top]
    BY DEF ScrolledToSel
<1>2. [w EXCEPT !.top = top] = [w EXCEPT !.top = top, !.sel = w.sel]
    BY DEF Windows
<1>3. w.nr \in Nat /\ w.nr >= 1 /\ U \in Nat /\ 2 * U <= w.nr /\ delta \in Nat
    BY MarginsFit DEF Windows
<1> HIDE DEF U
<1>4. /\ down \in Nat
      /\ down = 0 => delta <= w.nr - U - 1
      /\ down > 0 => down = delta - (w.nr - U) + 1
    BY <1>3 DEF AtLeast0
<1> HIDE DEF down
<1>5. w.top + down \in 1 .. w.sel
    BY <1>3, <1>4
<1>6. mid = w.top + down
    BY <1>4, <1>5, WalkIs
<1> HIDE DEF mid
<1>7. up \in Nat /\ up <= mid - 1 /\ (up > 0 => up <= U - (delta - down))
    BY <1>3, <1>4, <1>5, <1>6 DEF AtLeast0, Least, RowsAbove, ListHead
<1> HIDE DEF up
<1>8. mid - up \in 1 .. w.sel
    BY <1>4, <1>5, <1>6, <1>7
<1>9. top = mid - up
    <2>1. mid \in 0 .. n /\ -up \in Int /\ mid + (-up) \in 0 .. n
        BY <1>5, <1>6, <1>7, <1>8
    <2>2. Walk(mid, -up, n) = mid + (-up)
        BY <2>1, WalkIs
    <2> QED
        BY <2>2, <1>6, <1>5, <1>7
<1> HIDE DEF top
<1>10. top \in 0 .. n /\ w.sel \in 0 .. n /\ 1 <= top /\ top <= w.sel
    BY <1>8, <1>9
<1>11. w.sel <= top + w.nr - 1
    BY <1>3, <1>4, <1>5, <1>6, <1>7, <1>9
<1>12. Shows([w EXCEPT !.top = top, !.sel = w.sel], n)
    BY <1>10, <1>11, ShowsAgain
<1> QED
    BY <1>1, <1>2, <1>12

\* No blank rows at the bottom: the window goes up, not so far that the
\* selection falls out of it.
LEMMA FilledShows ==
    ASSUME NEW n \in Nat \ {0}, NEW w, Shows(w, n)
    PROVE  Shows(Filled(w, n), n)
<1> DEFINE rows == Least(w.nr, 1 + RowsBelow(w.top, n))
           up == Least(w.nr - rows, RowsAbove(w.top, n))
           top == Walk(w.top, -up, n)
<1>1. w \in Windows /\ Filled(w, n) = [w EXCEPT !.top = top]
    BY DEF Filled, Shows
<1>2. [w EXCEPT !.top = top] = [w EXCEPT !.top = top, !.sel = w.sel]
    BY <1>1 DEF Windows
<1>3. up \in Nat /\ up <= w.top - 1 /\ (up > 0 => up <= w.nr - (1 + n - w.top))
    BY ShownFields DEF Least, RowsAbove, RowsBelow, ListHead
<1> HIDE DEF up
<1>4. top = w.top - up
    BY <1>3, WalkIs, ShownFields
<1> HIDE DEF top
<1>5. top \in 0 .. n /\ w.sel \in 0 .. n /\ 1 <= top /\ top <= w.sel
    BY <1>3, <1>4, ShownFields
<1>6. w.sel <= top + w.nr - 1
    BY <1>3, <1>4, ShownFields
<1>7. Shows([w EXCEPT !.top = top, !.sel = w.sel], n)
    BY <1>1, <1>5, <1>6, ShowsAgain
<1> QED
    BY <1>1, <1>2, <1>7

\* Whatever happened to the list, window_changed leaves a window that shows
\* its selection: rows were added or moved anywhere, or the height is another.
THEOREM ChangedShows ==
    ASSUME NEW n \in Nat, NEW w, OnRows(w, n)
    PROVE  Shows(Changed(w, n), n)
<1>1. CASE w.top = 0
    BY <1>1, TopShows DEF Changed, ListHead, OnRows
<1>2. CASE w.top # 0
    <2> DEFINE s == Sighted(w)
    <2>1. w \in Windows /\ w.top \in 1 .. n /\ w.sel \in 1 .. n /\ n \in Nat \ {0}
        BY <1>2 DEF OnRows
    <2>2. s = [w EXCEPT !.top = IF w.sel < w.top THEN w.sel ELSE w.top]
        BY <2>1 DEF Sighted, ListHead, Windows
    <2> HIDE DEF s
    <2>3. s \in Windows /\ s.top \in 1 .. n /\ s.sel \in s.top .. n
        BY <2>1, <2>2 DEF Windows
    <2>4. Shows(ScrolledToSel(s, n), n)
        BY <2>3, ScrolledShows
    <2>5. Shows(Filled(ScrolledToSel(s, n), n), n)
        BY <2>1, <2>4, FilledShows
    <2> QED
        BY <1>2, <2>5 DEF Changed, ListHead, s
<1> QED
    BY <1>1, <1>2

\* A new height, if there is room for a row at all.
THEOREM ResizedShows ==
    ASSUME NEW n \in Nat, NEW w, Shows(w, n), NEW rows \in Int
    PROVE  Shows(SetNrRows(w, n, rows), n)
<1>1. CASE rows < 1
    BY <1>1 DEF SetNrRows
<1>2. CASE rows >= 1
    <2> DEFINE v == [w EXCEPT !.nr = rows]
    <2>1. v \in Windows /\ v.top = w.top /\ v.sel = w.sel
        BY <1>2 DEF Shows, Windows
    <2> HIDE DEF v
    <2>2. OnRows(v, n)
        BY <2>1, ShownFields DEF OnRows
    <2>3. Shows(Changed(v, n), n)
        BY <2>2, ChangedShows
    <2> QED
        BY <1>2, <2>3 DEF SetNrRows, v
<1> QED
    BY <1>1, <1>2

\* The place of row q once row p has left the list.
Without(q, p) == IF q > p THEN q - 1 ELSE q

\* window_row_vanishes, called before a row leaves the list: neither top nor sel
\* stays on the row that is gone; in the shorter list both are rows again, so
\* that any number of rows can leave before window_changed is called; and a
\* window that showed its selection does without it, down to the empty list.
THEOREM RemovedShows ==
    ASSUME NEW n \in Nat \ {0}, NEW w, OnRows(w, n), NEW p \in 1 .. n
    PROVE  LET v == RowVanishes(w, n, p)
               after == [v EXCEPT !.top = Without(@, p), !.sel = Without(@, p)]
           IN  /\ v.top # p /\ v.sel # p
               /\ OnRows(after, n - 1)
               /\ Shows(w, n) => Shows(after, n - 1)
<1> DEFINE next == IF p < n THEN p + 1 ELSE p - 1
           top == IF w.top = p THEN next ELSE w.top
           sel == IF w.sel = p THEN next ELSE w.sel
           v == RowVanishes(w, n, p)
           after == [v EXCEPT !.top = Without(@, p), !.sel = Without(@, p)]
<1>1. w \in Windows /\ v = [w EXCEPT !.top = top, !.sel = sel]
    BY DEF OnRows, RowVanishes
<1>2. /\ w.top \in 0 .. n /\ w.sel \in 0 .. n
      /\ w.top # 0 => w.sel # 0
    BY DEF OnRows
<1>3. next \in 0 .. n /\ next # p /\ (next = 0 => n = 1)
    OBVIOUS
<1>4. /\ top \in 0 .. n /\ sel \in 0 .. n /\ top # p /\ sel # p
      /\ top # 0 => sel # 0 \/ n = 1
    BY <1>2, <1>3
<1>5. /\ Without(top, p) \in 0 .. n - 1 /\ Without(sel, p) \in 0 .. n - 1
      /\ Without(top, p) # 0 => Without(sel, p) # 0
    <2> HIDE DEF top, sel
    <2> QED
        BY <1>4 DEF Without
<1>6. ASSUME Shows(w, n), n - 1 > 0
      PROVE  /\ 1 <= Without(top, p) /\ Without(top, p) <= Without(sel, p)
             /\ Without(sel, p) <= Without(top, p) + w.nr - 1
    <2>1. /\ w.nr \in Nat /\ w.nr >= 1 /\ 1 <= w.top /\ w.top <= w.sel
          /\ w.sel <= w.top + w.nr - 1
        BY <1>6, ShownFields
    <2>2. CASE p < n
        BY <1>2, <1>6, <2>1, <2>2 DEF Without
    <2>3. CASE p = n
        BY <1>2, <1>6, <2>1, <2>3 DEF Without
    <2> QED
        BY <2>2, <2>3
<1> HIDE DEF top, sel
<1>7. v.top = top /\ v.sel = sel
    BY <1>1 DEF Windows
<1>8. after = [w EXCEPT !.top = Without(top, p), !.sel = Without(sel, p)]
    BY <1>1, <1>7 DEF Windows
<1> HIDE DEF v, after
<1>9. after \in Windows /\ after.top = Without(top, p) /\ after.sel = Without(sel, p)
    <2>1. Without(top, p) \in Nat /\ Without(sel, p) \in Nat
        BY <1>5
    <2> QED
        BY <1>1, <1>8, <2>1 DEF Windows
<1>10. OnRows(after, n - 1)
    BY <1>5, <1>9 DEF OnRows
<1>11. ASSUME Shows(w, n)
       PROVE  Shows([w EXCEPT !.top = Without(top, p), !.sel = Without(sel, p)], n - 1)
    <2> DEFINE newTop == Without(top, p)
               newSel == Without(sel, p)
    <2>1. newTop \in 0 .. n - 1 /\ newSel \in 0 .. n - 1 /\ n - 1 \in Nat
        BY <1>5
    <2>2. n - 1 > 0 => 1 <= newTop /\ newTop <= newSel /\ newSel <= newTop + w.nr - 1
        BY <1>6, <1>11
    <2> HIDE DEF newTop, newSel
    <2>3. Shows([w EXCEPT !.top = newTop, !.sel = newSel], n - 1)
        BY <1>1, <2>1, <2>2, ShowsAgain
    <2> QED
        BY <2>3 DEF newTop, newSel
<1> QED
    BY <1>4, <1>7, <1>8, <1>10, <1>11 DEF v, after

-----------------------------------------------------------------------------
(* What leads to a row, and every command. *)

\* window_set_sel to any row: the row comes in sight, with its margin.
THEOREM SelectedShows ==
    ASSUME NEW n \in Nat \ {0}, NEW w, Shows(w, n), NEW p \in 1 .. n
    PROVE  Shows(SetSel(w, n, p), n) /\ SetSel(w, n, p).sel = p
<1> DEFINE U == UpperBound(w)
           bound == LowerBound(w)
           last == w.top + w.nr - 1
           missing == AtLeast0(p - last)
           below == IF p > last THEN bound
                    ELSE IF last <= n THEN AtLeast0(p + bound - last) ELSE 0
           from == IF p > last THEN p ELSE last
           down == missing + AtLeast0(Least(below, n - from))
           scrolled == Walk(w.top, down, n)
           above == IF p <= U THEN 1 ELSE p - U
           top == IF w.sel = p THEN w.top ELSE IF p < w.top + U THEN above ELSE scrolled
<1>1. w \in Windows
    BY DEF Shows
<1>2. SetSel(w, n, p) = [w EXCEPT !.top = top, !.sel = p]
    <2>1. CASE w.sel = p
        BY <1>1, <2>1 DEF SetSel, Windows
    <2>2. CASE w.sel # p /\ p < w.top + U
        BY <1>1, <2>2 DEF SetSel, Windows
    <2>3. CASE w.sel # p /\ ~(p < w.top + U)
        BY <1>1, <2>3 DEF SetSel, Windows
    <2> QED
        BY <2>1, <2>2, <2>3
<1>3. /\ w.nr \in Nat /\ w.nr >= 1 /\ w.top \in 1 .. n
      /\ U \in Nat /\ 2 * U <= w.nr /\ bound \in Nat /\ 2 * bound <= w.nr - 1
      /\ w.top <= w.sel /\ w.sel <= w.top + w.nr - 1
    BY <1>1, MarginsFit, ShownFields
<1> HIDE DEF U, bound
<1>4. ASSUME p >= w.top + U
      PROVE  scrolled \in 1 .. p /\ p <= scrolled + w.nr - 1
    <2>1. CASE p > last
        <3>1. missing = p - last /\ below = bound /\ from = p
            BY <2>1, <1>3 DEF AtLeast0
        <3>2. AtLeast0(Least(bound, n - p)) \in 0 .. bound
              /\ AtLeast0(Least(bound, n - p)) <= n - p
            BY <1>3 DEF AtLeast0, Least
        <3>3. down \in Nat /\ down >= p - last /\ down <= p - last + bound
            BY <2>1, <1>3, <3>1, <3>2
        <3> HIDE DEF down
        <3>4. w.top + down \in 1 .. p /\ p <= w.top + down + w.nr - 1
            BY <1>3, <3>3
        <3>5. scrolled = w.top + down
            BY <1>3, <3>3, <3>4, WalkIs
        <3> QED
            BY <3>4, <3>5
    <2>2. CASE p <= last
        <3>1. missing = 0 /\ from = last
            BY <2>2, <1>3 DEF AtLeast0
        <3>2. /\ down \in Nat
              /\ down > 0 => down <= p + bound - last
            BY <2>2, <1>3, <3>1 DEF AtLeast0, Least
        <3> HIDE DEF down
        <3>3. w.top + down \in 1 .. p /\ p <= w.top + down + w.nr - 1
            BY <1>3, <1>4, <2>2, <3>2
        <3>4. scrolled = w.top + down
            BY <1>3, <3>2, <3>3, WalkIs
        <3> QED
            BY <3>3, <3>4
    <2> QED
        BY <2>1, <2>2, <1>3
<1>5. above \in 1 .. p /\ p <= above + w.nr - 1
    BY <1>3
<1> HIDE DEF scrolled, above
<1>6. /\ n \in Nat /\ top \in 0 .. n /\ p \in 0 .. n
      /\ 1 <= top /\ top <= p /\ p <= top + w.nr - 1
    BY <1>3, <1>4, <1>5
<1> HIDE DEF top
<1>7. Shows([w EXCEPT !.top = top, !.sel = p], n)
    BY <1>1, <1>6, ShowsAgain
<1>8. [w EXCEPT !.top = top, !.sel = p].sel = p
    BY <1>1 DEF Windows
<1> QED
    BY <1>2, <1>7, <1>8

\* Whatever the length of the list, the height and the scroll offset, every
\* command of a window leads to a window that shows its selection.
THEOREM CommandsShow ==
    ASSUME NEW n \in Nat, NEW w, Shows(w, n), NEW v \in Commanded(w, n)
    PROVE  Shows(v, n)
<1>1. 1 \in Nat /\ w.nr - 1 \in Nat /\ (w.nr - 1) \div 2 \in Nat /\ w \in Windows
    BY ShownFields DEF Shows
<1>2. 0 \in 0 .. w.nr - 1 /\ w.nr \div 2 \in 0 .. w.nr - 1 /\ w.nr - 1 \in 0 .. w.nr - 1
    BY <1>1, ShownFields
<1>3. CASE v \in {Up(w, n, 1), Down(w, n, 1), GotoTop(w, n), GotoBottom(w, n)}
    BY <1>1, <1>3, UpShows, DownShows, TopShows, BottomShows DEF GotoTop
<1>4. CASE v \in {PageUp(w, n, w.nr - 1), PageUp(w, n, (w.nr - 1) \div 2)}
    BY <1>1, <1>4, PageUpShows
<1>5. CASE v \in {PageDown(w, n, w.nr - 1), PageDown(w, n, (w.nr - 1) \div 2)}
    BY <1>1, <1>5, PageDownShows
<1>6. CASE v \in {ScrollUp(w, n), ScrollDown(w, n)}
    BY <1>6, ScrollUpShows, ScrollDownShows
<1>7. CASE v = PageTop(w, n)
    <2>1. Walk(w.top, 0, n) = w.top
        BY ShownFields, WalkIs
    <2>2. v = GotoPos(w, n, 0) /\ GotoPos(w, n, 0).sel >= w.top
        BY <1>1, <1>7, <2>1, ShownFields DEF PageTop, GotoPos, Windows
    <2> QED
        BY <1>2, <2>2, GotoPosShows
<1>8. CASE v = PageMiddle(w, n) /\ (v.sel >= w.top \/ n = 0)
    BY <1>2, <1>8, GotoPosShows DEF PageMiddle
<1>9. CASE v = PageBottom(w, n) /\ (v.sel >= w.top \/ n = 0)
    BY <1>2, <1>9, GotoPosShows DEF PageBottom
<1> QED
    BY <1>3, <1>4, <1>5, <1>6, <1>7, <1>8, <1>9 DEF Commanded
=============================================================================
