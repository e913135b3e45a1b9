------------------------------ MODULE Editable ------------------------------
(***************************************************************************)
(* A list of tracks that the user edits (library/editable.c on the lists of *)
(* core/track.c): the library's view, every playlist and the play queue.    *)
(*                                                                         *)
(* A list is a record                                                      *)
(*     list    the tracks (struct simple_track) in order                   *)
(*     tree    the tracks that tree_root holds, in order: the first one of *)
(*             every group of tracks that compare equal by the sort keys   *)
(*     info    the track_info of every track                               *)
(*     marked  the marked tracks                                           *)
(*     total   total_time                                                  *)
(*     keys    the sort keys of the shared part: NoKeys or ByKey           *)
(*     shuffle the tracks in the order of their shuffle tree               *)
(*     own     this list is the one its window shows                       *)
(*     top, sel, nr, off   that window, see Window: the window points to   *)
(*             tracks, which become positions when a command needs them     *)
(* Operators of this module return a list, or the set of lists that an     *)
(* operation may return where the code chooses at random or where the      *)
(* search in the tree depends on its shape.                                *)
(*                                                                         *)
(* Definitions marked "faulty" are not part of the model: they are defects  *)
(* that the properties are tried against.                                  *)
(***************************************************************************)
EXTENDS Window, SequencesExt

CONSTANTS Key, Duration     \* of every track_info

NoRow == "head"             \* a window that points to the head
NoKeys == "none"
ByKey == "key"

EmptyList(keys, own, nr, off) ==
    [list |-> <<>>, tree |-> <<>>, info |-> <<>>, marked |-> {}, total |-> 0,
     keys |-> keys, shuffle |-> <<>>, own |-> own,
     top |-> NoRow, sel |-> NoRow, nr |-> nr, off |-> off]

RowsOf(e) == ToSet(e.list)
Size(e) == Len(e.list)
PlaceOf(s, r) == CHOOSE i \in DOMAIN s : s[i] = r
Without(s, r) == SelectSeq(s, LAMBDA x : x # r)
IsBefore(s, a, b) == PlaceOf(s, a) < PlaceOf(s, b)

-----------------------------------------------------------------------------
(* The window of the list: editable_view.c passes every call on. *)

Pos(e, r) == IF r = NoRow THEN ListHead ELSE PlaceOf(e.list, r)
Row(e, p) == IF p = ListHead THEN NoRow ELSE e.list[p]
View(e) == [top |-> Pos(e, e.top), sel |-> Pos(e, e.sel), nr |-> e.nr, off |-> e.off]
Showing(e, w) == [e EXCEPT !.top = Row(e, w.top), !.sel = Row(e, w.sel), !.nr = w.nr]

\* shared_view_...: only the owner's window is touched
Owned(e, w) == IF e.own THEN Showing(e, w) ELSE e
MarkChanged(e) == IF e.own THEN Showing(e, Changed(View(e), Size(e))) ELSE e
TakeOwnership(e, nr, off) ==
    IF e.own THEN e
    ELSE LET o == [e EXCEPT !.own = TRUE, !.top = NoRow, !.sel = NoRow, !.nr = nr, !.off = off]
         IN  MarkChanged(Showing(o, SetContents(View(o), Size(o))))
LoseOwnership(e) == [e EXCEPT !.own = FALSE, !.top = NoRow, !.sel = NoRow]

Selected(e) == IF e.own THEN e.sel ELSE NoRow
SelectRow(e, r) == Owned(e, SetSel(View(e), Size(e), Pos(e, r)))
SelectNext(e) == Owned(e, Down(View(e), Size(e), 1))

-----------------------------------------------------------------------------
(* The list and its tree (core/track.c). *)

\* track_info_cmp: 0, or less, or more
Cmp(i, j, keys) == IF keys = NoKeys THEN 0 ELSE Key[i] - Key[j]

\* the tree nodes found equal, and the gaps between nodes where the search ends
EqualAt(e, i, keys) == {j \in DOMAIN e.tree : Cmp(i, e.info[e.tree[j]], keys) = 0}
GapsAt(e, i, keys) ==
    {g \in 0..Len(e.tree) :
        /\ g > 0 => Cmp(i, e.info[e.tree[g]], keys) > 0
        /\ g < Len(e.tree) => Cmp(i, e.info[e.tree[g + 1]], keys) < 0}

\* list_add(&track->node, node->prev): before the j-th node of the tree
PutBefore(e, r, j) ==
    IF j > Len(e.tree) THEN Append(e.list, r)
    ELSE InsertAt(e.list, PlaceOf(e.list, e.tree[j]), r)

\* faulty: the node of the tree stays when a track is put before it
InsertedNodeKept(e, r, keys, tiebreak) ==
    {IF tiebreak < 0
     THEN [e EXCEPT !.list = PutBefore(e, r, j)]
     ELSE [e EXCEPT !.list = PutBefore(e, r, j + 1)] : j \in EqualAt(e, e.info[r], keys)}
    \cup
    {[e EXCEPT !.list = PutBefore(e, r, g + 1), !.tree = InsertAt(e.tree, g + 1, r)] :
        g \in GapsAt(e, e.info[r], keys)}

\* sorted_list_add_track; r is in e.info already
Inserted(e, r, keys, tiebreak) ==
    {IF tiebreak < 0
     THEN [e EXCEPT !.list = PutBefore(e, r, j), !.tree[j] = r]
     ELSE [e EXCEPT !.list = PutBefore(e, r, j + 1)] : j \in EqualAt(e, e.info[r], keys)}
    \cup
    {[e EXCEPT !.list = PutBefore(e, r, g + 1), !.tree = InsertAt(e.tree, g + 1, r)] :
        g \in GapsAt(e, e.info[r], keys)}

\* sorted_list_remove_track: the next track takes the node of the tree, unless
\* it has one
TreeWithout(e, r) ==
    IF r \notin ToSet(e.tree) THEN e.tree
    ELSE LET p == PlaceOf(e.list, r)
             next == IF p < Size(e) THEN e.list[p + 1] ELSE NoRow
         IN  IF next = NoRow \/ next \in ToSet(e.tree) THEN Without(e.tree, r)
             ELSE ReplaceAt(e.tree, PlaceOf(e.tree, r), next)

\* sorted_list_rebuild and rand_list_rebuild: the tracks are taken out one by
\* one and added to an empty list, in order or shuffled
Rebuilt(e, keys, order) ==
    LET Add(es, r) == UNION {Inserted(x, r, keys, 0) : x \in es}
    IN  CHOOSE x \in FoldLeft(Add, {[e EXCEPT !.list = <<>>, !.tree = <<>>]}, order) : TRUE

-----------------------------------------------------------------------------
(* The operations (library/editable.c). *)

TimeOf(i) == IF Duration[i] = -1 THEN 0 ELSE Duration[i]

\* do_editable_add. A playlist and the library also put the track into their
\* shuffle tree, at a random place; in the queue that field stays empty
Added(e, r, i, tiebreak) ==
    {MarkChanged(x) :
        x \in Inserted([e EXCEPT !.info = [q \in RowsOf(e) \cup {r} |->
                                              IF q = r THEN i ELSE e.info[q]],
                                 !.total = @ + TimeOf(i)],
                       r, e.keys, tiebreak)}

ShuffledIn(e, r) == {[e EXCEPT !.shuffle = InsertAt(e.shuffle, g, r)] : g \in 1..Len(e.shuffle) + 1}

\* editable_remove_track, and free_track of the playlists and the library
Removed(e, r) ==
    LET v == Owned(e, RowVanishes(View(e), Size(e), Pos(e, r)))
    IN  [v EXCEPT !.list = Without(e.list, r),
                  !.tree = TreeWithout(e, r),
                  !.info = [q \in RowsOf(e) \ {r} |-> e.info[q]],
                  !.marked = @ \ {r},
                  !.total = @ - TimeOf(e.info[r]),
                  !.shuffle = Without(e.shuffle, r)]

RemovedAll(e, rows) == FoldLeft(Removed, e, SelectSeq(e.list, LAMBDA r : r \in rows))
Cleared(e) == RemovedAll(e, RowsOf(e))

\* marked tracks, or else the selected one
Targets(e) == IF e.marked # {} THEN e.marked ELSE {Selected(e)} \ {NoRow}
RemovedSel(e) == RemovedAll(e, Targets(e))
\* _editable_for_each_sel: the tracks the callback gets, in order
ForEachSel(e, reverse) ==
    LET s == SelectSeq(e.list, LAMBDA r : r \in Targets(e))
    IN  IF reverse THEN Reverse(s) ELSE s
\* editable_for_each_sel: after the callbacks, with the flag advance
Advanced(e) == IF e.marked = {} THEN SelectNext(e) ELSE e

\* editable_sort and editable_rand
AtTop(e) == Owned(e, GotoTop(View(MarkChanged(e)), Size(e)))
Sorted(e) == IF Size(e) <= 1 THEN e ELSE AtTop(Rebuilt(e, e.keys, e.list))
Randomised(e) ==
    IF Size(e) <= 1 THEN {e}
    ELSE {AtTop(Rebuilt(e, NoKeys, order)) : order \in SetToSeqs(RowsOf(e))}

\* editable_mark with a filter that matches the infos in S, editable_unmark,
\* editable_invert_marks, editable_toggle_mark
Marked(e, S) == MarkChanged([e EXCEPT !.marked = {r \in RowsOf(e) : e.info[r] \in S}])
Unmarked(e) == MarkChanged([e EXCEPT !.marked = {}])
Inverted(e) == MarkChanged([e EXCEPT !.marked = RowsOf(e) \ @])
Toggled(e) ==
    IF Selected(e) = NoRow THEN e
    ELSE SelectNext(MarkChanged([e EXCEPT !.marked = SymDiff(@, {e.sel})]))

\* editable_update_track: the tracks of old get the info new, or are removed
Updated(e, old, new) ==
    LET rows == {r \in RowsOf(e) : e.info[r] = old}
    IN  IF rows = {} THEN e
        ELSE MarkChanged([e EXCEPT !.info = [r \in RowsOf(e) |->
                                               IF r \in rows THEN new ELSE e.info[r]]])
UpdatedAway(e, old) ==
    LET rows == {r \in RowsOf(e) : e.info[r] = old}
    IN  IF rows = {} THEN e ELSE MarkChanged(RemovedAll(e, rows))

-----------------------------------------------------------------------------
(* Moving tracks. *)

RingPrev(e, p) == Walk(p, -1, Size(e))
LastUnmarkedUpTo(e, p) ==
    CHOOSE q \in 0..p : /\ q = ListHead \/ e.list[q] \notin e.marked
                        /\ \A i \in q + 1..p : e.list[i] \in e.marked

\* find_insert_after_point and find_insert_before_point: the track to put the
\* others after; the selected track alone moves one row, round the ring
AfterPoint(e) ==
    LET p == Pos(e, e.sel)
    IN  IF e.marked = {} THEN Walk(p, 1, Size(e)) ELSE LastUnmarkedUpTo(e, p)
BeforePoint(e) ==
    LET p == RingPrev(e, Pos(e, e.sel))
    IN  IF e.marked = {} THEN RingPrev(e, p) ELSE LastUnmarkedUpTo(e, p)

\* move_item takes the tracks out one after the other (in this order: each is
\* put at the front of the list of moved tracks, which is put back from its
\* front), reset_tree then makes the first track the only node of the tree
TakenOut(e, r) == [Owned(e, RowVanishes(View(e), Size(e), Pos(e, r))) EXCEPT
                     !.list = Without(e.list, r)]

\* faulty: reset_tree is left out
MovedToOldTree(e, after) ==
    LET moving == ForEachSel(e, FALSE)
        rest == FoldLeft(TakenOut, e, moving)
        at == IF after = NoRow THEN 0 ELSE PlaceOf(rest.list, after)
        list == SubSeq(rest.list, 1, at) \o moving \o SubSeq(rest.list, at + 1, Size(rest))
    IN  SelectRow(MarkChanged([rest EXCEPT !.list = list]), moving[1])

MovedTo(e, after) ==
    LET moving == ForEachSel(e, FALSE)
        rest == FoldLeft(TakenOut, e, moving)
        at == IF after = NoRow THEN 0 ELSE PlaceOf(rest.list, after)
        list == SubSeq(rest.list, 1, at) \o moving \o SubSeq(rest.list, at + 1, Size(rest))
        e2 == [rest EXCEPT !.list = list, !.tree = ReplaceAt(@, 1, list[1])]
    IN  SelectRow(MarkChanged(e2), moving[1])

Movable(e) == Size(e) > 1 /\ e.keys = NoKeys /\ Selected(e) # NoRow
MovedAfter(e) == IF Movable(e) THEN MovedTo(e, Row(e, AfterPoint(e))) ELSE e
MovedBefore(e) == IF Movable(e) THEN MovedTo(e, Row(e, BeforePoint(e))) ELSE e

-----------------------------------------------------------------------------
(* Stepping from track to track (core/track.c). Allowed: the tracks that    *)
(* filter_callback lets through, all of them without one.                   *)

\* the first allowed track at or after place p in direction d, NoRow if none
FirstFrom(s, p, d, allowed) ==
    LET places == {q \in DOMAIN s : s[q] \in allowed /\ (q - p) * d >= 0}
    IN  IF places = {} THEN NoRow
        ELSE s[CHOOSE q \in places : \A x \in places : (q - p) * d <= (x - p) * d]

Edge(s, d) == IF d = 1 THEN 1 ELSE Len(s)

\* simple_list_get_next (d = 1) and simple_list_get_prev (d = -1) with
\* allow_repeat; the list is not empty
ListStep(e, cur, d, allowed, repeat) ==
    IF cur = NoRow THEN e.list[Edge(e.list, d)]
    ELSE LET ahead == FirstFrom(e.list, PlaceOf(e.list, cur) + d, d, allowed)
         IN  IF ahead = NoRow /\ repeat
             THEN FirstFrom(e.list, Edge(e.list, d), d, allowed) ELSE ahead

\* the orders that the shuffle tree can have now: shuffle_list_reshuffle draws
\* new ones
Reshuffled(e) == {[e EXCEPT !.shuffle = s] : s \in SetToSeqs(RowsOf(e))}
MaybeReshuffled(e, auto) == IF auto THEN Reshuffled(e) ELSE {e}

\* shuffle_list_get_next and shuffle_list_get_prev: the list after the step
\* with the track found, for every outcome
ShuffleStep(e, cur, d, allowed, repeat, auto) ==
    LET ahead == FirstFrom(e.shuffle, PlaceOf(e.shuffle, cur) + d, d, allowed)
    IN  IF cur = NoRow
        THEN {<<x, x.shuffle[Edge(x.shuffle, d)]>> : x \in MaybeReshuffled(e, auto)}
        ELSE IF ahead = NoRow /\ repeat
        THEN {<<x, FirstFrom(x.shuffle, Edge(x.shuffle, d), d, allowed)>> :
                 x \in MaybeReshuffled(e, auto)}
        ELSE {<<e, ahead>>}

\* faulty: the track is put in once more without being taken out
ShuffleInsertTwice(e, previous, next) ==
    IF previous = next THEN e
    ELSE LET at == IF previous = NoRow THEN 1 ELSE PlaceOf(e.shuffle, previous) + 1
         IN  [e EXCEPT !.shuffle = InsertAt(@, at, next)]

\* shuffle_insert: next comes right after previous, or first
ShuffleInsert(e, previous, next) ==
    IF previous = next THEN e
    ELSE LET rest == Without(e.shuffle, next)
             at == IF previous = NoRow THEN 1 ELSE PlaceOf(rest, previous) + 1
         IN  [e EXCEPT !.shuffle = InsertAt(rest, at, next)]

-----------------------------------------------------------------------------
(* What every list must keep, whatever was done to it. *)

\* The tree holds tracks of the list, in the list's order, the first one too:
\* otherwise a track is linked at the wrong place, or to a freed one.
TreeFollowsList(e) ==
    /\ (e.list = <<>>) = (e.tree = <<>>)
    /\ e.list # <<>> => e.tree[1] = e.list[1]
    /\ \A i, j \in DOMAIN e.tree : i < j => IsBefore(e.list, e.tree[i], e.tree[j])
    /\ e.keys = NoKeys => Len(e.tree) =< 1

WindowShowsSelection(e) == e.own => ShowsSelection(View(e), Size(e))

\* A shuffle tree holds every track of the list once.
ShuffleHoldsList(e) == ToSet(e.shuffle) = RowsOf(e) /\ Len(e.shuffle) = Size(e)
=============================================================================
