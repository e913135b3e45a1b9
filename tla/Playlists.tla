----------------------------- MODULE Playlists -----------------------------
(***************************************************************************)
(* The playlists of library/pl.c: the lists, the window over the lists and *)
(* the one over the tracks of the visible list, the list and the track      *)
(* that play.                                                              *)
(*                                                                         *)
(* The state p is a record                                                 *)
(*     order    pl_head                                                    *)
(*     ed       the editable of every list, see Editable                   *)
(*     top, sel pl_list_win (its height and scroll offset are those of the *)
(*              track window)                                              *)
(*     visible, marked, playing  pl_visible, pl_marked, pl_playing          *)
(*     track    pl_playing_track                                           *)
(*     cursor   pl_cursor_in_track_window                                  *)
(* Operators give the state, or the set of states, after an operation. What *)
(* the worker has to do with playlists is in module Jobs.                  *)
(***************************************************************************)
EXTENDS Editable

NoPl == "none"

Used(p) == UNION {RowsOf(p.ed[l]) : l \in ToSet(p.order)}
Shown(p) == p.ed[p.visible]
Height(p) == Shown(p).nr
WithShown(p, e) == [p EXCEPT !.ed[p.visible] = e]

ListView(p) ==
    [top |-> PlaceOf(p.order, p.top), sel |-> PlaceOf(p.order, p.sel),
     nr |-> Height(p), off |-> Shown(p).off]

\* pl_list_sel_changed: the selected list is visible, and its tracks are shown
Visible(p, l) ==
    [p EXCEPT !.visible = l,
              !.ed = [m \in DOMAIN @ |->
                         IF m = l THEN TakeOwnership(@[m], Height(p), Shown(p).off)
                         ELSE LoseOwnership(@[m])]]
ShowingLists(p, w) ==
    Visible([p EXCEPT !.top = p.order[w.top], !.sel = p.order[w.sel]], p.order[w.sel])
SelectList(p, l) == ShowingLists(p, SetSel(ListView(p), Len(p.order), PlaceOf(p.order, l)))

\* pl_init: one list, and nothing in it yet
OnePlaylist(l, keys, nr, off) ==
    [order |-> <<l>>, ed |-> (l :> EmptyList(keys, TRUE, nr, off)),
     top |-> l, sel |-> l, visible |-> l, marked |-> l, playing |-> NoPl,
     track |-> NoRow, cursor |-> FALSE]

MarkForRedraw(p) == WithShown(p, MarkChanged(Shown(p)))
WinNext(p) ==
    MarkForRedraw([p EXCEPT !.cursor = ~p.cursor /\ Shown(p).list # <<>>])

-----------------------------------------------------------------------------
(* Tracks come, and are edited in the visible list. *)

\* pl_add_track
AddTrack(p, l, r, i) ==
    {[p EXCEPT !.ed[l] = e] :
        e \in UNION {ShuffledIn(x, r) : x \in Added(p.ed[l], r, i, 1)}}

\* pl_delete_selected_track
DeleteSelectedTrack(p) ==
    LET track == IF Selected(Shown(p)) = p.track THEN NoRow ELSE p.track
        q == WithShown([p EXCEPT !.track = track], RemovedSel(Shown(p)))
    IN  IF Shown(q).list = <<>> THEN WinNext(q) ELSE q

\* pl_clear_visible_pl, also the first half of pl_win_update
ClearVisible(p) ==
    LET q == IF p.cursor THEN WinNext(p) ELSE p
    IN  WithShown([q EXCEPT !.track = IF q.visible = q.playing THEN NoRow ELSE @],
                  Cleared(Shown(q)))

\* what the commands of the track window can make of the visible list: invert,
\* mark, unmark, rand, win-mv-after, win-mv-before, win-toggle
Edited(p, Infos) ==
    {WithShown(p, e) : e \in
        {Inverted(Shown(p)), Unmarked(Shown(p)), MovedAfter(Shown(p)),
         MovedBefore(Shown(p)), Toggled(Shown(p))}
        \cup {Marked(Shown(p), {i}) : i \in Infos}
        \cup Randomised(Shown(p))}

\* pl_update_track for a new info of the file, and for one that is gone
UpdateTrack(p, old, new) ==
    [p EXCEPT !.ed = [l \in DOMAIN @ |-> Updated(@[l], old, new)]]
RemoveTrack(p, old) ==
    [p EXCEPT !.ed = [l \in DOMAIN @ |-> UpdatedAway(@[l], old)]]

\* pl_set_sort_str
SetSort(p, keys) ==
    [p EXCEPT !.ed = [l \in DOMAIN @ |-> Sorted([@[l] EXCEPT !.keys = keys])]]

\* pl_set_nr_rows: the window over the lists, then the one over the tracks
Resize(p, rows) ==
    LET w == SetNrRows(ListView(p), Len(p.order), rows)
        q == ShowingLists(p, w)
    IN  WithShown(q, Owned(Shown(q), SetNrRows(View(Shown(q)), Size(Shown(q)), rows)))

-----------------------------------------------------------------------------
(* Lists come and go. *)

\* pl_create and pl_import; the new list has the shared sort keys
Create(p, l) ==
    [p EXCEPT !.order = Append(@, l),
              !.ed = (l :> EmptyList(Shown(p).keys, FALSE, 1, Shown(p).off)) @@ @]

\* faulty: the marked list is not looked at
DeleteMarkedStays(p, l, fresh) ==
    LET q == IF Len(p.order) = 1 THEN Create(p, fresh) ELSE p
        w == RowVanishes(ListView(q), Len(q.order), PlaceOf(q.order, l))
        v == IF q.sel = l THEN ShowingLists(q, w) ELSE [q EXCEPT !.top = q.order[w.top]]
        order == Without(v.order, l)
    IN  [v EXCEPT !.order = order,
                  !.ed = [m \in ToSet(order) |-> @[m]],
                  !.playing = IF @ = l THEN NoPl ELSE @,
                  !.track = IF v.playing = l THEN NoRow ELSE @]

\* pl_delete; fresh is the list "Default" that is made if this is the last one
Delete(p, l, fresh) ==
    LET q == IF Len(p.order) = 1 THEN Create(p, fresh) ELSE p
        w == RowVanishes(ListView(q), Len(q.order), PlaceOf(q.order, l))
        v == IF q.sel = l THEN ShowingLists(q, w) ELSE [q EXCEPT !.top = q.order[w.top]]
        order == Without(v.order, l)
    IN  [v EXCEPT !.order = order,
                  !.ed = [m \in ToSet(order) |-> @[m]],
                  !.marked = IF @ = l THEN v.visible ELSE @,
                  !.playing = IF @ = l THEN NoPl ELSE @,
                  !.track = IF v.playing = l THEN NoRow ELSE @]

\* pl_delete_all
DeleteAll(p, fresh) ==
    Delete(FoldLeft(LAMBDA q, l : Delete(q, l, fresh), p, Front(p.order)), Last(p.order), fresh)

-----------------------------------------------------------------------------
(* Playing. opt is the record of the playback options: shuffle, repeat,     *)
(* follow, auto (auto_reshuffle).                                          *)

\* pl_select_playing_track
SelectPlaying(p) ==
    IF p.track = NoRow THEN p
    ELSE LET o == [p EXCEPT !.ed = [m \in DOMAIN @ |->
                      IF m = p.playing THEN TakeOwnership(@[m], Height(p), Shown(p).off)
                      ELSE LoseOwnership(@[m])],
                            !.visible = p.playing]
             s == WithShown(o, SelectRow(Shown(o), p.track))
             t == SelectList(s, p.playing)
         IN  [(IF t.cursor THEN t ELSE MarkForRedraw(t)) EXCEPT !.cursor = TRUE]

\* pl_play_track
PlayTrack(p, l, r, follow) ==
    LET q == MarkForRedraw([p EXCEPT !.track = r, !.playing = l])
    IN  IF follow THEN SelectPlaying(q) ELSE q

\* pl_play_first_in_pl_playing
PlayFirst(p, opt) ==
    LET l == IF p.playing = NoPl THEN p.visible ELSE p.playing
        e == p.ed[l]
    IN  IF e.list = <<>> THEN {[p EXCEPT !.playing = NoPl]}
        ELSE IF opt.shuffle
        THEN {PlayTrack([p EXCEPT !.ed[l] = s[1]], l, s[2], opt.follow) :
                 s \in ShuffleStep(e, NoRow, 1, RowsOf(e), opt.repeat, opt.auto)}
        ELSE {PlayTrack(p, l, e.list[1], opt.follow)}

\* pl_goto_next (d = 1) and pl_goto_prev (d = -1)
Goto(p, d, opt) ==
    LET l == p.playing
        e == p.ed[l]
        found == IF opt.shuffle
                 THEN ShuffleStep(e, p.track, d, RowsOf(e), opt.repeat, opt.auto)
                 ELSE {<<e, ListStep(e, p.track, d, RowsOf(e), opt.repeat)>>}
    IN  IF p.track = NoRow THEN PlayFirst(p, opt)
        ELSE {IF f[2] = NoRow THEN p
              ELSE PlayTrack([p EXCEPT !.ed[l] = f[1]], l, f[2], opt.follow) : f \in found}

\* pl_play_selected_row: the track comes right after the one that played, but
\* only in its own shuffle list
PlaySelectedRow(p, opt) ==
    LET l == p.visible
        e == Shown(p)
        shuffled == ~p.cursor /\ opt.shuffle
        played == IF shuffled
                  THEN {PlayTrack([p EXCEPT !.ed[l] = s[1]], l, s[2], TRUE) :
                           s \in ShuffleStep(e, NoRow, 1, RowsOf(e), opt.repeat, opt.auto)}
                  ELSE {PlayTrack(p, l, Selected(e), opt.follow)}
        Inserting(q) ==
            IF opt.shuffle /\ p.playing = l /\ p.track # NoRow
            THEN [q EXCEPT !.ed[l] = ShuffleInsert(@, p.track, q.track)] ELSE q
    IN  IF e.list = <<>> THEN {p}
        ELSE {[Inserting(q) EXCEPT !.cursor = p.cursor] : q \in played}

\* pl_reshuffle
Reshuffle(p) ==
    IF p.playing = NoPl THEN {p}
    ELSE {[p EXCEPT !.ed[p.playing] =
              IF p.track = NoRow THEN e ELSE ShuffleInsert(e, NoRow, p.track)] :
              e \in Reshuffled(p.ed[p.playing])}

\* pl_search_matches for a match of the list l, or of its track r
SearchMatch(p, l, r) ==
    LET q == SelectList(p, l)
    IN  [(IF r = NoRow THEN q ELSE WithShown(q, SelectRow(Shown(q), r)))
            EXCEPT !.cursor = r # NoRow]

-----------------------------------------------------------------------------
(* Properties of the state. *)

\* The comment over pl_playing_track (pl.c:41): it is set only with pl_playing
\* and is a track of that list.
PlayingTrackIn(p) ==
    p.track # NoRow => p.playing # NoPl /\ p.track \in RowsOf(p.ed[p.playing])

\* The lists that are shown, marked and played exist, the selected list is the
\* visible one and alone owns the track window.
ListsAgree(p) ==
    /\ {p.visible, p.marked} \subseteq ToSet(p.order)
    /\ p.playing \in ToSet(p.order) \cup {NoPl}
    /\ DOMAIN p.ed = ToSet(p.order)
    /\ p.sel = p.visible
    /\ \A l \in DOMAIN p.ed : p.ed[l].own <=> l = p.visible
=============================================================================
