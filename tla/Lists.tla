------------------------------- MODULE Lists -------------------------------
(***************************************************************************)
(* The lists of the program as the main thread works on them: the library,  *)
(* the playlists and the play queue, the commands of their views, the      *)
(* choice of the next track (app/termus.c) and the result of a cache update *)
(* (ui/job.c), which goes through all of them.                              *)
(*                                                                         *)
(* The commands of a view are those of ui/command_mode.c for it.            *)
(***************************************************************************)
EXTENDS Library, Playlists

CONSTANTS
    Infos,      \* track_infos; some share a file
    Rows,       \* rows of playlists and queue
    PlNames,    \* playlists
    Offset,     \* scroll_offset
    SortKeys,   \* sort keys that the user sets
    Options,    \* values of the playback options
    Caps        \* how much there may be of everything, see Init

VARIABLES
    lib,    \* see Library
    pls,    \* see Playlists
    pq,     \* pq_editable
    opt,    \* shuffle, repeat, follow, auto (auto_reshuffle), stop (stop_after_queue)
    play,   \* library: play_library, active: play_queue_active
    cap     \* bounds of an instance, chosen in Init: lib, pl, pq are numbers of
            \* rows, lists of playlists; texts and heights are the filters and the
            \* heights of the terminal that the user gives, and does the families
            \* of commands, of "edit", "play" and "update"

vars == <<lib, pls, pq, opt, play, cap>>

Init ==
    /\ cap \in Caps
    /\ \E keys \in SortKeys, nr \in cap.heights, l \in PlNames :
          /\ lib = EmptyLibrary(keys, nr, Offset)
          /\ pls = OnePlaylist(l, keys, nr, Offset)
          /\ pq = EmptyList(NoKeys, TRUE, nr, Offset)
    /\ opt \in Options
    /\ play = [library |-> TRUE, active |-> FALSE]

\* pl_playing_track is a pointer: once its track is freed, everything that uses
\* it is undefined, and the model goes no further
Defined == PlayingTrackIn(pls)
Dangling == ~Defined /\ UNCHANGED vars

Does(family) == Defined /\ family \in cap.does

-----------------------------------------------------------------------------
(* The library's view. *)

LibStep(l) == Defined /\ lib' = l /\ UNCHANGED <<pls, pq, opt, play, cap>>

\* a found track is added, or one of another view (win-add-l)
LibAddTrack ==
    \E i \in Infos : /\ Cardinality(lib.hash) < cap.lib
                     /\ \E l \in LibAdd(lib, i) : LibStep(l)

LibCommand ==
    \E w \in Commanded(View(lib.ed), Size(lib.ed)) : LibStep([lib EXCEPT !.ed = Showing(@, w)])

LibEdit ==
    Does("edit") /\ \E e \in {MovedAfter(lib.ed), MovedBefore(lib.ed), Toggled(lib.ed)} \cup Randomised(lib.ed) :
        LibStep([lib EXCEPT !.ed = e])

LibSort == Does("edit") /\ \E k \in SortKeys : LibStep([lib EXCEPT !.ed = Sorted([@ EXCEPT !.keys = k])])
LibWinRemove == LibStep(LibRemoveSel(lib))
LibViewClear == LibStep(LibClear(lib))
LibSelectCurrent == Does("play") /\ LibStep(LibSelCur(lib))

Filters == IF cap.texts = {} THEN {} ELSE cap.texts \cup {NoText}
LibSetFilter ==
    \E t \in Filters : \E l \in SetFilter(lib, t) : LibStep(l)
LibSetLiveFilter ==
    \E t \in Filters : \E l \in SetLiveFilter(lib, t) : LibStep(l)
LibSetAddFilter ==
    \E t \in Filters : LibStep([lib EXCEPT !.addFilter = t])

\* cmd_win_activate: a view number below 2 means the library
LibWinActivate ==
    /\ Does("play")
    /\ lib' = LibActivate(lib, opt)
    /\ IF lib.ed.list = <<>> THEN UNCHANGED play
       ELSE play' = [play EXCEPT !.library = TRUE]
    /\ UNCHANGED <<pls, pq, opt, cap>>

-----------------------------------------------------------------------------
(* The playlists' view. *)

PlStep(p) == Defined /\ pls' = p /\ UNCHANGED <<lib, pq, opt, play, cap>>

FreeRows == Rows \ Used(pls)

PlAddTrack ==
    \E l \in ToSet(pls.order), i \in Infos : \E r \in FreeRows :
        /\ Cardinality(Used(pls)) < cap.pl
        /\ \E p \in AddTrack(pls, l, r, i) : PlStep(p)

PlCommand ==
    IF pls.cursor
    THEN \E w \in Commanded(View(Shown(pls)), Size(Shown(pls))) :
            PlStep(WithShown(pls, Showing(Shown(pls), w)))
    ELSE \E w \in Commanded(ListView(pls), Len(pls.order)) : PlStep(ShowingLists(pls, w))

PlWinNext == PlStep(WinNext(pls))
PlEdit == Does("edit") /\ pls.cursor /\ \E p \in Edited(pls, Infos) : PlStep(p)
\* pl_win_toggle in the window over the lists
PlMarkList == ~pls.cursor /\ PlStep([pls EXCEPT !.marked = pls.visible])
\* pl_set_marked_pl_by_name
PlMarkListByName == \E l \in ToSet(pls.order) : PlStep([pls EXCEPT !.marked = l])

FreshList == CHOOSE l \in PlNames : l \notin ToSet(pls.order)
MayCreate == Len(pls.order) < cap.lists

PlWinRemove ==
    IF pls.cursor THEN PlStep(DeleteSelectedTrack(pls))
    ELSE PlStep(Delete(pls, pls.visible, FreshList))
PlDeleteByName == \E l \in ToSet(pls.order) : PlStep(Delete(pls, l, FreshList))
PlDeleteAll == PlStep(DeleteAll(pls, FreshList))
PlCreate == MayCreate /\ PlStep(Create(pls, FreshList))

PlViewClear == pls.cursor /\ PlStep(ClearVisible(pls))
PlWinUpdate == PlStep(ClearVisible(pls))
PlSort == Does("edit") /\ \E k \in SortKeys : PlStep(SetSort(pls, k))
PlReshuffle == Does("play") /\ \E p \in Reshuffle(pls) : PlStep(p)
PlSelectPlaying == Does("play") /\ PlStep(SelectPlaying(pls))
PlSearch ==
    \E l \in ToSet(pls.order) : \E r \in RowsOf(pls.ed[l]) \cup {NoRow} :
        PlStep(SearchMatch(pls, l, r))

\* cmd_win_activate in the playlists' view, which has the number 1
PlWinActivate ==
    /\ Does("play")
    /\ pls' \in PlaySelectedRow(pls, opt)
    /\ IF Shown(pls).list = <<>> THEN UNCHANGED play
       ELSE play' = [play EXCEPT !.library = TRUE]
    /\ UNCHANGED <<lib, pq, opt, cap>>

-----------------------------------------------------------------------------
(* The queue and its view. *)

PqStep(e) == Defined /\ pq' = e /\ UNCHANGED <<lib, pls, opt, play, cap>>
FreeRow(r) == r \in Rows \ RowsOf(pq) /\ Size(pq) < cap.pq

\* play_queue_append and play_queue_prepend
PqAppend == \E i \in Infos, r \in Rows : FreeRow(r) /\ \E e \in Added(pq, r, i, 1) : PqStep(e)
PqPrepend == \E i \in Infos, r \in Rows : FreeRow(r) /\ \E e \in Added(pq, r, i, -1) : PqStep(e)

\* win-add-q (tiebreak 1) and win-add-Q (tiebreak -1) from the playlists' view,
\* with the tracks that are marked, or the selected one and then the next
PqAddSelected ==
    LET e == Shown(pls)
        Add(tiebreak, es, r) == UNION {Added(x, r, e.info[r], tiebreak) : x \in es}
    IN  /\ Defined /\ pls.cursor
        /\ Targets(e) \cap RowsOf(pq) = {}
        /\ Size(pq) + Cardinality(Targets(e)) <= cap.pq
        /\ \/ pq' \in FoldLeft(LAMBDA es, r : Add(1, es, r), {pq}, ForEachSel(e, FALSE))
           \/ pq' \in FoldLeft(LAMBDA es, r : Add(-1, es, r), {pq}, ForEachSel(e, TRUE))
        /\ pls' = WithShown(pls, Advanced(e))
        /\ UNCHANGED <<lib, opt, play, cap>>

PqCommand == \E w \in Commanded(View(pq), Size(pq)) : PqStep(Showing(pq, w))
PqEdit ==
    Does("edit") /\ \E e \in {Inverted(pq), Unmarked(pq), MovedAfter(pq), MovedBefore(pq), Toggled(pq),
              RemovedSel(pq), Cleared(pq)}
             \cup {Marked(pq, {i}) : i \in Infos} \cup Randomised(pq) :
        PqStep(e)

-----------------------------------------------------------------------------
(* All of them. *)

\* termus_get_next_from_main_thread: the queue is first; after it stop, if the
\* option says so; else the library or the playlists go on
NextTrack ==
    Does("play") /\
    IF pq.list # <<>>
    THEN /\ pq' = Removed(pq, pq.list[1])
         /\ play' = [play EXCEPT !.active = TRUE]
         /\ UNCHANGED <<lib, pls, opt, cap>>
    ELSE /\ play' = [play EXCEPT !.active = FALSE]
         /\ IF play.active /\ opt.stop THEN UNCHANGED <<lib, pls>>
            ELSE IF play.library THEN lib' \in LibGoto(lib, 1, opt) /\ UNCHANGED pls
            ELSE pls' \in Goto(pls, 1, opt) /\ UNCHANGED lib
         /\ UNCHANGED <<pq, opt, cap>>

\* termus_prev
PrevTrack ==
    /\ Does("play")
    /\ IF play.library THEN lib' \in LibGoto(lib, -1, opt) /\ UNCHANGED pls
       ELSE pls' \in Goto(pls, -1, opt) /\ UNCHANGED lib
    /\ UNCHANGED <<pq, opt, play, cap>>

\* job_handle_update_cache_result for one entry: new is a track_info of the
\* same file, or there is no such file any more
UpdateTracks ==
    Does("update") /\ \E old, new \in Infos :
        /\ old # new /\ File[old] = File[new]
        /\ lib' \in LibReplace(lib, old, new)
        /\ pls' = UpdateTrack(pls, old, new)
        /\ pq' = Updated(pq, old, new)
        /\ UNCHANGED <<opt, play, cap>>
RemoveTracks ==
    Does("update") /\ \E old \in Infos :
        /\ lib' = LibRemove(lib, old)
        /\ pls' = RemoveTrack(pls, old)
        /\ pq' = UpdatedAway(pq, old)
        /\ UNCHANGED <<opt, play, cap>>

\* update_window_size
ResizeWindows ==
    Defined /\ \E h \in cap.heights :
        /\ lib' = [lib EXCEPT !.ed = Showing(@, SetNrRows(View(@), Size(@), h))]
        /\ pls' = Resize(pls, h)
        /\ pq' = Showing(pq, SetNrRows(View(pq), Size(pq), h))
        /\ UNCHANGED <<opt, play, cap>>

\* options: set and toggle
SetOptions == Does("play") /\ opt' \in Options /\ UNCHANGED <<lib, pls, pq, play, cap>>
TogglePlayLibrary ==
    /\ Does("play")
    /\ play' = [play EXCEPT !.library = ~@]
    /\ UNCHANGED <<lib, pls, pq, opt, cap>>

LibNext ==
    \/ LibAddTrack \/ LibCommand \/ LibEdit \/ LibSort \/ LibWinRemove \/ LibViewClear
    \/ LibSelectCurrent \/ LibSetFilter \/ LibSetLiveFilter \/ LibSetAddFilter
    \/ LibWinActivate
PlNext ==
    \/ PlAddTrack \/ PlCommand \/ PlWinNext \/ PlEdit \/ PlMarkList \/ PlMarkListByName
    \/ PlWinRemove \/ PlDeleteByName \/ PlDeleteAll \/ PlCreate \/ PlViewClear
    \/ PlWinUpdate \/ PlSort \/ PlReshuffle \/ PlSelectPlaying \/ PlSearch \/ PlWinActivate
PqNext == PqAppend \/ PqPrepend \/ PqAddSelected \/ PqCommand \/ PqEdit
AllNext ==
    \/ NextTrack \/ PrevTrack \/ UpdateTracks \/ RemoveTracks \/ ResizeWindows
    \/ SetOptions \/ TogglePlayLibrary

Next == LibNext \/ PlNext \/ PqNext \/ AllNext \/ Dangling

Spec == Init /\ [][Next]_vars

-----------------------------------------------------------------------------
(* Properties. *)

Lists_ == {lib.ed, pq} \cup {pls.ed[l] : l \in ToSet(pls.order)}

\* Rows are rows, no list holds one twice, and the bounds hold.
TypeOK ==
    /\ RowsOf(pq) \cup Used(pls) \subseteq Rows
    /\ lib.hash \subseteq Infos /\ pls.track \in Rows \cup {NoRow}
    /\ ToSet(pls.order) \subseteq PlNames
    /\ \A e \in Lists_ : IsInjective(e.list)
    /\ {lib.ed.nr, pq.nr} \cup {pls.ed[l].nr : l \in {pls.visible}} \subseteq cap.heights

\* Whatever was typed, added, removed, moved or filtered: in every window a row
\* is selected if there is one, and it is on the screen (window.c).
SelectionIsShown ==
    Defined => /\ \A e \in Lists_ : WindowShowsSelection(e)
               /\ ShowsSelection(ListView(pls), Len(pls.order))

\* tree_root of every list holds the first of the list and follows its order
\* (sorted_list_add_track, sorted_list_remove_track, reset_tree).
TreesFollowLists == \A e \in Lists_ : TreeFollowsList(e)

\* Every track of the library's view and of the playlists is once in the order
\* in which shuffled tracks are played.
ShufflesHoldLists == \A e \in Lists_ \ {pq} : ShuffleHoldsList(e)

\* What is visible, marked and playing is there, see Playlists.
PlaylistsAgree == Defined => ListsAgree(pls)

\* The three orders a list is kept in, and the list of the lists, agree.
OrdersAgree == TypeOK /\ TreesFollowLists /\ ShufflesHoldLists /\ PlaylistsAgree

\* The library's view is what the filters let through, see Library.
LibraryIsFiltered == ViewIsFiltered(lib)

\* The current track is in the library's view.
LibraryCurIsInView == CurIsInView(lib)

\* The library's view is the one its filters, its hash and its current track ask for.
LibraryIsSound == LibraryIsFiltered /\ LibraryCurIsInView

\* The track that plays is in its playlist (the comment at pl.c:41).
PlayingTrackIsInItsList == PlayingTrackIn(pls)

\* A filter that lets the current track through leaves it the current track,
\* though the view may have been taken down and made anew (do_lib_filter).
CurSurvivesFilters ==
    [][ (lib'.live # lib.live \/ lib'.filter # lib.filter) /\ lib.cur # NoRow
          /\ InView(lib', CurInfo(lib))
        => lib'.cur = lib.cur ]_lib

\* A list that is in order stays so when tracks come or go (sorted insertion
\* and the tree that remembers where groups of equals begin).
InOrder(e) ==
    /\ \A i, j \in DOMAIN e.list : i < j => Cmp(e.info[e.list[i]], e.info[e.list[j]], e.keys) <= 0
    /\ ToSet(e.tree) = {e.list[i] : i \in {k \in DOMAIN e.list :
                          k > 1 => Cmp(e.info[e.list[k - 1]], e.info[e.list[k]], e.keys) # 0}}
KeptInOrder(e, f) ==
    InOrder(e) /\ f.keys = e.keys /\ RowsOf(f) # RowsOf(e)
      /\ (\A r \in RowsOf(e) \cap RowsOf(f) : f.info[r] = e.info[r])
    => InOrder(f)
OrderIsKept ==
    [][ /\ KeptInOrder(lib.ed, lib'.ed) /\ KeptInOrder(pq, pq')
        /\ \A l \in ToSet(pls.order) \cap ToSet(pls'.order) :
              KeptInOrder(pls.ed[l], pls'.ed[l]) ]_vars

\* The queue is a queue: tracks join it at its ends, and those that wait keep
\* their order unless they are moved or shuffled (play_queue.c).
QueueKeepsOrder ==
    [][ LET stay == RowsOf(pq) \cap RowsOf(pq')
            Stayed(s) == SelectSeq(s, LAMBDA r : r \in stay)
        IN  RowsOf(pq') # RowsOf(pq)
            => /\ Stayed(pq'.list) = Stayed(pq.list)
               /\ IsPrefix(Stayed(pq.list), pq'.list) \/ IsSuffix(Stayed(pq.list), pq'.list)
      ]_pq

\* No list is shaken up by what comes and goes.
ListsKeepOrder == OrderIsKept /\ QueueKeepsOrder
=============================================================================
