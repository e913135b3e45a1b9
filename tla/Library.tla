------------------------------ MODULE Library ------------------------------
(***************************************************************************)
(* The library of library/lib.c: a hash table of every file, and a view, an *)
(* editable list of those that pass the filters.                           *)
(*                                                                         *)
(* The state l is a record                                                 *)
(*     ed       lib_editable, see Editable (it always has its window); a    *)
(*              file has at most one row, which is called like the file     *)
(*     hash     the track_infos of ti_hash, at most one of a file          *)
(*     cur      lib_cur_track, a row of ed                                 *)
(*     curTi, selTi  cur_track_ti, sel_track_ti                            *)
(*     live, filter, addFilter  lib_live_filter (with live_filter_expr),   *)
(*              filter, add_filter: NoText or a text                       *)
(* Texts are the filters that a user writes; what they accept is module     *)
(* Filters' matter and here a table.                                       *)
(***************************************************************************)
EXTENDS Editable

CONSTANTS
    File,       \* the file of every track_info
    Texts,      \* filter texts
    Accepts,    \* the infos a text accepts
    IsExpr,     \* expr_is_short: the text is an expression
    Harmless,   \* expr_is_harmless of that expression
    Includes    \* strstr: <<a, b>> if the text a contains the text b

NoText == "none"
NoInfo == "none"

Passes(text, i) == text = NoText \/ i \in Accepts[text]

EmptyLibrary(keys, nr, off) ==
    [ed |-> EmptyList(keys, TRUE, nr, off), hash |-> {}, cur |-> NoRow,
     curTi |-> NoInfo, selTi |-> NoInfo,
     live |-> NoText, filter |-> NoText, addFilter |-> NoText]

\* is_filtered, the other way round
InView(l, i) == Passes(l.live, i) /\ Passes(l.filter, i)

WithFile(s, i) == {j \in s : File[j] = File[i]}
CurInfo(l) == l.ed.info[l.cur]
\* lib_find_track
RowWithFile(l, i) == {r \in RowsOf(l.ed) : File[l.ed.info[r]] = File[i]}

-----------------------------------------------------------------------------
(* Tracks come and go. *)

\* views_add_track
Viewed(l, i) ==
    {[l EXCEPT !.ed = e] :
        e \in UNION {ShuffledIn(x, File[i]) : x \in Added(l.ed, File[i], i, 1)}}

\* faulty: a file that is there already is added once more
LibAddTwice(l, i) ==
    IF ~Passes(l.addFilter, i) THEN {l}
    ELSE LET h == [l EXCEPT !.hash = @ \cup {i}]
         IN  IF InView(l, i) THEN Viewed(h, i) ELSE {h}

\* lib_add_track
LibAdd(l, i) ==
    IF ~Passes(l.addFilter, i) \/ WithFile(l.hash, i) # {} THEN {l}
    ELSE LET h == [l EXCEPT !.hash = @ \cup {i}]
         IN  IF InView(l, i) THEN Viewed(h, i) ELSE {h}

\* free_lib_track
Freed(l, rows, fromHash) ==
    [l EXCEPT !.cur = IF @ \in rows THEN NoRow ELSE @,
              !.hash = IF fromHash
                       THEN @ \ UNION {WithFile(@, l.ed.info[r]) : r \in rows} ELSE @]

\* faulty: the track that plays is not looked at
LibDropKeepsCur(l, rows, fromHash) ==
    [Freed(l, rows, fromHash) EXCEPT !.ed = RemovedAll(@, rows), !.cur = l.cur]

\* editable_remove_track and its callers, with remove_from_hash or without
LibDrop(l, rows, fromHash) ==
    [Freed(l, rows, fromHash) EXCEPT !.ed = RemovedAll(@, rows)]

LibRemoveSel(l) == LibDrop(l, Targets(l.ed), TRUE)
\* view_clear: editable_clear, then lib_clear_store
LibClear(l) == [LibDrop(l, RowsOf(l.ed), TRUE) EXCEPT !.hash = {}]
\* lib_remove: only the view is searched
LibRemoved(l, i) == {r \in RowsOf(l.ed) : l.ed.info[r] = i}
LibRemove(l, i) == LibDrop(l, LibRemoved(l, i), TRUE)
\* the library's part of job_handle_update_cache_result
LibReplace(l, old, new) ==
    IF LibRemoved(l, old) = {} THEN {l} ELSE LibAdd(LibRemove(l, old), new)

-----------------------------------------------------------------------------
(* Filters. *)

\* do_lib_filter(clear_before): the view loses what is filtered now, or is
\* made anew from the hash, in the hash's order
FilteredAgain(l) ==
    LET Add(ls, i) == UNION {Viewed(x, i) : x \in ls}
    IN  UNION {FoldLeft(Add, {LibDrop(l, RowsOf(l.ed), FALSE)}, order) :
               order \in SetToSeqs({i \in l.hash : InView(l, i)})}

\* faulty: the current track is not looked for in the new view
FilteredForgets(l, clearBefore) ==
    LET s == IF l.cur = NoRow THEN l ELSE [l EXCEPT !.curTi = CurInfo(l)]
        narrowed == LibDrop(s, {r \in RowsOf(s.ed) : ~InView(s, s.ed.info[r])}, FALSE)
        views == IF clearBefore THEN FilteredAgain(s) ELSE {narrowed}
    IN  {[x EXCEPT !.ed = Owned(@, GotoTop(View(MarkChanged(@)), Size(@)))] : x \in views}

Filtered(l, clearBefore) ==
    LET s == IF l.cur = NoRow THEN l ELSE [l EXCEPT !.curTi = CurInfo(l)]
        narrowed == LibDrop(s, {r \in RowsOf(s.ed) : ~InView(s, s.ed.info[r])}, FALSE)
        views == IF clearBefore THEN FilteredAgain(s) ELSE {narrowed}
        Topped(x) == [x EXCEPT !.ed = Owned(@, GotoTop(View(MarkChanged(@)), Size(@)))]
        Restored(x) ==
            IF x.curTi = NoInfo \/ x.cur # NoRow \/ RowWithFile(x, x.curTi) = {} THEN x
            ELSE [x EXCEPT !.cur = CHOOSE r \in RowWithFile(x, x.curTi) : TRUE]
    IN  {Restored(Topped(x)) : x \in views}

\* faulty: the live filter, which goes too, is left out of account
SetFilterOverLive(l, text) ==
    Filtered([l EXCEPT !.live = NoText, !.filter = text], l.filter # NoText)

\* lib_set_filter: the live filter goes, and the view may have to grow unless
\* there was no filter at all
SetFilter(l, text) ==
    Filtered([l EXCEPT !.live = NoText, !.filter = text],
             l.live # NoText \/ l.filter # NoText)

\* do_clear_before: can the view of the new live filter hold more than the old?
ClearBefore(old, new) ==
    /\ old # NoText
    /\ \/ new = NoText
       \/ IsExpr[old] # IsExpr[new]
       \/ IsExpr[new] /\ ~Harmless[new]
       \/ <<new, old>> \notin Includes

\* lib_set_live_filter; a text that cannot be parsed changes nothing and is not
\* among the Texts. Without a live filter the selection comes back
SetLiveFilter(l, text) ==
    LET stored == IF text = NoText /\ Selected(l.ed) # NoRow
                  THEN [l EXCEPT !.selTi = l.ed.info[l.ed.sel]] ELSE l
        Selecting(x) ==
            IF text # NoText \/ x.selTi = NoInfo \/ RowWithFile(x, x.selTi) = {} THEN x
            ELSE [x EXCEPT !.ed = SelectRow(@, CHOOSE r \in RowWithFile(x, x.selTi) : TRUE),
                           !.selTi = NoInfo]
    IN  IF text = l.live THEN {l}
        ELSE {Selecting(x) : x \in Filtered([stored EXCEPT !.live = text],
                                            ClearBefore(l.live, text))}

-----------------------------------------------------------------------------
(* Playing. *)

\* lib_set_track and sorted_sel_current
LibSelCur(l) == IF l.cur = NoRow THEN l ELSE [l EXCEPT !.ed = SelectRow(@, l.cur)]
LibSetTrack(l, r, opt) ==
    LET s == [l EXCEPT !.cur = r]
        f == IF opt.follow THEN LibSelCur(s) ELSE s
    IN  IF r = NoRow THEN l ELSE [f EXCEPT !.ed = MarkChanged(@)]

\* lib_goto_next (d = 1) and lib_goto_prev (d = -1) while aaa_mode is "all";
\* shuffling by albums is not modelled
LibGoto(l, d, opt) ==
    IF l.ed.list = <<>> THEN {l}
    ELSE LET found == IF opt.shuffle
                      THEN ShuffleStep(l.ed, l.cur, d, RowsOf(l.ed), opt.repeat, opt.auto)
                      ELSE {<<l.ed, ListStep(l.ed, l.cur, d, RowsOf(l.ed), opt.repeat)>>}
         IN  {LibSetTrack([l EXCEPT !.ed = f[1]], f[2], opt) : f \in found}

\* cmd_win_activate in the library: the track comes right after the one that
\* played in the order of the shuffle
LibActivate(l, opt) ==
    LET r == Selected(l.ed)
        s == LibSetTrack(l, r, opt)
    IN  IF l.ed.list = <<>> THEN l
        ELSE IF opt.shuffle THEN [s EXCEPT !.ed = ShuffleInsert(@, l.cur, r)] ELSE s

-----------------------------------------------------------------------------
(* Properties of the state. *)

\* The view shows every file of the library that the filters accept, once.
ViewIsFiltered(l) ==
    /\ {l.ed.info[r] : r \in RowsOf(l.ed)} = {i \in l.hash : InView(l, i)}
    /\ Cardinality({File[i] : i \in l.hash}) = Cardinality(l.hash)
    /\ Size(l.ed) = Cardinality(RowsOf(l.ed))

\* lib_cur_track is in the view: lib_goto_next asserts it for an empty view.
CurIsInView(l) == l.cur \in RowsOf(l.ed) \cup {NoRow}
=============================================================================
