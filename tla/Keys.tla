-------------------------------- MODULE Keys --------------------------------
(***************************************************************************)
(* Where a key goes: to the popup, to the line at the bottom, or to what it *)
(* is bound to (ui/keys.c, ui/popup.c, the handlers of ui/ui_curses.c). The *)
(* filter popup, the command mode and the remote clients share the line and *)
(* the live filter. The popup of the filter applies every change at once.   *)
(* A line is a sequence of what was typed; a command is one member of it.   *)
(***************************************************************************)
EXTENDS Integers, Sequences, SequencesExt, FiniteSets

CONSTANTS
    KeyOrder,       \* the keys that can be bound, sorted by name
    Commands,       \* what clients send and keys are bound to
    Bindable,       \* those of them that keys are bound to
    CommandOf,      \* get_command of each of them; "" if it is none
    MaxLine,        \* bound: members of a line
    MaxBindings     \* bound

VARIABLES
    binds,      \* key_bindings: of every context a list of [key, cmd]
    bc,         \* how many bindings every command has
    view, mode, pasting,    \* cur_view, input_mode, in_bracketed_paste
    popup, saved, shown,    \* active_type, saved_live_filter, track_info_tab
    line, live,     \* cmdline and lib_live_filter
    before,     \* for the properties: the live filter when the popup was opened
    mixed       \* for the properties: somebody else used the line or the filter

vars == <<binds, bc, view, mode, pasting, popup, saved, shown, line, live, before, mixed>>

Views == {"library", "playlist"}
\* key_context_names; the queue has its own as the playlist has
Contexts == Views \cup {"common"}
Key == ToSet(KeyOrder)
Command == {CommandOf[c] : c \in Bindable} \ {""}

\* the state that commands change, as a record
Screen == [view |-> view, mode |-> mode, popup |-> popup, saved |-> saved, shown |-> shown,
           line |-> line, live |-> live, before |-> before, mixed |-> mixed]
Becomes(s) ==
    /\ view' = s.view /\ mode' = s.mode /\ popup' = s.popup /\ saved' = s.saved /\ shown' = s.shown
    /\ line' = s.line /\ live' = s.live /\ before' = s.before /\ mixed' = s.mixed

-----------------------------------------------------------------------------
(* Bindings. *)

Rank(k) == CHOOSE i \in DOMAIN KeyOrder : KeyOrder[i] = k
Bound(b, ctx) == {b[ctx][i].key : i \in DOMAIN b[ctx]}
\* find_binding
Binding(b, ctx, k) == CHOOSE e \in ToSet(b[ctx]) : e.key = k
Counted(count, cmd, d) == IF CommandOf[cmd] = "" THEN count ELSE [count EXCEPT ![CommandOf[cmd]] = @ + d]

\* faulty: the command is not told that it lost a binding
UnboundUntold(r, ctx, k) ==
    IF k \notin Bound(r.b, ctx) THEN r
    ELSE [b |-> [r.b EXCEPT ![ctx] = SelectSeq(@, LAMBDA e : e.key # k)], count |-> r.count]

\* key_unbind
Unbound(r, ctx, k) ==
    IF k \notin Bound(r.b, ctx) THEN r
    ELSE [b |-> [r.b EXCEPT ![ctx] = SelectSeq(@, LAMBDA e : e.key # k)],
          count |-> Counted(r.count, Binding(r.b, ctx, k).cmd, -1)]

\* key_bind: inserted before the first key that is behind it
Rebound(r, ctx, k, cmd, force) ==
    LET free == Unbound(r, ctx, k)
        n == Cardinality({i \in DOMAIN free.b[ctx] : Rank(free.b[ctx][i].key) <= Rank(k)})
    IN  IF k \in Bound(r.b, ctx) /\ ~force THEN r
        ELSE [b |-> [free.b EXCEPT ![ctx] = InsertAt(@, n + 1, [key |-> k, cmd |-> cmd])],
              count |-> Counted(free.count, cmd, 1)]

Nothing == [b |-> [c \in Contexts |-> << >>], count |-> [c \in Command |-> 0]]
Bindings(r) == binds' = r.b /\ bc' = r.count

-----------------------------------------------------------------------------
(* The popup. *)

\* a short expression that cannot be parsed is not applied: "~" and anything, here
IsFilter(text) == text = << >> \/ Head(text) # "~"

\* lib_set_live_filter
Applied(s, text) == IF IsFilter(text) THEN [s EXCEPT !.live = text] ELSE s

\* popup_close: the line is only cleared if it is the popup's
Closed(s) == [s EXCEPT !.popup = "none", !.line = IF s.popup = "filters" THEN << >> ELSE @]
\* popup_cancel
Cancelled(s) == Closed(IF s.popup = "filters" THEN Applied(s, s.saved) ELSE s)

\* faulty: what the popup that is open applied stays
OpenedOver(s, type) ==
    IF type = "info" THEN [s EXCEPT !.popup = type, !.shown = 0]
    ELSE [s EXCEPT !.popup = type, !.saved = s.live, !.line = s.live, !.mixed = s.mode # "normal",
                   !.before = IF s.popup = "filters" THEN @ ELSE s.live]

\* popup_open
Opened(s, type) ==
    LET c == Cancelled(s)
    IN  IF type = "info" THEN [c EXCEPT !.popup = type, !.shown = 0]
        ELSE [c EXCEPT !.popup = type, !.saved = c.live, !.line = c.live, !.mixed = s.mode # "normal",
                       !.before = IF s.popup = "filters" THEN @ ELSE c.live]

\* run_command
Run(s, cmd) ==
    CASE cmd = "popup filters" -> Opened(s, "filters")
      [] cmd = "popup track-info" -> Opened(s, "info")
      [] cmd = "popup-close" -> Cancelled(s)
      [] cmd = "live-filter x" -> [Applied(s, <<"x">>) EXCEPT !.mixed = TRUE]
      [] cmd = "view playlist" -> [s EXCEPT !.view = "playlist"]
      [] cmd = "win-activate" -> IF s.popup = "filters" THEN Closed(s) ELSE s
      [] OTHER -> s

-----------------------------------------------------------------------------
Init ==
    /\ binds = Nothing.b /\ bc = Nothing.count
    /\ view = "library" /\ mode = "normal" /\ pasting = FALSE
    /\ popup = "none" /\ saved = << >> /\ shown = 0
    /\ line = << >> /\ live = << >> /\ before = << >> /\ mixed = FALSE

ScreenStays == UNCHANGED <<view, mode, popup, saved, shown, line, live, before, mixed>>
SameBindings == UNCHANGED <<binds, bc>>
\* block_key_paste is set; it keeps what is pasted from the keys of the normal mode
GoesToKeys == mode = "normal" /\ ~pasting

\* :bind, from the rc or a client
Bind ==
    \E ctx \in Contexts, k \in Key, cmd \in Bindable, force \in BOOLEAN :
        /\ Bindings(Rebound([b |-> binds, count |-> bc], ctx, k, cmd, force))
        /\ FoldFunction(LAMBDA s, n : Len(s) + n, 0, binds') <= MaxBindings
        /\ ScreenStays /\ UNCHANGED pasting
\* :unbind
Unbind ==
    \E ctx \in Contexts, k \in Key :
        /\ Bindings(Unbound([b |-> binds, count |-> bc], ctx, k))
        /\ ScreenStays /\ UNCHANGED pasting

\* options_exit writes the bindings, and options_load of the next start reads them
Restart ==
    LET lines == FoldLeft(LAMBDA ls, c : ls \o [i \in DOMAIN binds[c] |-> <<c, binds[c][i]>>], << >>,
                          <<"common", "library", "playlist">>)
    IN  /\ Bindings(FoldLeft(LAMBDA r, l : Rebound(r, l[1], l[2].key, l[2].cmd, FALSE), Nothing, lines))
        /\ Becomes([Screen EXCEPT !.view = "library", !.mode = "normal", !.popup = "none", !.saved = << >>,
                    !.shown = 0, !.line = << >>, !.live = << >>, !.before = << >>, !.mixed = FALSE])
        /\ pasting' = FALSE

\* normal_mode_ch and normal_mode_key: the view's binding, the common one, the default
PressKey ==
    \E k \in Key :
        /\ GoesToKeys /\ popup = "none"
        /\ Becomes(CASE k \in Bound(binds, view) -> Run(Screen, Binding(binds, view, k).cmd)
                     [] k \notin Bound(binds, view) /\ k \in Bound(binds, "common") ->
                            Run(Screen, Binding(binds, "common", k).cmd)
                     [] k \notin Bound(binds, view) \cup Bound(binds, "common") /\ k = ":" ->
                            [Screen EXCEPT !.mode = "command"]
                     [] OTHER -> Screen)
        /\ SameBindings /\ UNCHANGED pasting

\* popup_handle_ch, popup_handle_key and popup_handle_escape for the filter: what changes
\* the line is applied. An escape sequence is not held back while something is pasted:
\* it may delete a word.
EditFilter ==
    /\ mode = "normal" /\ popup = "filters"
    /\ \E text \in {Append(line, c) : c \in {"x", "~"}} \cup
                   {SubSeq(line, 1, n) : n \in 0..Len(line)} \cup
                   {SubSeq(line, n, Len(line)) : n \in 2..Len(line)} :
          /\ Len(text) <= MaxLine /\ (pasting => Len(text) <= Len(line))
          /\ Becomes(Applied([Screen EXCEPT !.line = text], text))
    /\ SameBindings /\ UNCHANGED pasting
AcceptFilter == GoesToKeys /\ popup = "filters" /\ Becomes(Closed(Screen)) /\ SameBindings /\ UNCHANGED pasting
\* any escape sequence closes the track info
CancelPopup ==
    /\ mode = "normal" /\ popup # "none" /\ (popup = "filters" => ~pasting)
    /\ Becomes(Cancelled(Screen)) /\ SameBindings /\ UNCHANGED pasting
SwitchTab ==
    /\ GoesToKeys /\ popup = "info"
    /\ Becomes([Screen EXCEPT !.shown = 1 - @]) /\ SameBindings /\ UNCHANGED pasting

\* command_mode_ch
TypeCommand ==
    /\ mode = "command" /\ Len(line) < MaxLine
    /\ \E c \in {"x", "popup filters", "popup-close"} :
          Becomes([Screen EXCEPT !.line = Append(@, c), !.mixed = TRUE])
    /\ SameBindings /\ UNCHANGED pasting
\* The line that is cleared is the one that the command left: a popup that it opened.
EnterCommand ==
    /\ mode = "command"
    /\ LET ran == IF Len(line) = 1 THEN Run(Screen, line[1]) ELSE Screen
       IN  Becomes(IF line = << >> THEN [Screen EXCEPT !.mode = "normal"]
                   ELSE [ran EXCEPT !.mode = "normal", !.line = << >>, !.mixed = TRUE])
    /\ SameBindings /\ UNCHANGED pasting
LeaveCommand ==
    /\ mode = "command"
    /\ Becomes([Screen EXCEPT !.mode = "normal", !.line = << >>, !.mixed = @ \/ line # << >>])
    /\ SameBindings /\ UNCHANGED pasting

\* a command of a remote client comes at any time
Remote ==
    /\ \E cmd \in Commands : Becomes(Run(Screen, cmd))
    /\ SameBindings /\ UNCHANGED pasting

\* handle_csi: a paste begins or ends
Paste == pasting' = ~pasting /\ SameBindings /\ ScreenStays

Next ==
    \/ Bind \/ Unbind \/ Restart \/ PressKey
    \/ EditFilter \/ AcceptFilter \/ CancelPopup \/ SwitchTab
    \/ TypeCommand \/ EnterCommand \/ LeaveCommand \/ Remote \/ Paste

-----------------------------------------------------------------------------
\* key_bind and key_unbind: whatever is bound, bound by force, unbound or read from the
\* autosave file, the lists are sorted with every key once, and the number that a
\* command keeps is the number of its bindings.
BindingsAgree ==
    /\ \A c \in Contexts : \A i \in 1..Len(binds[c]) - 1 : Rank(binds[c][i].key) < Rank(binds[c][i + 1].key)
    /\ \A cmd \in Command :
          bc[cmd] = Cardinality({<<c, k>> \in Contexts \X Key :
                        k \in Bound(binds, c) /\ CommandOf[Binding(binds, c, k).cmd] = cmd})

\* popup_open and popup_cancel: whatever was typed, cancelled or opened again, and whoever
\* did it, the popup still has the filter it began with, to bring it back.
CancelBringsBack == popup = "filters" => saved = before

\* popup_apply_and_refresh: the library shows what is in the popup, or that is no filter.
\* (Not if :popup was typed, which clears the line again, nor when a client or the
\* command mode has used the line or the filter since.)
PopupShowsTheFilter == (popup = "filters" /\ ~mixed) => (line = live \/ ~IsFilter(line))
=============================================================================
