---------------------------- MODULE CommandLine ----------------------------
(***************************************************************************)
(* The line at the bottom of the screen: its editor (app/cmdline.c), the    *)
(* histories (core/history.c), tab expansion (ui/tabexp.c) and the keys of  *)
(* the command mode and the search mode (ui/command_mode.c,                 *)
(* ui/search_mode.c).                                                       *)
(*                                                                         *)
(* The line is a sequence of characters; the code keeps its length and the  *)
(* cursor in bytes and in characters, and updates each of the four numbers  *)
(* by itself. A history is a list of texts, the newest first; the entry an  *)
(* arrow key shows is a pointer into it, here the text itself.              *)
(***************************************************************************)
EXTENDS Integers, Sequences, SequencesExt, FiniteSets

CONSTANTS
    Char, Bytes,    \* characters, and how many bytes each one has
    Space, Slash,   \* two of them
    Expansions,     \* what tab makes of a text: pairs <<text, sequence of texts>>
    NoText,         \* NULL
    MaxLine,        \* bound: characters typed into a line (an expansion may have one more)
    MaxLines,       \* max_lines of a history
    FirstSize       \* cmdline.size at the start

VARIABLES
    cl,     \* struct cmdline: line, cpos, bpos, clen, blen, size
    mode,   \* input_mode: "normal", "command", "search"
    hist,   \* the two histories
    pos,    \* search_pos of each: a text of it, or NoText
    typed,  \* history_search_text of each mode, or NoText
    tab     \* tabexp: the texts to choose from, and idx

vars == <<cl, mode, hist, pos, typed, tab>>

Modes == {"command", "search"}
NoTab == [texts |-> <<>>, idx |-> 0]

Width(s) == FoldLeft(LAMBDA n, ch : n + Bytes[ch], 0, s)
\* the characters in the first b bytes
Chars(s, b) == CHOOSE n \in 0..Len(s) : Width(SubSeq(s, 1, n)) = b

EmptyLine == [line |-> <<>>, cpos |-> 0, bpos |-> 0, clen |-> 0, blen |-> 0, size |-> FirstSize]

Init ==
    /\ cl = EmptyLine /\ mode = "normal"
    /\ hist = [m \in Modes |-> <<>>]
    /\ pos = [m \in Modes |-> NoText] /\ typed = [m \in Modes |-> NoText]
    /\ tab = NoTab

-----------------------------------------------------------------------------
(* app/cmdline.c. Each operator takes and gives a struct cmdline. *)

Before(c) == SubSeq(c.line, 1, Chars(c.line, c.bpos))
After(c) == SubSeq(c.line, Chars(c.line, c.bpos) + 1, Len(c.line))

Insert(c, ch) ==
    [c EXCEPT !.line = Before(c) \o <<ch>> \o After(c),
              !.bpos = @ + Bytes[ch], !.cpos = @ + 1, !.blen = @ + Bytes[ch], !.clen = @ + 1,
              !.size = IF c.blen + Bytes[ch] > @ THEN 2 * @ ELSE @]

Backspace(c) ==
    LET n == Bytes[Last(Before(c))]
    IN  IF c.bpos = 0 THEN c
        ELSE [c EXCEPT !.line = Front(Before(c)) \o After(c),
                       !.bpos = @ - n, !.cpos = @ - 1, !.blen = @ - n, !.clen = @ - 1]

BackspaceToBol(c) ==
    [c EXCEPT !.line = After(c), !.bpos = 0, !.cpos = @ - Len(Before(c)),
              !.blen = @ - c.bpos, !.clen = @ - Len(Before(c))]

DeleteCh(c) ==
    IF c.bpos = c.blen THEN c
    ELSE [c EXCEPT !.line = Before(c) \o Tail(After(c)), !.blen = @ - Bytes[Head(After(c))],
                   !.clen = @ - 1]

\* faulty: twice the size is taken to be enough
DoubledOnce(size, len) == IF len >= size THEN 2 * size ELSE size

RECURSIVE Doubled(_, _)
Doubled(size, len) == IF len >= size THEN Doubled(2 * size, len) ELSE size

SetText(c, s) ==
    [line |-> s, cpos |-> Len(s), bpos |-> Width(s), clen |-> Len(s), blen |-> Width(s),
     size |-> Doubled(c.size, Width(s))]

Cleared(c) == [EmptyLine EXCEPT !.size = c.size]

ClearEnd(c) == [c EXCEPT !.line = Before(c), !.clen = Len(Before(c)), !.blen = Width(Before(c))]

MoveLeft(c) ==
    IF c.bpos = 0 THEN c ELSE [c EXCEPT !.cpos = @ - 1, !.bpos = @ - Bytes[Last(Before(c))]]
MoveRight(c) ==
    IF c.bpos = c.blen THEN c ELSE [c EXCEPT !.cpos = @ + 1, !.bpos = @ + Bytes[Head(After(c))]]
MoveHome(c) == [c EXCEPT !.cpos = 0, !.bpos = 0]
MoveEnd(c) == [c EXCEPT !.cpos = c.clen, !.bpos = c.blen]

\* next_word over the characters s, which are read in the direction of the move:
\* delimiters first, then up to the next delimiter
WordLen(s, delim) ==
    LET lead == CHOOSE n \in 0..Len(s) :
                    /\ \A i \in 1..n : s[i] = delim
                    /\ n = Len(s) \/ s[n + 1] # delim
        body == CHOOSE n \in lead..Len(s) :
                    /\ \A i \in lead + 1..n : s[i] # delim
                    /\ n = Len(s) \/ s[n + 1] = delim
    IN  body

ForwardWord(c, delim) ==
    LET n == WordLen(After(c), delim)
    IN  [c EXCEPT !.bpos = @ + Width(SubSeq(After(c), 1, n)), !.cpos = @ + n]
BackwardWord(c, delim) ==
    LET s == Reverse(Before(c))
        n == WordLen(s, delim)
    IN  [c EXCEPT !.bpos = @ - Width(SubSeq(s, 1, n)), !.cpos = @ - n]

DeleteWord(c, delim) ==
    LET n == WordLen(After(c), delim)
        gone == SubSeq(After(c), 1, n)
    IN  [c EXCEPT !.line = Before(c) \o SubSeq(After(c), n + 1, Len(After(c))),
                  !.blen = @ - Width(gone), !.clen = @ - n]

\* faulty: cpos is forgotten
BackwardDeleteWordCpos(c, delim) ==
    LET s == Reverse(Before(c))
        n == WordLen(s, delim)
        w == Width(SubSeq(s, 1, n))
    IN  [c EXCEPT !.line = Reverse(SubSeq(s, n + 1, Len(s))) \o After(c),
                  !.blen = @ - w, !.bpos = @ - w, !.clen = @ - n]

BackwardDeleteWord(c, delim) ==
    LET s == Reverse(Before(c))
        n == WordLen(s, delim)
        w == Width(SubSeq(s, 1, n))
    IN  [c EXCEPT !.line = Reverse(SubSeq(s, n + 1, Len(s))) \o After(c),
                  !.blen = @ - w, !.bpos = @ - w, !.clen = @ - n, !.cpos = @ - n]

-----------------------------------------------------------------------------
(* core/history.c *)

\* faulty: whether the oldest must go is asked before the new one is there
AddLineOneMore(h, text) ==
    LET old == SelectSeq(h, LAMBDA x : x # text)
    IN  <<text>> \o (IF Len(old) > MaxLines THEN Front(old) ELSE old)

\* history_add_line: in front, the same text further back goes, and then the oldest
AddLine(h, text) ==
    LET all == <<text>> \o SelectSeq(h, LAMBDA x : x # text)
    IN  IF Len(all) > MaxLines THEN Front(all) ELSE all

At(h, text) == CHOOSE i \in DOMAIN h : h[i] = text
Matching(h, text, from, to) == {i \in from..to : IsPrefix(text, h[i])}

\* history_search_forward: the entry found, or NoText; older ones are further back
Older(h, p, text) ==
    LET found == Matching(h, text, IF p = NoText THEN 1 ELSE At(h, p) + 1, Len(h))
    IN  IF found = {} THEN NoText ELSE h[CHOOSE i \in found : \A j \in found : i <= j]

\* history_search_backward
Newer(h, p, text) ==
    LET found == IF p = NoText THEN {} ELSE Matching(h, text, 1, At(h, p) - 1)
    IN  IF found = {} THEN NoText ELSE h[CHOOSE i \in found : \A j \in found : j <= i]

\* faulty: only the text is forgotten
ResetText(m) == UNCHANGED pos /\ typed' = [typed EXCEPT ![m] = NoText]

\* reset_history_search
ResetSearch(m) == pos' = [pos EXCEPT ![m] = NoText] /\ typed' = [typed EXCEPT ![m] = NoText]
AddAndReset(m, text) ==
    hist' = [hist EXCEPT ![m] = AddLine(@, text)] /\ ResetSearch(m)

-----------------------------------------------------------------------------
(* The keys. *)

\* ^A, ^E and the like: in command mode any key but tab ends the expansion
Edits(c) ==
    {BackspaceToBol(c), DeleteCh(c), ClearEnd(c), BackwardDeleteWord(c, Space)}
    \cup {Insert(c, ch) : ch \in IF Len(c.line) < MaxLine THEN Char ELSE {}}
    \cup (IF c.clen > 0 THEN {Backspace(c)} ELSE {})
Moves(c) == {MoveHome(c), MoveLeft(c), MoveEnd(c), MoveRight(c)}
\* with the escape key: the expansion goes on
EscapeEdits(c) == {DeleteWord(c, Slash), BackwardDeleteWord(c, Slash)}
EscapeMoves(c) == {BackwardWord(c, Slash), ForwardWord(c, Slash)}

Type ==
    /\ mode # "normal" /\ cl' \in Edits(cl) \cup Moves(cl) /\ cl' # cl
    /\ ResetSearch(mode)
    /\ tab' = (IF mode = "command" THEN NoTab ELSE tab)
    /\ UNCHANGED <<mode, hist>>

Escaped ==
    /\ mode # "normal" /\ cl' \in EscapeEdits(cl) \cup EscapeMoves(cl) /\ cl' # cl
    /\ ResetSearch(mode)
    /\ UNCHANGED <<mode, hist, tab>>

\* the arrow keys do not end the search in the history
ArrowKey ==
    /\ mode # "normal" /\ cl' \in Moves(cl) /\ cl' # cl
    /\ tab' = (IF mode = "command" THEN NoTab ELSE tab)
    /\ UNCHANGED <<mode, hist, pos, typed>>

\* a line of the search mode that begins with a slash is a restricted search
Restricted == mode = "search" /\ cl.line # <<>> /\ Head(cl.line) = Slash
Text == IF Restricted THEN Tail(cl.line) ELSE cl.line
Show(text) == cl' = SetText(cl, IF Restricted THEN <<Slash>> \o text ELSE text)

Up ==
    /\ mode # "normal"
    /\ LET text == IF typed[mode] = NoText THEN Text ELSE typed[mode]
           found == Older(hist[mode], pos[mode], text)
       IN  /\ typed' = [typed EXCEPT ![mode] = text]
           /\ IF found = NoText THEN UNCHANGED <<cl, pos>>
              ELSE Show(found) /\ pos' = [pos EXCEPT ![mode] = found]
    /\ tab' = (IF mode = "command" THEN NoTab ELSE tab)
    /\ UNCHANGED <<mode, hist>>

\* in front of the newest entry is what was typed
Down ==
    /\ mode # "normal" /\ typed[mode] # NoText
    /\ LET found == Newer(hist[mode], pos[mode], typed[mode])
       IN  /\ Show(IF found = NoText THEN typed[mode] ELSE found)
           /\ pos' = [pos EXCEPT ![mode] = found]
    /\ tab' = (IF mode = "command" THEN NoTab ELSE tab)
    /\ UNCHANGED <<mode, hist, typed>>

\* tab_expand and tabexp_expand: what is left of the cursor, without the spaces it
\* begins with, becomes the next of its expansions; the first time they are found
WithoutSpaces(s) == SubSeq(s, CHOOSE n \in 1..Len(s) + 1 :
                                  /\ \A i \in 1..n - 1 : s[i] = Space
                                  /\ n > Len(s) \/ s[n] # Space, Len(s))

Tab(direction) ==
    /\ mode = "command"
    /\ LET source == WithoutSpaces(Before(cl))
           found == {e[2] : e \in {e \in Expansions : e[1] = source}}
           texts == IF tab.texts # <<>> THEN tab.texts
                    ELSE IF found = {} THEN <<>> ELSE CHOOSE t \in found : TRUE
           n == Len(texts)
           start == IF tab.texts # <<>> THEN tab.idx ELSE 0
           to == IF start + direction > n THEN 1
                 ELSE IF start + direction < 1 THEN n ELSE start + direction
           line == texts[to] \o After(cl)
       IN  IF n = 0 THEN UNCHANGED <<cl, tab>>
           ELSE /\ Len(line) <= MaxLine + 1
                /\ cl' = [line |-> line, cpos |-> Len(texts[to]), bpos |-> Width(texts[to]),
                          clen |-> Len(line), blen |-> Width(line),
                          size |-> Doubled(cl.size, Width(line))]
                /\ tab' = (IF n = 1 THEN NoTab ELSE [texts |-> texts, idx |-> to])
    /\ ResetSearch(mode)
    /\ UNCHANGED <<mode, hist>>

\* backspace on the empty line, ^C, enter. In search mode a lone slash is no text:
\* the escape key leaves it in the line
Leave ==
    /\ mode = "command"
    /\ IF cl.blen > 0 THEN AddAndReset(mode, cl.line) ELSE UNCHANGED hist /\ ResetSearch(mode)
    /\ cl' = Cleared(cl) /\ mode' = "normal" /\ tab' = NoTab

LeaveSearch ==
    /\ mode = "search" /\ mode' = "normal"
    /\ IF Text # <<>> THEN AddAndReset(mode, Text) ELSE UNCHANGED hist /\ ResetSearch(mode)
    /\ \/ cl' = Cleared(cl)
       \/ Text = <<>> /\ cl' = cl
    /\ UNCHANGED tab

Enter ==
    /\ mode = "normal" /\ mode' \in Modes
    /\ UNCHANGED <<cl, hist, pos, typed, tab>>

Next == Type \/ Escaped \/ ArrowKey \/ Up \/ Down \/ Tab(1) \/ Tab(-1)
        \/ Leave \/ LeaveSearch \/ Enter

Spec == Init /\ [][Next]_vars

-----------------------------------------------------------------------------
(* Properties. *)

\* The four numbers the editor keeps say the same of the line: no sequence of
\* edits, moves, arrow keys and expansions lets bytes and characters drift apart.
CountersAgree ==
    /\ cl.clen = Len(cl.line) /\ cl.blen = Width(cl.line)
    /\ cl.cpos \in 0..cl.clen
    /\ cl.bpos = Width(SubSeq(cl.line, 1, cl.cpos))

\* The characters of the line are within the buffer, which is doubled before one is beyond
\* it, by whatever way the text has come in. This is not said of the NUL behind them.
TextFits == cl.blen <= cl.size

\* app/cmdline.h:19, "allocated size": the line and its final NUL are within it. It is what
\* cmdline_set_text sees to (len >= size) and cmdline_insert_ch does not (blen + n > size).
LineFits == cl.blen < cl.size

\* A history holds no text twice and no more than it may.
HistoriesAreSets == \A m \in Modes : IsInjective(hist[m]) /\ Len(hist[m]) <= MaxLines

\* While the user goes through a history, the line shows the entry the pointer is
\* at, the entry is still in the history and begins with what was typed. (An entry of
\* the search mode may begin with a slash: once shown it reads as a restricted search.)
BrowsingIsSound ==
    \A m \in Modes : pos[m] # NoText =>
        /\ Contains(hist[m], pos[m])
        /\ typed[m] # NoText /\ IsPrefix(typed[m], pos[m])
        /\ mode = m /\ (cl.line = pos[m] \/ (Restricted /\ Tail(cl.line) = pos[m]))
=============================================================================
