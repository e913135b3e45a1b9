----------------------------- MODULE FormatPrint -----------------------------
(***************************************************************************)
(* The format strings of the screen (ui/format_print.c): format_valid reads *)
(* one when it is set, format_print reads it again whenever a line is       *)
(* drawn, with what the track has then. Text is a sequence of characters    *)
(* that can be printed, strings of length one, and "" is read behind its    *)
(* end; a format is read between two indexes, which count from 1. What      *)
(* glob_match does with * and ? is in Glob; conditions here have none.      *)
(***************************************************************************)
EXTENDS Expr

CONSTANTS
    Wide,           \* characters two columns wide
    Digit,          \* digits with their values
    FormatOptions,  \* sequence of [str, ch, type, pad_zero], in the order of the table
    TermusOptions,  \* options with their values, as text
    StreamNames,    \* the file names that are those of streams
    clipped_text,
    time_show_leading_zero,
    Formats, Values, Widths \* for the properties; Values: of every row [empty, val]

Char(f, s) == IF s \in DOMAIN f THEN f[s] ELSE ""
CharColumns(c) == IF c \in Wide THEN 2 ELSE 1
Columns(text) == Len(text) + Cardinality({n \in DOMAIN text : text[n] \in Wide})
Spaces(n, c) == [i \in 1..n |-> c]
Least(a, b) == IF a < b THEN a ELSE b

-----------------------------------------------------------------------------
(* Text in columns: u_copy_chars, u_skip_chars (with overskip) and          *)
(* gbuf_add_ustr, which marks the end of the whole buffer if it had to cut. *)

\* how many characters of text fit into width
Fitting(text, width) ==
    CHOOSE n \in 0..Len(text) : /\ Columns(SubSeq(text, 1, n)) <= width
                                /\ n = Len(text) \/ Columns(SubSeq(text, 1, n + 1)) > width
\* how many must be left out to skip width
Skipped(text, width) ==
    CHOOSE n \in 0..Len(text) : /\ Columns(SubSeq(text, 1, n)) >= width
                                /\ n = 0 \/ Columns(SubSeq(text, 1, n - 1)) < width

\* gbuf_mark_clipped_text
MarkClipped(buf) ==
    LET mark_len == Least(Columns(clipped_text), Columns(buf))
        skip == Columns(buf) - mark_len
        kept == SubSeq(buf, 1, Fitting(buf, skip))
    IN  [buf |-> kept \o SubSeq(clipped_text, 1, Fitting(clipped_text, mark_len)),
         width |-> skip - Columns(kept)]

\* gbuf_add_ustr
AddUstr(buf, src, width) ==
    LET n == Fitting(src, width)
        copied == buf \o SubSeq(src, 1, n)
        left == width - Columns(SubSeq(src, 1, n))
    IN  IF n = Len(src) THEN [buf |-> copied, width |-> left]
        ELSE MarkClipped(copied \o Spaces(left, " "))

-----------------------------------------------------------------------------
(* Fields. A printer is what was read so far: [l: the three texts, len:     *)
(* their counted widths, str: which is being added to, s: the index, bug:   *)
(* an assertion failed]. A field's spec is [width, exact, left, pad].       *)

Put(p, text, n) == [p EXCEPT !.l[p.str] = @ \o text, !.len[p.str] = @ + n]

\* stack_print
StackPrint(p, spec, text) ==
    LET pads == Spaces(IF Len(text) < spec.width THEN spec.width - Len(text) ELSE 0, spec.pad)
        shown == IF spec.width = 0 \/ Len(text) <= spec.width THEN text
                 ELSE IF spec.left THEN SubSeq(text, 1, spec.width)
                 ELSE SubSeq(text, Len(text) - spec.width + 1, Len(text))
        all == IF spec.left THEN shown \o pads ELSE pads \o shown
    IN  Put(p, all, Len(all))

DigitOf(n) == CHOOSE d \in DOMAIN Digit : Digit[d] = n
NumText(num) ==
    LET text[n \in 0..num] == IF n < 10 THEN <<DigitOf(n)>> ELSE Append(text[n \div 10], DigitOf(n % 10))
    IN  text[num]

\* faulty: the mark of an unset number is not counted
PrintNumUncounted(p, spec, num) ==
    IF num >= 0 THEN StackPrint(p, spec, NumText(num))
    ELSE Put(p, Spaces(IF spec.width = 0 THEN 1 ELSE spec.width, "?"), spec.width)

\* print_num
PrintNum(p, spec, num) ==
    IF num >= 0 THEN StackPrint(p, spec, NumText(num))
    ELSE LET width == IF spec.width = 0 THEN 1 ELSE spec.width IN Put(p, Spaces(width, "?"), width)

\* print_time
PrintTime(p, spec, t) ==
    LET abs == IF t < 0 THEN -t ELSE t
        h == abs \div 3600
        m == (abs % 3600) \div 60
        s == abs % 60
        tens == IF m >= 10 \/ h > 0 \/ time_show_leading_zero THEN <<DigitOf(m \div 10)>> ELSE << >>
    IN  StackPrint(p, spec,
            (IF t < 0 THEN <<"-">> ELSE << >>)
            \o (IF h > 0 THEN Append(NumText(h), ":") ELSE << >>)
            \o tens \o <<DigitOf(m % 10), ":", DigitOf(s \div 10), DigitOf(s % 10)>>)

\* print_str: to an exact width at the left, where the end is cut, or at the right, where the
\* beginning is; or up to a width, if there is one
PrintStr(p, spec, src) ==
    LET buf == p.l[p.str]
        width == IF spec.width = 0 THEN Columns(src) ELSE spec.width
        cut == AddUstr(buf, src, width)
        over == Columns(src) - width
        mark_len == Least(Columns(clipped_text), width)
        marked == AddUstr(buf, clipped_text, mark_len).buf
        s == Skipped(src, over + mark_len)
        ws_len == Columns(SubSeq(src, 1, s)) - over - mark_len
        rest == SubSeq(src, s + 1, Len(src))
        set(text, n) == [p EXCEPT !.l[p.str] = text, !.len[p.str] = @ + n]
    IN  CASE ~(spec.width > 0 /\ spec.exact) -> set(cut.buf, width - cut.width)
          [] spec.width > 0 /\ spec.exact /\ spec.left -> set(cut.buf \o Spaces(cut.width, " "), width)
          [] spec.width > 0 /\ spec.exact /\ ~spec.left /\ over <= 0 ->
                set(AddUstr(buf \o Spaces(-over, " "), src, width).buf, width)
          [] OTHER -> set(AddUstr(marked \o Spaces(ws_len, " "), rest, width).buf, width)

-----------------------------------------------------------------------------
(* Conditions. *)

\* find_fopt: 0 if there is none; a key of one character is one of either kind
FindFopt(key) ==
    LET rows == {i \in DOMAIN FormatOptions :
                    FormatOptions[i].str = key \/ (Len(key) = 1 /\ FormatOptions[i].ch = key[1])}
    IN  IF rows = {} THEN 0 ELSE CHOOSE i \in rows : \A j \in rows : i <= j

None == <<"none">>
\* str_val and int_val: an option of the program may take the place of an empty row
StrVal(key, v) ==
    LET fo == FindFopt(key)
    IN  IF fo # 0 /\ ~v[fo].empty
        THEN IF FormatOptions[fo].type = "str" THEN v[fo].val ELSE None
        ELSE IF key \in DOMAIN TermusOptions THEN TermusOptions[key] ELSE None
IntVal(key, v) ==
    LET fo == FindFopt(key)
    IN  IF fo # 0 /\ ~v[fo].empty /\ FormatOptions[fo].type = "int" THEN v[fo].val ELSE -1

\* expr_op_to_bool
OpToBool(res, op) ==
    CASE op = "<" -> res < 0 [] op = "<=" -> res <= 0 [] op = "=" -> res = 0
      [] op = ">=" -> res >= 0 [] op = ">" -> res > 0 [] op = "!=" -> res # 0
\* -1 is unset, and has no order
IsUnset(a, b) == a = -1 \/ b = -1
IntText(w) ==
    LET digits == IF Head(w) = "-" THEN Tail(w) ELSE w
        n == FoldLeft(LAMBDA x, d : 10 * x + Digit[d], 0, digits)
    IN  IF Head(w) = "-" THEN -n ELSE n
\* external: strcmp, of texts that are the same or not in an order of their own
StrCmp(a, b) == IF a = b THEN 0 ELSE IF Len(a) < Len(b) THEN -1 ELSE 1

\* format_eval_cond. Of a number that is unset it asks the operator as that of two keys, which
\* in the node of a number and a key of eight bytes is none; two options of the program are
\* read into the same buffer, and are equal.
RECURSIVE EvalCond(_, _)
EvalCond(t, v) ==
    LET sa == StrVal(t[2], v)
        sb == StrVal(t[4], v)
        fo == FindFopt(t[2])
        file == FindFopt(<<"f", "i", "l", "e", "n", "a", "m", "e">>)
        own == IF t[2] \in DOMAIN TermusOptions THEN TermusOptions[t[2]] ELSE << >>
        a == IntVal(t[2], v)
        b == IF t[1] = "id" THEN IntVal(t[4], v) ELSE IntText(t[4])
        isBuffered(key) == FindFopt(key) = 0 \/ v[FindFopt(key)].empty
    IN  CASE t[1] = "and" -> EvalCond(t[2], v) /\ EvalCond(t[3], v)
          [] t[1] = "or" -> EvalCond(t[2], v) \/ EvalCond(t[3], v)
          [] t[1] = "not" -> ~EvalCond(t[2], v)
          [] t[1] = "str" -> (t[3] = "=") <=> ((IF sa = None THEN << >> ELSE sa) = t[4])
          [] t[1] = "int" -> ~IsUnset(a, b) /\ OpToBool(a - b, t[3])
          [] t[1] = "id" ->
                IF sa # None /\ sb # None
                THEN OpToBool(IF isBuffered(t[2]) /\ isBuffered(t[4]) THEN 0 ELSE StrCmp(sa, sb), t[3])
                ELSE (IsUnset(a, b) => t[3] \in {"=", "!="}) /\ OpToBool(a - b, t[3])
          [] t[1] = "bool" ->
                IF t[2] = <<"s", "t", "r", "e", "a", "m">> THEN file # 0 /\ v[file].val \in StreamNames
                ELSE IF fo # 0 THEN ~v[fo].empty ELSE own \notin {<< >>, <<"f", "a", "l", "s", "e">>}

-----------------------------------------------------------------------------
(* Reading a condition: %{?cond?then?else}. *)

\* the index behind the digits at b
DigitsEnd(f, b) == CHOOSE i \in b..Len(f) + 1 :
    Char(f, i) \notin Digits /\ \A j \in b..i - 1 : f[j] \in Digits
\* the index behind what may stand between % and the letter or brace of a field
Flags(f, s) ==
    LET a == IF Char(f, s) = "-" THEN s + 1 ELSE s
    IN  DigitsEnd(f, IF Char(f, a) = "." THEN a + 1 ELSE a)
Escapes == {"%", "?", "!", "="}

RECURSIVE SkipBraces(_, _, _), SkipCondExpr(_, _)
\* the inner loop: behind the brace that closes level of them, 0 at the end of the format
SkipBraces(f, s, level) ==
    LET at == Flags(f, s + 1)
        v == Char(f, at)
    IN  IF level = 0 THEN s
        ELSE CASE Char(f, s) = "" -> 0
               [] Char(f, s) = "}" -> SkipBraces(f, s + 1, level - 1)
               [] Char(f, s) = "%" ->
                     IF Char(f, s + 1) \in Escapes THEN SkipBraces(f, s + 2, level)
                     ELSE IF v = "" THEN 0
                     ELSE SkipBraces(f, at + 1, IF v = "{" THEN level + 1 ELSE level)
               [] OTHER -> SkipBraces(f, s + 1, level)

\* format_skip_cond_expr: what ends the part that begins at s, and the index behind it
SkipCondExpr(f, s) ==
    LET u == Char(f, s)
        at == Flags(f, s + 1)
        behind == SkipBraces(f, at + 1, 1)
    IN  CASE u = "" -> [u |-> "", s |-> s]
          [] u \in {"}", "?"} -> [u |-> u, s |-> s + 1]
          [] u = "%" ->
                IF Char(f, s + 1) \in Escapes THEN SkipCondExpr(f, s + 2)
                ELSE IF Char(f, at) # "{" THEN SkipCondExpr(f, at + 1)
                ELSE IF behind = 0 THEN [u |-> "", s |-> Len(f) + 2] ELSE SkipCondExpr(f, behind)
          [] OTHER -> SkipCondExpr(f, s + 1)

\* format_parse_cond, of what stands between two indexes
Cond(f, s, end) == ExprParse(SubSeq(f, s, end - 1))
\* format_read_cond, from the ends of the parts: where they begin and end, else is 0 if there
\* is none, and what the condition is
CondParts(f, s, a, b, c) ==
    [ok |-> a.u = "?" /\ b.u # "" /\ (b.u = "?" => c.u = "}"),
     cond |-> IF a.u = "?" THEN Cond(f, s, a.s - 1) ELSE Fail,
     then |-> a.s - 1,
     else |-> IF b.u = "?" THEN b.s - 1 ELSE 0,
     end |-> IF b.u = "?" THEN c.s - 1 ELSE b.s - 1]
ReadCond(f, s) ==
    LET a == SkipCondExpr(f, s)
        b == SkipCondExpr(f, a.s)
    IN  CondParts(f, s, a, b, SkipCondExpr(f, b.s))
ThenEnd(r) == IF r.else > 0 THEN r.else ELSE r.end

\* the fields a letter or a name asks for, 0 if it is neither
Row(u, name) ==
    LET rows == {i \in DOMAIN FormatOptions :
                    IF name # << >> THEN FormatOptions[i].str = name ELSE FormatOptions[i].ch = u}
    IN  IF rows = {} THEN 0 ELSE CHOOSE i \in rows : \A j \in rows : i <= j

\* what stands between % and a field: [zero, digits, percent, s: the index of the next]
Spec(f, start) ==
    LET a == IF Char(f, start) = "-" THEN start + 1 ELSE start
        b == IF Char(f, a) = "." THEN a + 1 ELSE a
        c == IF Char(f, b) = "0" THEN b + 1 ELSE b
        d == DigitsEnd(f, c)
    IN  [left |-> a > start, exact |-> a = b, zero |-> c > b, digits |-> SubSeq(f, c, d - 1),
         percent |-> Char(f, d) = "%", s |-> IF Char(f, d) = "%" THEN d + 1 ELSE d]
\* where the brace of a name is, 0 if it is not before end
Brace(f, s, end) ==
    LET found == {i \in s..end - 1 : f[i] = "}"}
    IN  IF found = {} THEN 0 ELSE CHOOSE i \in found : \A j \in found : i <= j

\* what a field says, from its spec and up to end: [isCond, closed, row, next]
FieldOf(f, spec, end) ==
    LET isNamed == Char(f, spec.s) = "{"
        brace == Brace(f, spec.s + 1, end)
        name == IF isNamed /\ brace > 0 THEN SubSeq(f, spec.s + 1, brace - 1) ELSE << >>
    IN  [isCond |-> isNamed /\ Char(f, spec.s + 1) = "?",
         closed |-> isNamed => brace > 0,
         row |-> Row(IF isNamed THEN "}" ELSE Char(f, spec.s), name),
         next |-> IF isNamed THEN brace + 1 ELSE spec.s + 1]

-----------------------------------------------------------------------------
(* format_valid. *)

RECURSIVE Valid(_, _, _), ValidIf(_, _, _), ValidField(_, _, _, _)

\* faulty: the part behind the second ? is not looked at
ValidIfThen(f, r, end) ==
    /\ r.ok /\ r.cond.ok
    /\ Valid(f, r.then + 1, ThenEnd(r))
    /\ r.end + 1 <= end /\ Valid(f, r.end + 1, end)

\* format_valid_if of the condition r, and what is read after it
ValidIf(f, r, end) ==
    /\ r.ok /\ r.cond.ok
    /\ Valid(f, r.then + 1, ThenEnd(r))
    /\ r.else > 0 => Valid(f, r.else + 1, r.end)
    /\ r.end + 1 <= end /\ Valid(f, r.end + 1, end)

\* of format_valid_sub, a field, and what is read after it
ValidField(f, spec, field, end) ==
    IF field.isCond THEN ValidIf(f, ReadCond(f, spec.s + 2), end)
    ELSE /\ field.closed /\ field.row > 0
         /\ spec.zero => FormatOptions[field.row].pad_zero
         /\ Valid(f, field.next, end)

\* format_valid_sub: from s up to end
Valid(f, s, end) ==
    IF s >= end THEN TRUE
    ELSE IF f[s] # "%" THEN Valid(f, s + 1, end)
    ELSE IF Char(f, s + 1) \in Escapes THEN Valid(f, s + 2, end)
    ELSE LET spec == Spec(f, s + 1) IN ValidField(f, spec, FieldOf(f, spec, end), end)

\* format_valid
FormatValid(f) == Valid(f, 1, Len(f) + 1)

-----------------------------------------------------------------------------
(* format_print. *)

\* the value of the row of a field, as it is printed
PrintRow(p, spec, row, v) ==
    LET val == v[row].val
        type == FormatOptions[row].type
    IN  CASE v[row].empty -> Put(p, Spaces(spec.width, " "), spec.width)
          [] ~v[row].empty /\ type = "str" -> PrintStr(p, spec, val)
          [] ~v[row].empty /\ type = "int" -> PrintNum(p, spec, val)
          [] ~v[row].empty /\ type = "time" -> PrintTime(p, spec, val)
          [] ~v[row].empty /\ type = "double" -> StackPrint(p, spec, val)    \* print_double

RECURSIVE FormatParse(_, _, _, _, _)

\* format_parse_if of the condition r, with its assertions: only one part is printed
ParseIf(f, end, p, v, str_width, r) ==
    LET isTrue == EvalCond(r.cond.v, v)
        from == IF isTrue THEN r.then + 1 ELSE r.else + 1
        to == IF isTrue THEN ThenEnd(r) ELSE IF r.else > 0 THEN r.end ELSE 0
    IN  IF ~r.ok \/ ~r.cond.ok \/ r.end + 1 > end THEN [p EXCEPT !.bug = TRUE]
        ELSE [IF to = 0 THEN p ELSE FormatParse(f, to, [p EXCEPT !.s = from], v, str_width)
                EXCEPT !.s = r.end + 1]

\* of format_parse, a field: its width may be a part of the line
ParseField(f, end, p, v, str_width, spec, field) ==
    LET number == FoldLeft(LAMBDA x, d : 10 * x + Digit[d], 0, spec.digits)
        as == [width |-> IF spec.percent THEN (2 * number * str_width + 100) \div 200 ELSE number,
               exact |-> spec.exact, left |-> spec.left, pad |-> IF spec.zero THEN "0" ELSE " "]
    IN  IF field.isCond THEN ParseIf(f, end, [p EXCEPT !.s = spec.s + 2], v, str_width, ReadCond(f, spec.s + 2))
        ELSE IF ~field.closed \/ field.row = 0 THEN [p EXCEPT !.bug = TRUE]
        ELSE [PrintRow(p, as, field.row, v) EXCEPT !.s = field.next]

\* one round of format_parse
ParseNext(f, end, p, v, str_width) ==
    LET c == Char(f, p.s + 1)
        spec == Spec(f, p.s + 1)
    IN  IF f[p.s] # "%" THEN [Put(p, <<f[p.s]>>, CharColumns(f[p.s])) EXCEPT !.s = @ + 1]
        ELSE CASE c \in {"%", "?"} -> [Put(p, <<c>>, 1) EXCEPT !.s = @ + 2]
               [] c = "!" -> [p EXCEPT !.str = 2, !.s = @ + 2]
               [] c = "=" -> [p EXCEPT !.str = 3, !.s = @ + 2]
               [] OTHER -> ParseField(f, end, p, v, str_width, spec, FieldOf(f, spec, end))

\* format_parse: from p.s up to end
FormatParse(f, end, p, v, str_width) ==
    IF p.s >= end \/ p.bug THEN p
    ELSE FormatParse(f, end, ParseNext(f, end, p, v, str_width), v, str_width)

\* format_read
FormatRead(f, v, str_width) ==
    FormatParse(f, Len(f) + 1, [l |-> << << >>, << >>, << >> >>, len |-> <<0, 0, 0>>, str |-> 1, s |-> 1,
                                bug |-> FALSE], v, str_width)

\* format_write: if not all fits the right text stays, then the middle one, and of the left as
\* much as is left, but one column and the mark
FormatWrite(p, width) ==
    LET sum == p.len[1] + p.len[2] + p.len[3]
        str_width == IF width = 0 THEN sum + (IF p.len[3] > 0 THEN 1 ELSE 0) ELSE width
        mark_len == Least(Columns(clipped_text) + 1, str_width)
        r_width == Least(str_width - mark_len, p.len[3])
        m_width == Least(str_width - mark_len - r_width, p.len[2])
        l_width == str_width - r_width - m_width
        l == AddUstr(<< >>, p.l[1], l_width)
        m == AddUstr(l.buf, p.l[2], m_width)
        r_idx == Skipped(p.l[3], p.len[3] - r_width)
        over == Columns(SubSeq(p.l[3], 1, r_idx)) - (p.len[3] - r_width)
    IN  IF sum <= str_width THEN p.l[1] \o p.l[2] \o Spaces(str_width - sum, " ") \o p.l[3]
        ELSE m.buf \o Spaces(l.width + m.width + over, " ") \o SubSeq(p.l[3], r_idx + 1, Len(p.l[3]))

-----------------------------------------------------------------------------
\* every text of p is as wide as was counted, and the line as wide as the window
IsPrinted(p, width) ==
    LET sum == p.len[1] + p.len[2] + p.len[3]
    IN  /\ ~p.bug
        /\ \A i \in 1..3 : Columns(p.l[i]) = p.len[i]
        /\ Columns(FormatWrite(p, width)) =
              IF width > 0 THEN width ELSE sum + (IF p.len[3] > 0 THEN 1 ELSE 0)

\* set_format and format_print: a format that was accepted is printed without failing an
\* assertion, whatever the track has then; each text is as wide as was counted; and the line
\* is as wide as the window, or as all its texts where there is none.
AcceptedFormatsPrint ==
    \A f \in Formats : FormatValid(f) =>
        \A v \in Values, width \in Widths : IsPrinted(FormatRead(f, v, width), width)
=============================================================================
