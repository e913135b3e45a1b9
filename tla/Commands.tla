------------------------------ MODULE Commands ------------------------------
(***************************************************************************)
(* What the user types, read by ui/command_mode.c: the name of a command,   *)
(* which may be cut short, its flags, the quoted words of :run, the numbers *)
(* of :seek and :vol, the random choices of :tqueue, the expressions of      *)
(* :live-filter, and the completion of a line by the tab key. Text is a sequence of characters, as in Expr.     *)
(***************************************************************************)
EXTENDS Expr, Combinatorics

VARIABLES
    given,      \* what is read, a record with its kind
    answer      \* <<>>, or <<what is made of it>>

CONSTANTS
    Digit,      \* the value of every digit
    Table,      \* commands[]: [name, min, max, expand]
    Contexts, Keys, FilterNames, OptionNames    \* what can be completed

\* the result of reading part of a text: a value and the rest
Read(v, rest) == [ok |-> TRUE, v |-> v, at |-> rest]
Blank == " "
RECURSIVE Stripped(_)
Stripped(s) == IF s # <<>> /\ Head(s) = Blank THEN Stripped(Tail(s)) ELSE s
From(s, i) == SubSeq(s, i, Len(s))
StartsWith(s, p) == IsPrefix(p, s)

-----------------------------------------------------------------------------
(* The words of :run. *)

DQ == "dq"      \* the quotation marks and the backslash
SQ == "sq"
BS == "bs"
EndsPart == {Blank, DQ, SQ}

\* parse_quoted: s begins behind the quotation mark
RECURSIVE ParseQuoted(_, _)
ParseQuoted(s, out) ==
    IF s = <<>> THEN Fail
    ELSE CASE Head(s) = DQ -> Read(out, Tail(s))
           [] Head(s) = BS -> IF Len(s) = 1 THEN Fail
                              ELSE ParseQuoted(From(s, 3), out \o IF s[2] \in {DQ, BS} THEN <<s[2]>>
                                                                  ELSE <<BS, s[2]>>)
           [] OTHER -> ParseQuoted(Tail(s), Append(out, Head(s)))

\* faulty: the character behind a backslash may end the part
RECURSIVE ParseEscapedShort(_, _)
ParseEscapedShort(s, out) ==
    IF s = <<>> \/ Head(s) \in EndsPart THEN Read(out, s)
    ELSE ParseEscapedShort(Tail(s), IF Head(s) = BS THEN out ELSE Append(out, Head(s)))

RECURSIVE ParseEscaped(_, _)
ParseEscaped(s, out) ==
    IF s = <<>> \/ Head(s) \in EndsPart THEN Read(out, s)
    ELSE IF Head(s) # BS THEN ParseEscaped(Tail(s), Append(out, Head(s)))
    ELSE IF Len(s) = 1 THEN Read(Append(out, BS), <<>>)
    ELSE ParseEscaped(From(s, 3), Append(out, s[2]))

\* parse_one of this file: parts without a space between them are one word
RECURSIVE ParseWord(_, _)
ParseWord(s, out) ==
    LET single == Until(Tail(s), {SQ})
        part == CASE Head(s) = DQ -> ParseQuoted(Tail(s), <<>>)
                  [] Head(s) = SQ -> IF single = Len(s) - 1 THEN Fail
                                     ELSE Read(SubSeq(s, 2, single + 1), From(s, single + 3))
                  [] OTHER -> ParseEscaped(s, <<>>)
    IN  IF s = <<>> \/ Head(s) = Blank THEN Read(out, s)
        ELSE IF part.ok THEN ParseWord(part.at, out \o part.v) ELSE Fail

\* parse_cmd: the words, and how many of them are before {}, where the files go
NoFiles == -1
RECURSIVE ParseCmd(_, _, _)
ParseCmd(s, words, files) ==
    LET isFiles == StartsWith(s, <<"{", "}">>) /\ (Len(s) = 2 \/ s[3] = Blank)
        word == ParseWord(s, <<>>)
    IN  IF s = <<>> THEN Read(words, files)
        ELSE IF isFiles
        THEN IF files # NoFiles THEN Fail ELSE ParseCmd(Stripped(From(s, 3)), words, Len(words))
        ELSE IF word.ok THEN ParseCmd(Stripped(word.at), Append(words, word.v), files) ELSE Fail

\* cmd_run: what is executed, for the selected files
Argv(r, selected) ==
    IF r.at = NoFiles THEN r.v \o selected
    ELSE SubSeq(r.v, 1, r.at) \o selected \o SubSeq(r.v, r.at + 1, Len(r.v))

-----------------------------------------------------------------------------
(* Flags. *)

\* do_parse_flags: -1 for a flag that is not one; "" is no flag
RECURSIVE ParseFlags(_, _, _, _)
ParseFlags(s, flags, onlyLast, flag) ==
    LET isFlag == Len(s) > 1 /\ s[1] = "-" /\ (Len(s) = 2 \/ s[3] = Blank)
    IN  IF s = <<>> \/ (~onlyLast /\ flag # "") \/ ~isFlag THEN Read(flag, Stripped(s))
        ELSE IF s[2] = "-" THEN Read(flag, Stripped(From(s, 3)))
        ELSE IF s[2] \notin flags THEN Fail
        ELSE ParseFlags(Stripped(From(s, 3)), flags, onlyLast, s[2])

\* is_stdout_filename: nothing but flags before the last "-"
RECURSIVE IsStdoutFilename(_)
IsStdoutFilename(s) ==
    /\ s # <<>> /\ Head(s) = "-"
    /\ \/ Len(s) = 1
       \/ /\ Len(s) = 2 \/ s[3] = Blank
          /\ s[2] # "-" /\ IsStdoutFilename(Stripped(From(s, 3)))

\* cmd_save: its flags one after the other, until there is none
RECURSIVE SaveFlags(_, _, _)
SaveFlags(s, view, extended) ==
    LET r == ParseFlags(s, {"e", "L", "l", "p", "q"}, FALSE, "")
    IN  CASE ~r.ok -> Fail
          [] r.ok /\ r.v = "" -> Read(<<view, extended>>, r.at)
          [] r.ok /\ r.v = "e" -> SaveFlags(r.at, view, TRUE)
          [] OTHER -> SaveFlags(r.at, r.v, extended)

-----------------------------------------------------------------------------
(* Numbers. *)

\* get_number
RECURSIVE GetNumber(_, _)
GetNumber(s, val) ==
    IF s = <<>> \/ Head(s) \notin DOMAIN Digit THEN Read(val, s)
    ELSE GetNumber(Tail(s), val * 10 + Digit[Head(s)])

\* the loop of cmd_seek
RECURSIVE SeekNumbers(_, _, _)
SeekNumbers(s, seek, count) ==
    LET n == GetNumber(s, 0)
        sum == seek * 60 + n.v
    IN  IF n.at = s THEN [v |-> seek, at |-> s, count |-> count]
        ELSE IF count = 2 \/ n.at = <<>> \/ Head(n.at) # ":"
        THEN [v |-> sum, at |-> n.at, count |-> count + 1]
        ELSE SeekNumbers(Tail(n.at), sum, count + 1)

\* faulty: minutes are taken for hours
UnitSwapped(c) == CASE c = "h" -> 60 [] c = "m" -> 3600 [] c = "s" -> 1 [] OTHER -> 0
Unit(c) == CASE c = "h" -> 3600 [] c = "m" -> 60 [] c = "s" -> 1 [] OTHER -> 0

\* cmd_seek: [ok, v: seconds, at: relative?]
CmdSeek(s) ==
    LET relative == s # <<>> /\ Head(s) \in {"+", "-"}
        n == SeekNumbers(IF relative THEN Tail(s) ELSE s, 0, 0)
        unit == IF n.count = 1 /\ n.at # <<>> THEN Unit(Head(n.at)) ELSE 0
        sign == IF relative /\ Head(s) = "-" THEN -1 ELSE 1
    IN  CASE n.count = 0 -> Fail
          [] n.count > 0 /\ unit > 0 ->
                IF Len(n.at) = 1 THEN Read(sign * n.v * unit, relative) ELSE Fail
          [] OTHER -> IF n.at = <<>> THEN Read(sign * n.v, relative) ELSE Fail

\* parse_vol_arg: [ok, v, at: <<relative?, percentage?>>]
ParseVolArg(s) ==
    LET relative == s # <<>> /\ Head(s) \in {"+", "-"}
        digits == IF relative THEN Tail(s) ELSE s
        n == GetNumber(digits, 0)
        sign == IF relative /\ Head(s) = "-" THEN -1 ELSE 1
    IN  IF n.at = digits \/ n.at \notin {<<>>, <<"%">>} THEN Fail
        ELSE Read(sign * n.v, <<relative, n.at # <<>>>>)
\* cmd_vol: one volume for both sides, or one for each
CmdVol(words) ==
    LET l == ParseVolArg(words[1])
        r == IF Len(words) = 1 THEN l ELSE ParseVolArg(words[2])
    IN  IF Len(words) > 2 \/ ~l.ok \/ ~r.ok THEN Fail ELSE Read(<<l.v, r.v>>, <<l.at, r.at>>)

-----------------------------------------------------------------------------
(* rand_array: size of the numbers below nmax, in order. A set is drawn and *)
(* becomes the array, or the array is filled with what is not in it, which  *)
(* stands at its end.                                                      *)

\* the loop that converts the indexes; r is [0..size -> numbers]
RECURSIVE FilledArray(_, _, _, _, _)
FilledArray(r, i, j, n, size) ==
    IF n < r[j] THEN FilledArray([r EXCEPT ![i] = n], i + 1, j, n + 1, size)
    ELSE IF i < size THEN FilledArray(r, i, j + 1, n + 1, size) ELSE r

RandArrays(size, nmax) ==
    LET inverts == size > nmax \div 2
        count == IF inverts THEN nmax - size ELSE size
        offset == size - count
        Drawn(S) == SetToSortSeq(S, <)
        Start(S) == [i \in 0..size |-> IF i = size THEN nmax
                                       ELSE IF i >= offset THEN Drawn(S)[i - offset + 1] ELSE -1]
        Array(S) == IF offset = 0 THEN Start(S) ELSE FilledArray(Start(S), 0, offset, 0, size)
    IN  {[i \in 1..size |-> Array(S)[i - 1]] : S \in kSubset(count, 0..nmax - 1)}

\* cmd_tqueue: every track that was drawn is put at some place of the list of them
PickedTracks(count, nr) ==
    UNION {{[i \in DOMAIN r |-> r[p[i]]] : p \in Permutations(DOMAIN r)} :
               r \in RandArrays(IF count > nr THEN nr ELSE count, nr)}

-----------------------------------------------------------------------------
(* The name of a command. *)

\* get_command: the first that begins like this, unless the one behind it does too
GetCommand(w) ==
    LET found == {i \in DOMAIN Table : StartsWith(Table[i].name, w)}
        i == CHOOSE j \in found : \A k \in found : j <= k
    IN  IF found = {} \/ (Table[i].name # w /\ i + 1 \in found) THEN 0 ELSE i

\* faulty: what follows in the table is not looked at
RunFirst(w, hasArg) ==
    LET found == {i \in DOMAIN Table : StartsWith(Table[i].name, w)}
    IN  IF found = {} THEN 0 ELSE CHOOSE j \in found : \A k \in found : j <= k

\* run_parsed_command: what is run; 0 is an error message
RunParsedCommand(w, hasArg) ==
    LET c == GetCommand(w)
    IN  IF c = 0 \/ (Table[c].min > 0 /\ ~hasArg) \/ (Table[c].max = 0 /\ hasArg) THEN 0 ELSE c

-----------------------------------------------------------------------------
(* Completion. A line is a sequence of words, the last of which may be      *)
(* empty; what a line can become is a set of lines.                         *)

Names(table) == {table[i].name : i \in DOMAIN table}
\* the words that begin with w; a single one is followed by a space
Completed(w, names, ender) ==
    LET found == {n \in names : StartsWith(n, w)}
    IN  IF Cardinality(found) = 1 THEN {<<n>> \o ender : n \in found} ELSE {<<n>> : n \in found}
OneMoreWord == <<<<>>>>
\* get_context, and the same for keys: a whole name, or the beginning of just one
Meant(w, names) ==
    LET found == {n \in names : StartsWith(n, w)}
    IN  IF w \in names THEN {w} ELSE IF Cardinality(found) = 1 THEN found ELSE {}
Behind(words, lines) == {words \o l : l \in lines}

RECURSIVE ExpandCommandLine(_), ExpandBindArgs(_)

\* expand_factivate: only the last word
ExpandLastWord(ws, names) == Behind(Front(ws), Completed(Last(ws), names, <<>>))

\* expand_unbind_args
ExpandUnbindArgs(ws) ==
    IF Len(ws) = 1 THEN Completed(ws[1], Contexts, OneMoreWord)
    ELSE IF Len(ws) > 2 THEN {}
    ELSE UNION {Behind(<<c>>, Completed(ws[2], Keys, <<>>)) : c \in Meant(ws[1], Contexts)}

ExpandBindArgs(ws) ==
    LET force == <<"-", "f">>
    IN  IF ws[1] = force THEN Behind(<<force>>, ExpandBindArgs(IF Len(ws) = 1 THEN OneMoreWord ELSE Tail(ws)))
        ELSE IF Len(ws) = 1 THEN Completed(ws[1], Contexts, OneMoreWord)
        ELSE IF Len(ws) = 2
        THEN UNION {Behind(<<c>>, Completed(ws[2], Keys, OneMoreWord)) : c \in Meant(ws[1], Contexts)}
        ELSE {<<c, k>> \o l : c \in Meant(ws[1], Contexts), k \in Meant(ws[2], Keys),
                              l \in ExpandCommandLine(From(ws, 3))}

ExpandArgs(c, ws) ==
    CASE Table[c].expand = "bind" -> ExpandBindArgs(ws)
      [] Table[c].expand = "unbind" -> ExpandUnbindArgs(ws)
      [] Table[c].expand = "filters" -> ExpandLastWord(ws, FilterNames)
      [] Table[c].expand = "toggle" -> IF Len(ws) > 1 THEN {} ELSE Completed(ws[1], OptionNames, <<>>)
      [] Table[c].expand = "commands" -> IF Len(ws) > 1 THEN {} ELSE Completed(ws[1], Names(Table), OneMoreWord)
      [] OTHER -> {}

\* expand_command_line
ExpandCommandLine(ws) ==
    LET c == GetCommand(ws[1])
    IN  IF Len(ws) = 1 THEN Completed(ws[1], Names(Table), OneMoreWord)
        ELSE IF c = 0 THEN {} ELSE Behind(<<Table[c].name>>, ExpandArgs(c, Tail(ws)))

-----------------------------------------------------------------------------
(* One text, one answer. *)

Texts(chars, n) == UNION {[1..k -> chars] : k \in 0..n}

\* a word is written plainly, or between quotation marks of one kind
Style == {"plain", DQ, SQ}
Written(w, style) ==
    LET Escaped(c, special) == IF c \in special THEN <<BS, c>> ELSE <<c>>
        All(special) == FoldLeft(LAMBDA t, c : t \o Escaped(c, special), <<>>, w)
    IN  CASE style = "plain" -> All(EndsPart \cup {BS})
          [] style = DQ -> <<DQ>> \o All({DQ, BS}) \o <<DQ>>
          [] style = SQ -> <<SQ>> \o w \o <<SQ>>
CanWrite(w, style) ==
    /\ style = "plain" => w \notin {<<>>, <<"{", "}">>}
    /\ style = SQ => SQ \notin ToSet(w)
\* the words, with {} before the one with the number files + 1
Line(words, styles, files) ==
    LET text == [i \in DOMAIN words |-> Written(words[i], styles[i])]
        all == IF files = NoFiles THEN text ELSE InsertAt(text, files + 1, <<"{", "}">>)
    IN  FoldLeft(LAMBDA t, w : IF t = <<>> THEN w ELSE t \o <<Blank, Blank>> \o w, <<>>, all)

RunLines ==
    {[kind |-> "run", words |-> ws, styles |-> ss, files |-> n] :
        ws \in {<<w>> : w \in Texts({"a", Blank, DQ, SQ, BS}, 3) \cup Texts({"{", "}", Blank}, 2)}
               \cup [1..2 -> Texts({"a", DQ, BS}, 1)],
        ss \in [1..2 -> Style], n \in NoFiles..2}

Init ==
    /\ answer = <<>>
    /\ \/ /\ given \in RunLines
          /\ given.files <= Len(given.words)
          /\ Len(given.words) = 1 => given.styles[2] = given.styles[1]
          /\ \A i \in DOMAIN given.words : CanWrite(given.words[i], given.styles[i])
       \/ \E s \in {t \in Texts({"-", "l", "x", Blank}, 6) : t = Stripped(t)} :
             given = [kind |-> "flags", text |-> s]
       \/ \E sign \in {<<>>, <<"+">>, <<"-">>}, n \in 1..4, colon \in {<<>>, <<":">>},
             unit \in {<<>>, <<"h">>, <<"m">>, <<"s">>, <<"x">>} :
             \E nums \in [1..n -> {<<"1">>, <<"2", "1">>}] :
                given = [kind |-> "seek", sign |-> sign, nums |-> nums, colon |-> colon, unit |-> unit]
       \/ \E s \in Texts({"+", "-", "1", "2", "%"}, 4) : given = [kind |-> "vol", text |-> s]
       \/ \E i \in DOMAIN Table : \E n \in 1..Len(Table[i].name), hasArg \in BOOLEAN :
             given = [kind |-> "name", word |-> SubSeq(Table[i].name, 1, n), arg |-> hasArg]
       \/ \E n \in 1..4 : \E ws \in [1..n -> {<<>>, <<"-", "f">>, <<"c">>, <<"c", "b">>} \cup
                                      {SubSeq(w, 1, 1) : w \in Names(Table) \cup Keys}] :
             given = [kind |-> "tab", words |-> ws]
       \/ \E s \in Texts({"!", "&", "|", "(", ")", "=", "s", "1"}, 5) :
             given = [kind |-> "expr", text |-> s]
       \/ \E nmax \in 1..9 : \E size \in 1..nmax : given = [kind |-> "rand", size |-> size, nmax |-> nmax]

SeekText == LET Join(t, n) == IF t = <<>> THEN n ELSE t \o <<":">> \o n
            IN  given.sign \o FoldLeft(Join, <<>>, given.nums) \o given.colon \o given.unit

Answer(kind, v) == answer = <<>> /\ given.kind = kind /\ answer' = <<v>> /\ UNCHANGED given

ReadRun == Answer("run", ParseCmd(Line(given.words, given.styles, given.files), <<>>, NoFiles))
ReadFlags == Answer("flags", ParseFlags(given.text, {"l"}, TRUE, ""))
ReadSeek == Answer("seek", CmdSeek(SeekText))
ReadVol == Answer("vol", ParseVolArg(given.text))
ReadName == Answer("name", RunParsedCommand(given.word, given.arg))
ReadTab == Answer("tab", ExpandCommandLine(given.words))
ReadExpr == Answer("expr", ExprParse(given.text))
ReadRand == Answer("rand", RandArrays(given.size, given.nmax))

Next == ReadRun \/ ReadFlags \/ ReadSeek \/ ReadVol \/ ReadName \/ ReadTab \/ ReadExpr \/ ReadRand

-----------------------------------------------------------------------------
Is(kind) == given.kind = kind /\ answer # <<>>
Result == answer[1]

\* parse_cmd: a word comes back as it was before it was quoted, however it was, and the
\* files go where {} was.
RunKeepsWords == Is("run") => Result = Read(given.words, given.files)

RECURSIVE Words(_)
Words(s) ==
    LET n == Until(s, {Blank})
    IN  IF s = <<>> THEN <<>> ELSE <<SubSeq(s, 1, n)>> \o Words(Stripped(From(s, n + 1)))

\* do_parse_flags: all the flags before the first word that is none, or before "--", are
\* taken and nothing else is; one that is not known makes an error. (A single "-" with
\* spaces behind it is taken for a flag that nobody knows.)
FlagsComeFirst ==
    LET ws == Words(given.text)
        isFlag == [i \in DOMAIN ws |-> Len(ws[i]) = 2 /\ ws[i][1] = "-" /\ ws[i][2] # "-"]
        n == CHOOSE k \in 0..Len(ws) : (\A i \in 1..k : isFlag[i]) /\ (k = Len(ws) \/ ~isFlag[k + 1])
        ends == IF n < Len(ws) /\ ws[n + 1] = <<"-", "-">> THEN n + 2 ELSE n + 1
    IN  (Is("flags") /\ <<"-">> \notin ToSet(ws)) =>
            /\ Result.ok <=> \A i \in 1..n : ws[i][2] = "l"
            /\ Result.ok => Words(Result.at) = From(ws, ends)
                            /\ Result.v = IF n = 0 THEN "" ELSE "l"

\* cmd_seek and parse_vol_arg: a time of up to three numbers, or of one with a unit, is
\* so many seconds, and a volume is its digits; everything else is refused. (A colon
\* behind the first or second number is let pass.)
NumbersAreRead ==
    /\ Is("seek") =>
          LET n == Len(given.nums)
              number == [i \in 1..n |-> IF given.nums[i] = <<"1">> THEN 1 ELSE 21]
              factor == CASE given.unit = <<"h">> -> 3600 [] given.unit = <<"m">> -> 60 [] OTHER -> 1
              seconds == factor * CASE n = 1 -> number[1]
                                    [] n = 2 -> 60 * number[1] + number[2]
                                    [] n > 2 -> 3600 * number[1] + 60 * number[2] + number[3]
          IN  /\ Result.ok <=> /\ n <= 3 /\ (given.colon # <<>> => n < 3)
                               /\ given.unit # <<>> => n = 1 /\ given.unit # <<"x">>
              /\ Result.ok => Result = Read(IF given.sign = <<"-">> THEN -seconds ELSE seconds,
                                            given.sign # <<>>)
    /\ Is("vol") =>
          LET meanings == {<<sign, d, p>> \in {<<>>, <<"+">>, <<"-">>} \X Texts({"1", "2"}, 4) \X {<<>>, <<"%">>} :
                             d # <<>> /\ sign \o d \o p = given.text}
              Number(d) == FoldLeft(LAMBDA n, c : 10 * n + Digit[c], 0, d)
          IN  Result \in IF meanings = {} THEN {Fail}
                         ELSE {Read(IF m[1] = <<"-">> THEN -Number(m[2]) ELSE Number(m[2]),
                                    <<m[1] # <<>>, m[3] # <<>> >>) : m \in meanings}

\* expr_parse_i: what the parser builds is what the grammar says, and it refuses
\* everything else: operators bind from the left and alike, "!" binds closest, whatever
\* the depth.
FiltersAreParsed ==
    Is("expr") => LET t == Tokens(given.text, <<>>) IN Result.v = IF t.ok THEN Meaning(t.v) ELSE Nil

\* rand_array: as many different numbers as are asked for, all in range, in order. (Not
\* every choice is made: the array is filled over the numbers that are still to be read.)
ChoicesDiffer ==
    Is("rand") => \A r \in Result : /\ \A i \in 1..given.size - 1 : r[i] < r[i + 1]
                                    /\ r[1] >= 0 /\ r[given.size] < given.nmax

\* run_parsed_command: a whole name is its command; what is the beginning of several
\* names is run as none of them, but for what the place of right-view in the table, which
\* the code says is sorted, lets through.
AbbreviationsAreUnique ==
    Is("name") =>
        LET begun == {i \in DOMAIN Table : StartsWith(Table[i].name, given.word)}
            accepts == {i \in begun : (Table[i].min = 0 \/ given.arg) /\ (Table[i].max = 1 \/ ~given.arg)}
            whole == {i \in begun : Table[i].name = given.word}
        IN  /\ Result # 0 => Result \in accepts
            /\ whole # {} => {Result} \ {0} = whole \cap accepts
            /\ (whole = {} /\ Cardinality(begun) > 1 /\ given.word # <<"r">>) => Result = 0

\* tab_expand: what the tab key makes of a line begins, word by word, with what was
\* typed, and runs the command that the line would have run.
TabKeepsMeaning ==
    Is("tab") =>
        \A l \in Result : /\ \A i \in DOMAIN given.words : StartsWith(l[i], given.words[i])
                          /\ Len(given.words) > 1 => GetCommand(l[1]) = GetCommand(given.words[1])

CommandsAreRead ==
    /\ RunKeepsWords /\ FiltersAreParsed /\ FlagsComeFirst /\ NumbersAreRead
    /\ ChoicesDiffer /\ AbbreviationsAreUnique /\ TabKeepsMeaning
=============================================================================
