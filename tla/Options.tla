------------------------------ MODULE Options ------------------------------
(***************************************************************************)
(* The options (app/options_*.c, ui/options_display.c): how a text becomes  *)
(* a value and a value a text, what setting one does to another, and what   *)
(* options_exit writes for the next start to read. There is one option of   *)
(* every kind, and those that depend on each other.                         *)
(*                                                                         *)
(* A text is a number, a name, a list of names between commas or bars, or   *)
(* anything else: <<"number", n>>, <<"name", s>>, <<"names", seq>>.         *)
(***************************************************************************)
EXTENDS Integers, Sequences, SequencesExt, FiniteSets, TLC

CONSTANTS
    Theme,      \* the values of color_win_fg in the colour scheme files
    MaxChanges  \* bound: changes, the restarts not counted

VARIABLES
    opt,        \* the values
    changes

vars == <<opt, changes>>

Number(n) == <<"number", n>>
Name(s) == <<"name", s>>
NameList(seq) == <<"names", seq>>
Bad == -1000    \* no value: an error message

-----------------------------------------------------------------------------
(* Texts and values. *)

\* a number in the range, or a name, which counts from min on
ParseEnum(t, min, max, names) ==
    IF t[1] = "number" THEN IF t[2] \in min..max THEN t[2] ELSE Bad
    ELSE IF t[1] = "name" /\ t[2] \in ToSet(names)
    THEN min - 1 + CHOOSE i \in DOMAIN names : names[i] = t[2]
    ELSE Bad
BoolNames == <<"false", "true">>
ParseInt(t, min, max) == ParseEnum(t, min, max, << >>)

AaaNames == <<"all", "artist", "album">>
ShuffleNames == <<"off", "tracks", "albums", "false", "true">>
ColorNames == <<"default", "black", "red", "green", "yellow", "blue", "magenta", "cyan", "gray",
    "darkgray", "lightred", "lightgreen", "lightyellow", "lightblue", "lightmagenta", "lightcyan",
    "white">>
Attributes == <<"standout", "underline", "reverse", "blink", "bold", "italic">>
Columns == {"artist", "title", "duration"}

SecondSize == 44100 * (16 \div 8) * 2
ChunkSize == 12 * 840 * 6

\* If a value is Bad the option stays.
With(o, field, value) == IF value = Bad THEN o ELSE [o EXCEPT ![field] = value]

SetBufferSeconds(o, t) ==
    LET sec == ParseInt(t, 1, 300)
    IN  IF sec = Bad THEN o ELSE [o EXCEPT !.chunks = (sec * SecondSize + ChunkSize \div 2) \div ChunkSize]
\* faulty: what is left of a second is dropped
GetBufferSecondsCut(o) == Number((o.chunks * ChunkSize) \div SecondSize)
GetBufferSeconds(o) == Number((o.chunks * ChunkSize + SecondSize \div 2) \div SecondSize)

\* faulty: the scheme stays the one that is set
SetColorOnly(o, t) ==
    LET color == ParseEnum(t, -1, 255, ColorNames)
    IN  IF color = Bad THEN o ELSE [o EXCEPT !.color = color]

\* a colour that is set by hand is of no scheme
SetColor(o, t) ==
    LET color == ParseEnum(t, -1, 255, ColorNames)
    IN  IF color = Bad THEN o ELSE [o EXCEPT !.color = color, !.scheme = ""]
GetColor(o) == IF o.color < 16 THEN Name(ColorNames[o.color + 2]) ELSE Number(o.color)

\* The second piece and those behind it begin with the bar that is before them, which
\* makes them unknown: offset is i where it should be i + 1.
SetAttr(o, t) ==
    LET names == IF t[1] = "names" THEN t[2] ELSE <<t[2]>>
    IN  [o EXCEPT !.attr = {names[1]} \cap ToSet(Attributes), !.scheme = ""]
GetAttr(o) == IF o.attr = {} THEN Name("default")
              ELSE NameList(SelectSeq(Attributes, LAMBDA a : a \in o.attr))

\* options_display_apply_colorscheme: a theme file is a list of :set commands
SetColorscheme(o, t) ==
    CASE t = Name("") -> [o EXCEPT !.scheme = ""]
      [] t[2] \in DOMAIN Theme -> [SetColor(o, Theme[t[2]]) EXCEPT !.scheme = t[2]]
      [] OTHER -> o

\* build_library_format: duration goes to the end
BuildLibraryFormat(columns) ==
    <<"columns", SelectSeq(columns, LAMBDA c : c # "duration"), "duration" \in ToSet(columns)>>
\* next_csv_token drops empty names
SetLibraryColumns(o, t) ==
    LET columns == SelectSeq(IF t[1] = "names" THEN t[2] ELSE <<t[2]>>, LAMBDA c : c # "")
    IN  IF columns = << >> \/ Len(columns) > 16 \/ ~(ToSet(columns) \subseteq Columns) THEN o
        ELSE [o EXCEPT !.columns = columns, !.format = BuildLibraryFormat(columns)]

SetFormat(o, t) == IF t = Name("invalid") THEN o ELSE [o EXCEPT !.format = t]

\* a password is what its length is here
SetPasswd(o, t) == IF t[2] \in 1..5 THEN o ELSE [o EXCEPT !.passwd = t[2]]

\* set_pl_env_vars: an empty text is one empty name
SetPlEnvVars(o, t) == [o EXCEPT !.env = t[2]]

\* faulty: the second names of off and tracks are values of their own
SetShuffleByName(o, t) == With(o, "shuffle", ParseEnum(t, 0, 4, ShuffleNames))

SetShuffle(o, t) ==
    LET value == ParseEnum(t, 0, 4, ShuffleNames)
    IN  With(o, "shuffle", CASE value = 3 -> 0 [] value = 4 -> 1 [] OTHER -> value)

SetSoftvolState(o, t) ==
    IF t[1] = "names" /\ Len(t[2]) = 2 /\ ToSet(t[2]) \subseteq 0..100 THEN [o EXCEPT !.softvol = t[2]] ELSE o

\* in thousandths; two decimals are written
SetSpeed(o, t) == With(o, "speed", ParseInt(t, 100, 4000))
GetSpeed(o) == Number(((o.speed + 5) \div 10) * 10)

-----------------------------------------------------------------------------
(* The list of the options. *)

\* option_insert keeps it sorted, "_" before letters
OptionHead == <<"aaa_mode", "buffer_seconds", "color_win_attr", "color_win_fg", "colorscheme",
    "format_playlist", "library_columns", "mouse", "passwd", "pl_env_vars", "play_library",
    "rewind_offset", "shuffle", "softvol_state", "speed">>

\* option_set
OptionSet(o, name, t) ==
    CASE name = "aaa_mode" -> With(o, "aaa", ParseEnum(t, 0, 2, AaaNames))
      [] name = "buffer_seconds" -> SetBufferSeconds(o, t)
      [] name = "color_win_attr" -> SetAttr(o, t)
      [] name = "color_win_fg" -> SetColor(o, t)
      [] name = "colorscheme" -> SetColorscheme(o, t)
      [] name = "format_playlist" -> SetFormat(o, t)
      [] name = "library_columns" -> SetLibraryColumns(o, t)
      [] name = "mouse" -> With(o, "mouse", ParseEnum(t, 0, 1, BoolNames))
      [] name = "passwd" -> SetPasswd(o, t)
      [] name = "pl_env_vars" -> SetPlEnvVars(o, t)
      [] name = "play_library" -> With(o, "play_library", ParseEnum(t, 0, 1, BoolNames))
      [] name = "rewind_offset" -> With(o, "rewind", ParseInt(t, -1, 9999))
      [] name = "shuffle" -> SetShuffle(o, t)
      [] name = "softvol_state" -> SetSoftvolState(o, t)
      [] name = "speed" -> SetSpeed(o, t)

\* opt->get of those that have it
Get(o, name) ==
    CASE name = "aaa_mode" -> Name(AaaNames[o.aaa + 1])
      [] name = "buffer_seconds" -> GetBufferSeconds(o)
      [] name = "color_win_attr" -> GetAttr(o)
      [] name = "color_win_fg" -> GetColor(o)
      [] name = "colorscheme" -> Name(o.scheme)
      [] name = "format_playlist" -> o.format
      [] name = "library_columns" -> NameList(o.columns)
      [] name = "passwd" -> Number(o.passwd)
      [] name = "pl_env_vars" -> NameList(o.env)
      [] name = "play_library" -> Name(BoolNames[o.play_library + 1])
      [] name = "rewind_offset" -> Number(o.rewind)
      [] name = "shuffle" -> Name(ShuffleNames[o.shuffle + 1])
      [] name = "softvol_state" -> NameList(o.softvol)
      [] name = "speed" -> GetSpeed(o)

\* opt->toggle
ToggleOption(o, name) ==
    CASE name = "aaa_mode" -> [o EXCEPT !.aaa = (@ + 1) % 3, !.play_library = 1]
      [] name = "play_library" -> [o EXCEPT !.play_library = 1 - @]
      [] name = "mouse" -> [o EXCEPT !.mouse = 1 - @]
      [] name = "shuffle" ->
            LET s == (o.shuffle + 1) % 3
            IN  [o EXCEPT !.shuffle = IF o.play_library = 0 /\ s = 2 THEN 0 ELSE s]

\* options_persist_write_values
Persist(o) ==
    LET isColor(n) == n \in {"color_win_attr", "color_win_fg"}
        names == SelectSeq(OptionHead, LAMBDA n : n # "mouse" /\ ~(o.scheme # "" /\ isColor(n)))
    IN  [i \in DOMAIN names |-> <<names[i], Get(o, names[i])>>]

\* what the options are before any file is read, with the default theme and columns
Defaults ==
    LET plain == [aaa |-> 0, chunks |-> 29, attr |-> {}, color |-> 252, scheme |-> "", format |-> Name("f"),
                  columns |-> << >>, mouse |-> 0, passwd |-> 0, env |-> <<"">>, play_library |-> 1,
                  rewind |-> 5, shuffle |-> 0, softvol |-> <<100, 100>>, speed |-> 1000]
    IN  SetLibraryColumns(plain, NameList(<<"artist", "title", "duration">>))

\* options_load
Load(lines) == FoldLeft(LAMBDA o, line : OptionSet(o, line[1], line[2]), Defaults, lines)

-----------------------------------------------------------------------------
Inputs == [n \in ToSet(OptionHead) |->
    CASE n = "aaa_mode" -> {Name("album"), Number(1), Number(3), Name("junk")}
      [] n = "buffer_seconds" -> {Number(i) : i \in (0..12) \cup {299, 300, 301}} \cup {Name("junk")}
      [] n = "color_win_attr" -> {Name("default"), Name("bold"), NameList(<<"standout", "bold">>)}
      [] n = "color_win_fg" -> {Number(i) : i \in {-2, -1, 7, 15, 16, 255, 256}} \cup {Name("white")}
      [] n = "colorscheme" -> {Name(""), Name("none")} \cup {Name(s) : s \in DOMAIN Theme}
      [] n = "format_playlist" -> {Name("f"), Name("g"), Name("invalid")}
      [] n = "library_columns" -> {Name("title"), Name("junk"), NameList(<<"">>),
                                   NameList(<<"duration", "", "artist">>)}
      [] n = "mouse" -> {Name("true")}
      [] n = "passwd" -> {Number(i) : i \in {0, 5, 6}}
      [] n = "pl_env_vars" -> {NameList(<<"">>), NameList(<<"HOME", "MUSIC">>)}
      [] n = "play_library" -> {Name("false"), Number(0)}
      [] n = "rewind_offset" -> {Number(i) : i \in {-2, -1, 9999, 10000}}
      [] n = "shuffle" -> {Name("true"), Name("false"), Name("albums"), Number(4)}
      [] n = "softvol_state" -> {NameList(<<0, 100>>), NameList(<<0, 101>>), NameList(<<7>>)}
      [] n = "speed" -> {Number(i) : i \in {99, 100, 104, 1255, 4000, 4001}}]

Init == opt = Defaults /\ changes = 0

Set ==
    /\ changes < MaxChanges /\ changes' = changes + 1
    /\ \E n \in ToSet(OptionHead) : \E t \in Inputs[n] : opt' = OptionSet(opt, n, t)

Toggle ==
    /\ changes < MaxChanges /\ changes' = changes + 1
    /\ \E n \in {"aaa_mode", "play_library", "mouse", "shuffle"} : opt' = ToggleOption(opt, n)

\* options_exit, and options_load of the next start
Restart == opt' = Load(Persist(opt)) /\ UNCHANGED changes

Next == Set \/ Toggle \/ Restart

-----------------------------------------------------------------------------
Texts(o) == [n \in ToSet(OptionHead) \ {"mouse"} |-> Get(o, n)]

\* options_persist_write_values: after a restart an option has the text it had, however it
\* was written when it was set. Three may not come back: mouse, which is not written; under a
\* colour scheme the attributes, which are not written then; and the format of playlists,
\* which the line of library_columns behind it replaces by the one the columns make,
\* against docs/runtime.md:70-72, "It stores: Current option values". The name of a scheme
\* stands for its colours.
RestartKeeps ==
    LET after == Load(Persist(opt))
        NotSaid == {"format_playlist"} \cup IF opt.scheme = "" THEN {} ELSE {"color_win_attr"}
    IN  /\ \A n \in DOMAIN Texts(opt) \ NotSaid : Texts(after)[n] = Texts(opt)[n]
        /\ opt.scheme # "" => opt.color = SetColor(opt, Theme[opt.scheme]).color
        /\ after.format = BuildLibraryFormat(opt.columns)

\* What is read is in range, whoever wrote it, and a second restart changes nothing.
RestartSettles ==
    LET after == Load(Persist(opt))
    IN  /\ Load(Persist(after)) = after
        /\ opt.shuffle \in 0..2 /\ opt.chunks \in 3..875 /\ opt.color \in -1..255
=============================================================================
