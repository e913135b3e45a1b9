------------------------------ MODULE MCSystem ------------------------------
(* Small instances of parts of the main thread that share no state: the     *)
(* cache of tracks, the line at the bottom of the screen in each of its two *)
(* modes, what is typed there, the filters, the trees, and so on. focus is  *)
(* the part a behaviour is about, and the others stay as they begin.        *)
EXTENDS Cache, TLC

CONSTANTS f1, f2, none, p1, p2, la, Space, Slash

VARIABLES focus,
    cl, mode, hist, pos, typed, tab,
    entries, compiled, since,
    tree,
    given, answer,
    opt, changes,
    binds, bc, view, kmode, pasting, popup, saved, shown, keyline, live, before, mixed,
    frames, l, consumer_pos, scale_pos, gain_vol, replaygain, replaygain_limit,
    replaygain_preamp, track, alone, replaygain_scale, again, moved,
    running, op, pcm_initialized, mixer_initialized, mixer_is_open, volume_max, device,
    soft_vol, pause_on_output_change, volume, soft, mute, told, mixer_failed, unnoticed,
    text, at, cp, cd, playing, start_offset, current_offset, end_offset, child_pos, heard,
    ended, lost,
    walk, dirs, files, left, dirs_backup, files_backup, todo, prepend, list, cancelled,
    opening, table, fd, context, redirections, lines, count, plugin, data_fd, left_behind,
    wronged, stream, spos, counter, metadata, audio

\* la is two bytes long; the lists of expansions have two texts and one
MCBytes == [x \in {la, Space, Slash} |-> IF x = la THEN 2 ELSE 1]
MCExpansions == {<< <<la>>, << <<la, la, la>>, <<Space, la>> >> >>, << <<Slash>>, << <<Slash, Space>> >> >>}
Line == INSTANCE CommandLine WITH Char <- {la, Space, Slash}, Bytes <- MCBytes,
    Expansions <- MCExpansions, NoText <- none, MaxLine <- 2, MaxLines <- 2, FirstSize <- 2

Filters == INSTANCE Filters WITH Digits <- {"1"},
    Builtin <- <<"s">> :> "bool" @@ <<"n">> :> "int",
    Names <- << <<"f">>, <<"g">> >>,
    Texts <- {<<"s">>, <<"!", "g">>, <<"f", "|", "s">>, <<"n", "=", "1">>, <<"z", ")">>}

Tree == INSTANCE RbTree WITH MaxNode <- 8

\* part of commands[], and right-view where it is there
MCCommand(name, min, max, expand) == [name |-> name, min |-> min, max |-> max, expand |-> expand]
MCTable == <<
    MCCommand(<<"b", "i">>, 1, 1, "bind"), MCCommand(<<"f", "a">>, 0, 1, "filters"),
    MCCommand(<<"p", "n">>, 0, 0, "none"), MCCommand(<<"p", "n", "a">>, 0, 0, "none"),
    MCCommand(<<"r", "i">>, 0, 1, "none"), MCCommand(<<"p", "u">>, 0, 1, "commands"),
    MCCommand(<<"r", "a">>, 0, 0, "none"), MCCommand(<<"r", "u">>, 1, 1, "none"),
    MCCommand(<<"t", "o">>, 1, 1, "toggle"), MCCommand(<<"u", "n">>, 1, 1, "unbind")>>
Typed == INSTANCE Commands WITH Digits <- {"1", "2"}, Builtin <- << >>,
    Digit <- "1" :> 1 @@ "2" :> 2, Table <- MCTable,
    Contexts <- {<<"c">>, <<"l">>, <<"p">>}, Keys <- {<<"a">>, <<"a", "b">>, <<"x">>},
    FilterNames <- {<<"f">>, <<"f", "g">>}, OptionNames <- {<<"r">>, <<"r", "s">>}

Options == INSTANCE Options WITH MaxChanges <- 3,
    Theme <- "s" :> <<"name", "red">> @@ "t" :> <<"number", 100>>

\* strings of letters, a control character, two and three bytes, and what is broken;
\* and those of what may be four bytes, or more than it needs
MCUnicode == UNION {[1..n -> {65, 97, 27, 195, 169, 226, 130, 255}] : n \in 0..3}
             \cup [1..4 -> {240, 159, 65}] \cup [1..4 -> {244, 169, 193}] \cup [1..5 -> {240, 159}]
MCComposed(composed, base) == [composed |-> composed, base |-> base]
MCComposedMap == <<MCComposed(192, 65), MCComposed(201, 69), MCComposed(226, 97), MCComposed(233, 101),
                   MCComposed(8322, 50)>>
\* Glob has the characters in it; patterns of stars, question marks, backslashes and letters
Utf8 == INSTANCE Glob WITH using_utf8 <- TRUE, Wide <- {8322}, Narrow <- {233},
    Lower <- 201 :> 233, unidecomp_map <- MCComposedMap, Strings <- MCUnicode,
    Scalars <- {1, 65, 127, 128, 2047, 2048, 65535, 65536, 1114111},
    Patterns <- UNION {[1..n -> {42, 63, 92, 97}] : n \in 0..4} \cup [1..5 -> {42, 97}],
    Texts <- UNION {[1..n -> {65, 98}] : n \in 0..4} \cup
             {<<195, 184>>, <<97, 195, 184, 97>>, <<42>>, <<63, 92>>, <<65, 42, 65>>}
Legacy == INSTANCE Uchar WITH using_utf8 <- FALSE, Wide <- {8322}, Narrow <- {233},
    Lower <- 201 :> 233, unidecomp_map <- MCComposedMap, Strings <- MCUnicode, Scalars <- {}

\* part of track_fopts[]; formats of any four characters, of two fields, and of three in
\* the parts of a condition; values with a wide character and what is empty or unset
MCRow(str, ch, type, pad_zero) == [str |-> str, ch |-> ch, type |-> type, pad_zero |-> pad_zero]
MCRows == <<
    MCRow(<<"a", "r">>, "a", "str", FALSE), MCRow(<<"n", "r">>, "n", "int", TRUE),
    MCRow(<<"d", "u">>, "d", "time", FALSE), MCRow(<<"m", "d">>, "", "int", TRUE),
    MCRow(<<"r", "g">>, "", "double", FALSE),
    MCRow(<<"f", "i", "l", "e", "n", "a", "m", "e">>, "F", "str", FALSE)>>
MCFields == {
    <<"%", "n">>, <<"%", "-", "2", "a">>, <<"%", "2", "n">>, <<"%", "0", "2", "n">>,
    <<"%", ".", "2", "a">>, <<"%", "5", "0", "%", "a">>, <<"%", "{", "?", "n", ">", "0", "?">>,
    <<"%", "{", "?", "!", "o", "&", "f", "|", "a", "r", "?">>,
    <<"%", "{", "?", "n", "r", "!", "=", "a", "r", "?">>, <<"}">>, <<"?">>, <<"%", "=">>,
    <<"%", "{", "a", "r", "}">>, <<"%", "d">>, <<"%", "4", "%">>,
    <<"%", "{", "?", "a", "=", "-", "1", "?">>}
MCFormats ==
    UNION {[1..n -> {"%", "{", "?", "}", "a", "=", "0"}] : n \in 0..4}
    \cup {f \o g : f, g \in MCFields}
    \cup {<<"%", "{", "?", "a", "r", "?">> \o f \o g \o <<"?">> \o h \o <<"}">> : f, g, h \in MCFields}
MCValue(val) == [empty |-> FALSE, val |-> val]
MCEmpty == [empty |-> TRUE, val |-> << >>]
MCDigits == {"0", "1", "2", "3", "4", "5", "6", "7", "8", "9"}
Format == INSTANCE FormatPrint WITH Wide <- {"W"}, Digits <- MCDigits, Builtin <- << >>,
    Digit <- [d \in MCDigits |-> CHOOSE n \in 0..9 : ToString(n) = d],
    FormatOptions <- MCRows, TermusOptions <- <<"o">> :> <<"t">> @@ <<"f">> :> <<"f", "a", "l", "s", "e">>,
    StreamNames <- {<<"h">>}, clipped_text <- <<".", ".">>, time_show_leading_zero <- FALSE,
    Formats <- MCFormats, Widths <- {0, 1, 3, 6},
    Values <- {
        <<MCValue(<<"x", "W", "y">>), MCValue(-1), MCValue(3725), MCEmpty, MCValue(<<"1", ".">>), MCValue(<<"h">>)>>,
        <<MCEmpty, MCValue(42), MCValue(-61), MCValue(7), MCValue(<<"1", ".">>), MCValue(<<"g">>)>>}

MCCommands == {"popup filters", "popup track-info", "popup-close", "live-filter x",
               "view playlist", "win-activate", "junk"}
Keys == INSTANCE Keys WITH KeyOrder <- <<":", "a">>, Commands <- MCCommands,
    Bindable <- {"popup filters", "junk"},
    CommandOf <- [c \in MCCommands |-> CASE c \in {"popup filters", "popup track-info"} -> "popup"
                                         [] c = "junk" -> "" [] OTHER -> c],
    MaxLine <- 1, MaxBindings <- 2, mode <- kmode, line <- keyline

\* gains and peaks in decibels, of a track that is loud and known, one of which only the
\* album is, and one without peaks
MCInfo(tg, tp, ag, ap, out) ==
    [track_gain |-> tg, track_peak |-> tp, album_gain |-> ag, album_peak |-> ap, output_gain |-> out]
MCFactor ==
    0 :> 65536 @@ -5 :> 36854 @@ -4 :> 41350 @@ -3 :> 46395 @@ -2 :> 52057 @@ -1 :> 58409 @@
    1 :> 73533 @@ 2 :> 82505 @@ 3 :> 92573 @@ 4 :> 103867 @@ 5 :> 116541 @@ 6 :> 130762 @@
    7 :> 146717 @@ 8 :> 164620 @@ 9 :> 184706
Gain == INSTANCE Gain WITH ChunkFrames <- 3, MaxPos <- 6, soft_vol <- gain_vol, ti <- track, Factor <- MCFactor,
    Infos <- {MCInfo(3, -1, 2, -1000, -2), MCInfo(-1000, -1000, -4, -30, 0),
              MCInfo(-5, -1000, -1000, -1000, 3)}

Mixer == INSTANCE Mixer WITH OpHead <- <<p1, p2>>, WithMixer <- {p1, p2}, NoPlugin <- none,
    MixerMax <- 1, SoftMax <- 2, failed <- mixer_failed, mixed <- unnoticed

\* every head, first track, FILE between, second track and end with each of the others
MCJoin(A, B) == {x \o y : x \in A, y \in B}
MCHeads == {<< >>, << <<"FILE", "a">> >>, << <<"TITLE", "x">>, <<"FILE", "a">> >>, << <<"FILE", "c">> >>}
MCFirst == {
    << <<"TRACK", "1">>, <<"INDEX", "1", "0:0">> >>,
    << <<"TRACK", "1">>, <<"INDEX", "", "0:0">>, <<"INDEX", "1", "0:1">> >>,
    << <<"TRACK", "1">>, <<"TITLE", "y">>, <<"INDEX", "1", "0:1">>, <<"TITLE", "x">>, <<"INDEX", "1", "0:2">> >>,
    << <<"TRACK", "1">> >>, << <<"TRACK", "2">>, <<"INDEX">> >>}
MCSecond == {<< >>,
    << <<"TRACK", "2">>, <<"INDEX", "", "0:1">>, <<"INDEX", "1", "0:2">> >>,
    << <<"TRACK", "2">>, <<"INDEX", "", "0:2">>, <<"INDEX", "1", "0:1">> >>,
    << <<"TRACK", "2">>, <<"TITLE", "z">>, <<"INDEX", "", "0:1">>, <<"REM", "DATE", "d">> >>,
    << <<"TRACK", "2">>, <<"INDEX", "2", "0:1">> >>, << <<"TRACK">>, <<"INDEX", "1", "0:1">> >>}
MCEnds == {<< >>, << <<"TITLE", "w">> >>, << <<"INDEX", "1", "z">> >>, << <<"POSTGAP", "z">> >>}
MCSheets ==
    {<< >>} \cup MCJoin(MCHeads, MCJoin(MCFirst, MCJoin({<< >>, << <<"FILE", "b">> >>, << <<"FILE", "a">> >>},
                                           MCJoin(MCSecond, MCEnds))))
Cue == INSTANCE Cue WITH Sheets <- MCSheets, Number <- "" :> 0 @@ "1" :> 1 @@ "2" :> 2,
    Time <- "" :> 0 @@ "0:0" :> 0 @@ "0:1" :> 1 @@ "0:2" :> 2, Sector <- 2,
    Frames <- "a" :> 7 @@ "b" :> 3, p <- cp

MCEntry(dir, name, kind) == [dir |-> dir, name |-> name, kind |-> kind]
MCEntries == {
    MCEntry(<<"m">>, "b", "file"), MCEntry(<<"m">>, "s.cue", "file"), MCEntry(<<"m">>, "d", "dir"),
    MCEntry(<<"m">>, "l", "link"), MCEntry(<<"m">>, "x", "dir"), MCEntry(<<"m">>, ".hidden", "dir"),
    MCEntry(<<"m", "d">>, "a", "file"), MCEntry(<<"m", "d">>, "e", "dir"), MCEntry(<<"m", "d">>, "j", "file"),
    MCEntry(<<"m", "d", "e">>, "f", "file"),
    MCEntry(<<"m", "x">>, "c", "file"), MCEntry(<<"m", "x">>, ".nomedia", "file"), MCEntry(<<"m", "x">>, "y", "dir"),
    MCEntry(<<"m", "x", "y">>, "z", "file"), MCEntry(<<"m", ".hidden">>, "h", "file")}
MCFileOrder == <<
    <<"m", ".hidden", "h">>, <<"m", "b">>, <<"m", "d", "a">>, <<"m", "d", "e", "f">>, <<"m", "d", "j">>,
    <<"m", "s.cue">>, <<"m", "x", ".nomedia">>, <<"m", "x", "c">>, <<"m", "x", "y", "z">> >>
MCPlayable == {
    <<"m", "b">>, <<"m", "d", "a">>, <<"m", "d", "e", "f">>, <<"m", ".hidden", "h">>, <<"m", "x", "c">>,
    <<"m", "x", "y", "z">>, <<"m", "s.cue", 1>>, <<"m", "s.cue", 2>>}
Adding == INSTANCE Adding WITH Root <- <<"m">>, Entries <- MCEntries, FileOrder <- MCFileOrder,
    Sheet <- <<"m", "s.cue">> :> [files |-> << <<".", "d", "a">>, <<"gone">> >>, tracks |-> <<1, 2>>],
    Playable <- MCPlayable,
    Texts <- UNION {[1..n -> {"a", "\n", "\r", "#"}] : n \in 0..5}
             \cup {<<"[", "\n">> \o s : s \in [1..4 -> {"F", "=", "\n"}]},
    Dots <- UNION {[1..n -> {"a", "b", "..", "."}] : n \in 0..3},
    Envs <- {"A" :> <<"a">> @@ "B" :> <<"a", "", "b", "..", "b">>, "B" :> <<"b">> @@ "A" :> <<"..">>,
             "A" :> << >> @@ "B" :> <<"..", "..">>},
    phase <- walk

MCByte(kind, value) == [kind |-> kind, value |-> value]
MCAudio == <<MCByte("audio", 1), MCByte("audio", 1), MCByte("audio", 1)>>
MCMeta(n) == <<MCByte("length", n)>> \o [i \in 1..2 * n |-> MCByte("meta", 1)]
\* with and without metadata; the last of it is cut short
MCStreams == {
    [bytes |-> MCAudio, metaint |-> 0],
    [bytes |-> MCAudio \o MCMeta(0) \o MCAudio \o MCMeta(1) \o MCAudio \o <<MCByte("length", 1), MCByte("meta", 1)>>,
     metaint |-> 3]}
MCPlugins == <<[ext |-> "a", priority |-> 3], [ext |-> "*", priority |-> 2], [ext |-> "b", priority |-> 1],
               [ext |-> "a", priority |-> 0]>>
Stream == INSTANCE Stream WITH MaxFd <- 2, MaxLines <- 2, Plugins <- MCPlugins, MetaUnit <- 2,
    Streams <- MCStreams, Words <- {<< >>, <<"a">>, <<"a", "8">>},
    phase <- opening, lost <- left_behind, pos <- spos

lvars == <<cl, mode, hist, pos, typed, tab>>
fvars == <<entries, compiled, since>>
tvars == <<tree>>
gvars == <<given, answer>>
ovars == <<opt, changes>>
kvars == <<binds, bc, view, kmode, pasting, popup, saved, shown, keyline, live, before, mixed>>
scalevars == <<frames, l, consumer_pos, scale_pos, gain_vol>>
rgvars == <<replaygain_limit, replaygain_preamp, track, alone>>
avars == <<scalevars, rgvars, replaygain, replaygain_scale, again, moved>>
mvars == <<running, op, pcm_initialized, mixer_initialized, mixer_is_open, volume_max, device,
           soft_vol, pause_on_output_change, volume, soft, mute, told, mixer_failed, unnoticed>>
uvars == <<text, at, cp, cd, playing, start_offset, current_offset, end_offset, child_pos, heard,
           ended, lost>>
dvars == <<walk, dirs, files, left, dirs_backup, files_backup, todo, prepend, list, cancelled>>
svars == <<opening, table, fd, context, redirections, lines, count, plugin, data_fd, left_behind,
           wronged, stream, spos, counter, metadata, audio>>
MCvars == <<focus, cvars, lvars, fvars, tvars, gvars, ovars, kvars, avars, mvars, uvars,
          dvars, svars>>

MCInit ==
    /\ focus \in {"cache", "command", "search", "filters", "tree", "typed", "options",
                 "keys", "gain", "replaygain", "mixer", "volume", "cue", "adding", "stream", "characters"}
    \* what another part can begin with is of no interest
    /\ IF focus = "replaygain" THEN TRUE ELSE alone = TRUE /\ track = MCInfo(3, -1, 2, -1000, -2)
    /\ IF focus \in {"mixer", "volume"} THEN TRUE ELSE soft_vol = TRUE /\ pause_on_output_change = TRUE
    /\ IF focus = "cue" THEN TRUE ELSE text = << >>
    /\ IF focus = "adding" THEN TRUE ELSE prepend = TRUE
    /\ IF focus = "typed" THEN Typed!Init ELSE given = [kind |-> "none"] /\ answer = << >>
    /\ CacheInit
    /\ Line!Init /\ Filters!Init /\ Tree!Init /\ Options!Init /\ Keys!Init
    /\ Gain!Init /\ Mixer!Init /\ Cue!Init /\ Adding!Init /\ Stream!Init

\* what a behaviour is about, and all else stays
In(names) == focus \in names /\ UNCHANGED focus
Keep(part) ==
    /\ IF part = "cache" THEN TRUE ELSE UNCHANGED cvars
    /\ IF part = "line" THEN TRUE ELSE UNCHANGED lvars
    /\ IF part = "filters" THEN TRUE ELSE UNCHANGED fvars
    /\ IF part = "tree" THEN TRUE ELSE UNCHANGED tvars
    /\ IF part = "typed" THEN TRUE ELSE UNCHANGED gvars
    /\ IF part = "options" THEN TRUE ELSE UNCHANGED ovars
    /\ IF part = "keys" THEN TRUE ELSE UNCHANGED kvars
    /\ IF part = "gain" THEN TRUE ELSE UNCHANGED avars
    /\ IF part = "mixer" THEN TRUE ELSE UNCHANGED mvars
    /\ IF part = "cue" THEN TRUE ELSE UNCHANGED uvars
    /\ IF part = "adding" THEN TRUE ELSE UNCHANGED dvars
    /\ IF part = "stream" THEN TRUE ELSE UNCHANGED svars

\* of three tracks two are held, or one by two places
CacheStep ==
    /\ In({"cache"}) /\ CacheNext /\ FoldFunction(+, 0, held') <= 2
    /\ Keep("cache")
\* a behaviour is about the command mode or about the search mode
LineStep == In({"command", "search"}) /\ Line!Next /\ mode' \in {"normal", focus} /\ Keep("line")
FiltersStep == In({"filters"}) /\ Filters!Next /\ Keep("filters")
TreeStep == In({"tree"}) /\ Tree!Next /\ Keep("tree")
TypedStep == In({"typed"}) /\ Typed!Next /\ Keep("typed")
OptionsStep == In({"options"}) /\ Options!Next /\ Keep("options")
KeysStep == In({"keys"}) /\ Keys!Next /\ Keep("keys")
\* the frames of a chunk, with one track and replay gain on or off; and replay gain without them
GainStep ==
    /\ In({"gain", "replaygain"}) /\ Gain!Next
    /\ \/ focus = "gain" /\ rgvars' = rgvars /\ replaygain' \in {"disabled", "track"}
       \/ focus = "replaygain" /\ scalevars' = scalevars
    /\ Keep("gain")
\* the mixer with its levels at their ends; and the volumes with one plugin
MixerStep ==
    /\ In({"mixer", "volume"})
    /\ \/ focus = "mixer" /\ Mixer!Next /\ <<soft, mute>>' = <<soft, mute>> /\ volume' \in {<<-1, -1>>, <<1, 1>>}
       \/ /\ focus = "volume" /\ ~mixer_failed
          /\ Mixer!Start \/ Mixer!SetSoftvol \/ Mixer!ReadVolume \/ Mixer!Vol \/ Mixer!Mute
          /\ pcm_initialized' \subseteq {p1}
    /\ Keep("mixer")
CueStep == In({"cue"}) /\ Cue!Next /\ Keep("cue")
AddingStep == In({"adding"}) /\ Adding!Next /\ Keep("adding")
StreamStep == In({"stream"}) /\ Stream!Next /\ Keep("stream")

MCNext ==
    \/ CacheStep \/ LineStep \/ FiltersStep \/ TreeStep \/ TypedStep
    \/ OptionsStep \/ KeysStep \/ GainStep \/ MixerStep \/ CueStep \/ AddingStep \/ StreamStep

MCSpec == MCInit /\ [][MCNext]_MCvars

-----------------------------------------------------------------------------
\* CommandLine and Keys: the counters of the line, its text in its buffer, its histories; the
\* bindings and their counts, and the filter popup with all that may come in between.
InputIsSound ==
    /\ focus \in {"command", "search"} =>
          Line!CountersAgree /\ Line!TextFits /\ Line!HistoriesAreSets /\ Line!BrowsingIsSound
    /\ focus = "keys" => Keys!BindingsAgree /\ Keys!CancelBringsBack /\ Keys!PopupShowsTheFilter
\* Uchar, Glob, FormatPrint, Filters, Commands and Options: characters, the columns they take
\* and the search for them agree with their bytes; patterns match what they mean, and formats
\* that are accepted fill the line; what is active is in force whatever becomes of the
\* filters' texts; words, flags, numbers, names and completions are read as they are
\* meant; a restart gives back every option but three, and settles.
TextsAreRead ==
    /\ focus = "characters" =>
          /\ Utf8!ReadingIsSound /\ Utf8!ColumnsAreKept /\ Utf8!SearchingIsSound
          /\ Legacy!ColumnsAreKept /\ Utf8!GlobIsSound /\ Format!AcceptedFormatsPrint
    /\ focus = "filters" => Filters!ActiveIsInForce /\ Filters!CompiledStandsAlone
    /\ focus = "typed" => Typed!CommandsAreRead
    /\ focus = "options" => Options!RestartKeeps /\ Options!RestartSettles
\* RbTree: the trees are balanced and walking them meets every node in order.
TreeIsSound == focus = "tree" => Tree!IsBalanced /\ Tree!WalksInOrder
\* Gain and Mixer: a frame is scaled once while the gain stays on, by the gain that is in
\* force, and one of 24 or 32 bits never turned over; device, mixer and volume are those
\* of the plugin in use, as long as pause_on_output_change is not set in soft volume.
OutputIsSound ==
    /\ focus \in {"gain", "replaygain"} => Gain!ScaledOnce /\ Gain!GainIsCurrent
    /\ (focus = "gain" /\ frames = Gain!Fresh /\ l = 0) => Gain!ScalingIsSound
    /\ focus \in {"mixer", "volume"} => Mixer!MixerFollows /\ Mixer!VolumeInRange
\* CommandLine: the final NUL is within the buffer, too, which it is not always.
LineFits == focus = "command" => Line!LineFits
\* Cue, Adding and Stream: the tracks of a sheet, and what is heard of them; what a
\* directory, a playlist and a path with variables in it come to; descriptors, and what
\* of a stream is played.
SourcesAreSound ==
    /\ focus = "cue" => Cue!SheetIsSound /\ Cue!TrackIsHeard
    /\ focus = "adding" => Adding!AddsWhatIsThere
    /\ (focus = "adding" /\ dirs_backup = 0 /\ dirs = << <<"m">> >>) =>
          Adding!PlaylistReadsBack /\ Adding!PathsComeBack
    /\ focus = "stream" => Stream!DescriptorsAreKept /\ Stream!OnlyAudioIsPlayed
    /\ (focus = "stream" /\ opening = "closed" /\ table = [n \in 0..2 |-> "free"]) => Stream!UrisAreRead
=============================================================================
