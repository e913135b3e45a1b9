-------------------------------- MODULE Cue --------------------------------
(***************************************************************************)
(* Cue sheets: library/cue.c reads one line by line and makes the tracks of *)
(* it, and plugins/input/cue.c plays a track as a part of the file that     *)
(* holds it, by way of the input plugin of that file (the child). A line is *)
(* its tokens; positions are frames, and 1/75 s is a whole number of them.  *)
(***************************************************************************)
EXTENDS Integers, Sequences, FiniteSets, TLC

CONSTANTS
    Sheets,     \* texts of sheets, sequences of lines
    Number,     \* what cue_parse_int makes of a token, where it is no error
    Time,       \* the same for cue_parse_time
    Sector,     \* frames of 1/75 s
    Frames      \* the files that can be opened, and their frames

VARIABLES
    text, at,           \* the sheet, and the lines that are read
    p,                  \* struct cue_parser
    cd,                 \* struct cue_sheet; NoSheet before it is made and if it is not
    playing,            \* the track of struct cue_private
    start_offset, current_offset, end_offset,
    child_pos,          \* where the child is
    heard, ended, lost  \* for the properties: see Read and Seek

vars == <<text, at, p, cd, playing, start_offset, current_offset, end_offset, child_pos,
          heard, ended, lost>>
priv == <<playing, start_offset, current_offset, end_offset, child_pos, heard, ended, lost>>

NoSheet == [files |-> << >>, tracks |-> << >>, meta |-> << >>]
NoTrack == [file |-> 0, number |-> -1]
Last(s) == s[Len(s)]

-----------------------------------------------------------------------------
(* The parser. *)

\* cue_extract_token: a token that is not there is empty, which is the number 0
Token(line, i) == IF i <= Len(line) THEN line[i] ELSE ""

\* faulty: the last one is kept
ParseStrLast(ps, field, token) ==
    IF ps.tracks # << >> THEN [ps EXCEPT !.tracks[Len(ps.tracks)].meta = (field :> token) @@ @]
    ELSE [ps EXCEPT !.meta = (field :> token) @@ @]
\* CUE_PARSE_STR: of the track that is being read or, before the first, of the sheet. What
\* is there already is kept.
ParseStr(ps, field, token) ==
    IF ps.tracks # << >> THEN [ps EXCEPT !.tracks[Len(ps.tracks)].meta = @ @@ (field :> token)]
    ELSE [ps EXCEPT !.meta = @ @@ (field :> token)]

ParseFile(ps, line) == [ps EXCEPT !.files = Append(@, Token(line, 2))]

\* a track is of the last FILE before it, which is told from another FILE of that name
ParseTrack(ps, line) ==
    IF ps.files = << >> \/ Token(line, 2) \notin DOMAIN Number THEN [ps EXCEPT !.err = TRUE]
    ELSE [ps EXCEPT !.tracks = Append(@, [file |-> Len(ps.files), nr |-> Number[Token(line, 2)],
                                          index0 |-> -1, index1 |-> -1, meta |-> << >>])]

ParseIndex(ps, line) ==
    IF Token(line, 2) \notin DOMAIN Number THEN [ps EXCEPT !.err = TRUE]
    ELSE IF Number[Token(line, 2)] > 1 THEN ps
    ELSE IF Token(line, 3) \notin DOMAIN Time THEN [ps EXCEPT !.err = TRUE]
    ELSE IF ps.tracks = << >> THEN ps
    ELSE IF Number[Token(line, 2)] = 0 THEN [ps EXCEPT !.tracks[Len(ps.tracks)].index0 = Time[Token(line, 3)]]
    ELSE [ps EXCEPT !.tracks[Len(ps.tracks)].index1 = Time[Token(line, 3)]]

\* the gaps are kept and nobody asks for them
ParseGap(ps, line) == IF Token(line, 2) \in DOMAIN Time THEN ps ELSE [ps EXCEPT !.err = TRUE]

ParseRem(ps, line) ==
    CASE Token(line, 2) = "DATE" -> ParseStr(ps, "date", Token(line, 3))
      [] Token(line, 2) \in {"REPLAYGAIN_ALBUM_GAIN", "REPLAYGAIN_TRACK_GAIN"} ->
            ParseStr(ps, "rg_gain", Token(line, 3))
      [] OTHER -> ps

ParsedLine(ps, line) ==
    CASE Token(line, 1) = "FILE" -> ParseFile(ps, line)
      [] Token(line, 1) = "TITLE" -> ParseStr(ps, "title", Token(line, 2))
      [] Token(line, 1) = "TRACK" -> ParseTrack(ps, line)
      [] Token(line, 1) = "INDEX" -> ParseIndex(ps, line)
      [] Token(line, 1) = "REM" -> ParseRem(ps, line)
      [] Token(line, 1) \in {"PREGAP", "POSTGAP"} -> ParseGap(ps, line)
      [] OTHER -> ps

Indexed(t) == [t EXCEPT !.index0 = IF @ = -1 THEN t.index1 ELSE @,
                        !.index1 = IF @ = -1 THEN t.index0 ELSE @]
\* faulty: a track may begin before the one before it does
PostProcessUnordered(ps) ==
    LET ts == [i \in DOMAIN ps.tracks |-> Indexed(ps.tracks[i])]
    IN  [ps EXCEPT !.tracks = ts,
            !.err = ps.files = << >> \/ ts = << >>
                    \/ \E i \in DOMAIN ts : ts[i].index0 = -1 \/ (i > 1 /\ ts[i - 1].nr >= ts[i].nr)]
\* cue_post_process
PostProcess(ps) ==
    LET ts == [i \in DOMAIN ps.tracks |-> Indexed(ps.tracks[i])]
    IN  [ps EXCEPT !.tracks = ts,
            !.err = \/ ps.files = << >> \/ ts = << >>
                    \/ \E i \in DOMAIN ts :
                          \/ ts[i].index0 = -1
                          \/ i > 1 /\ ts[i - 1].nr >= ts[i].nr
                          \/ i > 1 /\ ts[i - 1].file = ts[i].file /\ ts[i - 1].index1 > ts[i].index0]

\* cue_parser_to_sheet: a track ends where the pregap of the next begins, and the last
\* one of a FILE with that file
ToSheet(ps) ==
    [files |-> ps.files, meta |-> ps.meta,
     tracks |-> [i \in DOMAIN ps.tracks |->
        LET t == ps.tracks[i]
        IN  [file |-> t.file, offset |-> t.index1, number |-> t.nr, meta |-> t.meta,
             length |-> IF i < Len(ps.tracks) /\ ps.tracks[i + 1].file = t.file
                        THEN ps.tracks[i + 1].index0 - t.index1 ELSE -1]]]

-----------------------------------------------------------------------------
(* The input plugin. *)

\* cue_get_track
GetTrack(s, n) ==
    LET found == {i \in DOMAIN s.tracks : s.tracks[i].number = n}
    IN  IF found = {} THEN NoTrack
        ELSE s.tracks[CHOOSE i \in found : \A j \in found : i <= j]

\* cue_read_comments; a field that is not set is not there
Comments(s, t) ==
    LET Of(name, meta, field) == IF field \in DOMAIN meta THEN name :> meta[field] ELSE << >>
    IN  Of("title", t.meta, "title") @@ Of("album", s.meta, "title")
        @@ Of("date", t.meta, "date") @@ Of("date", s.meta, "date")
        @@ Of("replaygain_album_gain", s.meta, "rg_gain") @@ Of("replaygain_track_gain", t.meta, "rg_gain")

ChildFrames == Frames[cd.files[playing.file]]
\* cue_duration
Duration == IF end_offset < 0 THEN ChildFrames - start_offset ELSE end_offset - start_offset

Init ==
    /\ text \in Sheets /\ at = 0
    /\ p = [files |-> << >>, tracks |-> << >>, meta |-> << >>, err |-> FALSE]
    /\ cd = NoSheet /\ playing = NoTrack
    /\ start_offset = 0 /\ current_offset = 0 /\ end_offset = 0 /\ child_pos = 0
    /\ heard = 0 /\ ended = FALSE /\ lost = FALSE

\* cue_parse, which stops at an error
ParseLine ==
    /\ at < Len(text) /\ ~p.err
    /\ at' = at + 1 /\ p' = ParsedLine(p, text[at + 1])
    /\ UNCHANGED <<text, cd, priv>>
Finish ==
    /\ at = Len(text) /\ ~p.err /\ cd = NoSheet
    /\ p' = PostProcess(p) /\ cd' = IF p'.err THEN NoSheet ELSE ToSheet(p')
    /\ UNCHANGED <<text, at, priv>>

\* cue_open of cue://sheet/n; the child may refuse to go where the track begins
Open ==
    /\ cd # NoSheet /\ playing = NoTrack
    /\ \E n \in {Number[i] : i \in DOMAIN Number} :
          LET t == GetTrack(cd, n)
          IN  /\ t # NoTrack /\ cd.files[t.file] \in DOMAIN Frames
              /\ playing' = t
              /\ start_offset' = t.offset * Sector /\ current_offset' = t.offset * Sector
              /\ end_offset' = IF t.length >= 0 THEN (t.offset + t.length) * Sector ELSE -1
              /\ t.offset * Sector <= Frames[cd.files[t.file]]
              /\ child_pos' = t.offset * Sector /\ heard' = t.offset * Sector
    /\ ended' = FALSE /\ lost' = FALSE /\ UNCHANGED <<text, at, p, cd>>

\* faulty: what lies behind the end is played
ReadAll(rc) ==
    /\ current_offset' = IF end_offset >= 0 THEN current_offset + rc ELSE current_offset
    /\ heard' = child_pos + rc
\* cue_read, where the child has read rc frames: of those that cross the end only the ones
\* before it count. current_offset is kept for a track that has an end.
ReadFrames(rc) ==
    /\ current_offset' = IF end_offset >= 0 THEN current_offset + rc ELSE current_offset
    /\ heard' = child_pos + IF end_offset >= 0 /\ current_offset + rc >= end_offset
                            THEN end_offset - current_offset ELSE rc
Read ==
    /\ playing # NoTrack
    /\ \/ /\ (end_offset >= 0 /\ current_offset >= end_offset) \/ child_pos = ChildFrames
          /\ ended' = TRUE /\ UNCHANGED <<current_offset, heard, child_pos>>
       \/ /\ ~(end_offset >= 0 /\ current_offset >= end_offset)
          /\ \E rc \in 1..ChildFrames - child_pos :
                ReadFrames(rc) /\ child_pos' = child_pos + rc
          /\ ended' = FALSE
    /\ UNCHANGED <<text, at, p, cd, playing, start_offset, end_offset, lost>>

\* cue_seek: current_offset is set before the child has gone there. lost: it refused, and
\* stays where it is.
Seek ==
    /\ playing # NoTrack
    /\ \E offset \in 0..Duration, goes \in BOOLEAN :
          LET there == start_offset + offset
              new == IF end_offset >= 0 /\ there > end_offset THEN end_offset ELSE there
          IN  /\ current_offset' = new /\ lost' = ~goes
              /\ goes => new <= ChildFrames
              /\ child_pos' = IF goes THEN new ELSE child_pos
              /\ heard' = child_pos' /\ ended' = FALSE
    /\ UNCHANGED <<text, at, p, cd, playing, start_offset, end_offset>>

Close ==
    /\ playing # NoTrack /\ playing' = NoTrack
    /\ start_offset' = 0 /\ current_offset' = 0 /\ end_offset' = 0 /\ child_pos' = 0
    /\ heard' = 0 /\ ended' = FALSE /\ lost' = FALSE /\ UNCHANGED <<text, at, p, cd>>

Next == ParseLine \/ Finish \/ Open \/ Read \/ Seek \/ Close

-----------------------------------------------------------------------------
\* What a sheet says, read from its text: the line of a track's TRACK, those that are
\* about the track, and the one that counts of some kind.
TrackLines == {i \in DOMAIN text : Token(text[i], 1) = "TRACK"}
LineOf(i) == CHOOSE n \in TrackLines : Cardinality({m \in TrackLines : m <= n}) = i
Block(i) == {n \in DOMAIN text : n > LineOf(i) /\ ~\E m \in TrackLines : LineOf(i) < m /\ m <= n}
FirstIn(lines) == CHOOSE n \in lines : \A m \in lines : n <= m
LastIn(lines) == CHOOSE n \in lines : \A m \in lines : m <= n
Index(i, nr) == {n \in Block(i) : Token(text[n], 1) = "INDEX" /\ Number[Token(text[n], 2)] = nr}
Titles(lines) == {n \in lines : Token(text[n], 1) = "TITLE"}
Named(lines) == IF Titles(lines) = {} THEN {} ELSE {Token(text[FirstIn(Titles(lines))], 2)}

\* cue_parse: a sheet that is accepted has the tracks of its text, each once, in order and
\* of the file that was named last before it; a track begins at its index 1, else at index
\* 0; none is given a negative length, and where no pregap begins after its track does, no
\* track reaches into the next; and every title is where it was written.
SheetIsSound ==
    cd # NoSheet =>
        /\ Len(cd.tracks) = Cardinality(TrackLines)
        /\ \A i \in DOMAIN cd.tracks :
              LET t == cd.tracks[i]
                  of == LastIn({n \in DOMAIN text : n < LineOf(i) /\ Token(text[n], 1) = "FILE"})
                  from == IF Index(i, 1) # {} THEN Index(i, 1) ELSE Index(i, 0)
                  titles == IF "title" \in DOMAIN Comments(cd, t) THEN {Comments(cd, t)["title"]} ELSE {}
              IN  /\ cd.files[t.file] = Token(text[of], 2)
                  /\ t.offset = Time[Token(text[LastIn(from)], 3)]
                  /\ t.length >= -1 /\ GetTrack(cd, t.number) = t
                  /\ titles = Named(Block(i))
                  /\ i < Len(cd.tracks) =>
                        /\ t.number < cd.tracks[i + 1].number
                        /\ (t.file = cd.tracks[i + 1].file /\ p.tracks[i + 1].index0 <= p.tracks[i + 1].index1) =>
                              /\ t.length >= 0
                              /\ t.offset + t.length <= cd.tracks[i + 1].offset
              
\* cue_read and cue_seek: what is heard of a track lies between its beginning and its end,
\* and when the plugin says that it is over all of it was heard, or as much of it as the
\* file has; unless the child refused to seek.
TrackIsHeard ==
    (playing # NoTrack /\ ~lost) =>
        /\ heard >= start_offset /\ (end_offset >= 0 => heard <= end_offset)
        /\ end_offset >= 0 => current_offset = child_pos
        /\ ended => heard = IF end_offset > ChildFrames THEN ChildFrames ELSE start_offset + Duration
=============================================================================
