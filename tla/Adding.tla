------------------------------- MODULE Adding -------------------------------
(***************************************************************************)
(* What a job that adds a directory or a playlist finds (ui/job.c,          *)
(* library/load_dir.c, common/path.c, common/file.c, library/pl_env.c).     *)
(* Directories are walked depth first, in whatever order readdir has; of a  *)
(* cue sheet the tracks are added and not the files they lie in. A path is  *)
(* the sequence of its parts; Jobs is about the job itself.                 *)
(***************************************************************************)
EXTENDS Integers, Sequences, FiniteSets
LOCAL INSTANCE SequencesExt

CONSTANTS
    Root,
    Entries,    \* [dir, name, kind]; a kind is "file", "dir" or "link", a link to a directory
    FileOrder,  \* the paths of all files, as strcmp sorts them
    Sheet,      \* the sheets that can be read: their FILEs, relative, and their tracks
    Playable,   \* what cache_get_ti makes a track of: paths, and numbers of tracks with one
    Texts,      \* playlists, as characters
    Dots,       \* paths with "", "." and ".." in them
    Envs        \* the environments: values of variables

VARIABLES
    phase,
    dirs, files,                        \* the list of directories to go, and what was found
    left,                               \* of the directory that is open: what readdir will give
    dirs_backup, files_backup,          \* its place in dirs, and the files there were
    todo,                               \* the files, sorted, without those of sheets
    prepend, list,                      \* play_queue_prepend; the list that is added to
    cancelled

vars == <<phase, dirs, files, left, dirs_backup, files_backup, todo, prepend, list, cancelled>>

Marks == {".nomusic", ".nomedia"}
Hidden == {".hidden"} \cup Marks

-----------------------------------------------------------------------------
(* Paths. *)

\* faulty: the root has a parent
StripAbove(path) ==
    FoldLeft(LAMBDA done, part : CASE part \in {"", "."} -> done
                                   [] part = ".." -> IF Len(done) < 2 THEN <<"..">> ELSE Front(done)
                                   [] OTHER -> Append(done, part), << >>, path)
\* path_strip
Strip(path) ==
    FoldLeft(LAMBDA done, part : CASE part \in {"", "."} -> done
                                   [] part = ".." -> IF done = << >> THEN done ELSE Front(done)
                                   [] OTHER -> Append(done, part), << >>, path)
\* path_absolute_cwd of a path that is relative
Absolute(path, cwd) == Strip(cwd \o path)

\* pl_env_norm: the first ".." at the root takes the slash away, and the second makes the
\* value useless
Cut == "~"
Useless == <<"..">>
EnvNorm(path) ==
    FoldLeft(LAMBDA done, part : CASE done = Useless \/ part \in {"", "."} -> done
                                   [] part = ".." -> IF done = << >> THEN <<Cut>>
                                                     ELSE IF done = <<Cut>> THEN Useless ELSE Front(done)
                                   [] OTHER -> Append(done, part), << >>, path)
\* pl_env_init and pl_env_get
Value(env, var) == IF var \in DOMAIN env THEN EnvNorm(env[var]) ELSE Useless
\* all that is left of a value may be the empty string, which begins every path
Begins(value) == IF value = <<Cut>> THEN << >> ELSE value

\* the variables whose value is a directory above
Fits(path, pl_env_vars, env) ==
    {i \in DOMAIN pl_env_vars :
        LET value == Value(env, pl_env_vars[i])
        IN  value = <<Cut>> \/ (value # << >> /\ IsStrictPrefix(value, path))}
\* pl_env_reduce: the first of them
Reduce(path, pl_env_vars, env) ==
    LET fits == Fits(path, pl_env_vars, env)
        first == CHOOSE i \in fits : \A j \in fits : i <= j
    IN  IF fits = {} THEN [var |-> "", rest |-> path]
        ELSE [var |-> pl_env_vars[first],
              rest |-> SubSeq(path, Len(Begins(Value(env, pl_env_vars[first]))) + 1, Len(path))]
\* pl_env_expand; a variable that is not set stays in the path
Expand(stored, env) ==
    IF stored.var = "" THEN stored.rest
    ELSE IF Value(env, stored.var) = Useless THEN <<stored.var>> \o stored.rest
    ELSE Begins(Value(env, stored.var)) \o stored.rest
\* handle_line of a playlist in cwd: no variable is looked for if none is named
PathOfLine(stored, pl_env_vars, env, cwd) ==
    IF stored.var # "" /\ pl_env_vars = << >> THEN Absolute(<<stored.var>> \o stored.rest, cwd)
    ELSE Expand(stored, env)

-----------------------------------------------------------------------------
(* Playlists. "[" stands for the first line of a pls file and "F" for its    *)
(* File1, File2 and so on.                                                   *)

\* buffer_for_each_line
RECURSIVE Lines(_)
Lines(buf) ==
    IF buf = << >> THEN << >>
    ELSE LET ends == {i \in DOMAIN buf : buf[i] = "\n"}
             end == IF ends = {} THEN Len(buf) + 1 ELSE CHOOSE i \in ends : \A j \in ends : i <= j
             len == IF end > 1 /\ buf[end - 1] = "\r" THEN end - 2 ELSE end - 1
         IN  <<SubSeq(buf, 1, len)>> \o Lines(SubSeq(buf, end + 1, Len(buf)))

\* faulty: the carriage return stays
RECURSIVE LinesBackCr(_, _)
LinesBackCr(buf, end) ==
    IF end = 0 THEN << >>
    ELSE LET before == {i \in 1..end - 1 : buf[i] = "\n"}
             pos == IF before = {} THEN 1 ELSE 1 + CHOOSE i \in before : \A j \in before : j <= i
         IN  <<SubSeq(buf, pos, end - 1)>> \o LinesBackCr(buf, pos - 1)
\* buffer_for_each_line_reverse, from the character at end on, which is taken for the
\* end of a line whatever it is
RECURSIVE LinesBack(_, _)
LinesBack(buf, end) ==
    IF end = 0 THEN << >>
    ELSE LET e == IF end > 2 /\ buf[end] = "\n" /\ buf[end - 1] = "\r" THEN end - 1 ELSE end
             before == {i \in 1..e - 1 : buf[i] = "\n"}
             pos == IF before = {} THEN 1 ELSE 1 + CHOOSE i \in before : \A j \in before : j <= i
         IN  <<SubSeq(buf, pos, e - 1)>> \o LinesBack(buf, pos - 1)

\* pl_handle_line and pls_handle_line: the name in the line, if there is one
PlName(line) ==
    IF \A i \in DOMAIN line : line[i] \in {" ", "\r"} THEN << >>
    ELSE IF line[CHOOSE i \in DOMAIN line : line[i] # " " /\ \A j \in 1..i - 1 : line[j] = " "] = "#"
         THEN << >> ELSE <<line>>
PlsName(line) ==
    LET equals == {i \in DOMAIN line : line[i] = "="}
        first == CHOOSE i \in equals : \A j \in equals : i <= j
    IN  IF line = << >> \/ equals = {} THEN << >>
        ELSE IF line[1] # "F" THEN << >> ELSE <<SubSeq(line, first + 1, Len(line))>>
\* termus_playlist_for_each
PlaylistNames(buf, reverse) ==
    LET pls == buf # << >> /\ Head(buf) = "["
        all == IF reverse THEN LinesBack(buf, Len(buf)) ELSE Lines(buf)
    IN  FlattenSeq([i \in DOMAIN all |-> IF pls THEN PlsName(all[i]) ELSE PlName(all[i])])

-----------------------------------------------------------------------------
(* Directories. *)

\* faulty: names are compared as they are written in the sheet
ClaimedAsWritten(found) ==
    UNION {{Front(f) \o rel : rel \in ToSet(Sheet[f].files)} : f \in found \cap DOMAIN Sheet}
\* handle_cue_files: the FILEs of the sheets among the files
Claimed(found) ==
    UNION {{Absolute(rel, Front(f)) : rel \in ToSet(Sheet[f].files)} : f \in found \cap DOMAIN Sheet}

\* add_file and add_file_cue: the tracks of a sheet that can be read, in its order
TracksOf(f) ==
    IF f \in DOMAIN Sheet
    THEN SelectSeq([i \in DOMAIN Sheet[f].tracks |-> Append(f, Sheet[f].tracks[i])],
                   LAMBDA track : track \in Playable)
    ELSE IF f \in Playable THEN <<f>> ELSE << >>

Init ==
    /\ phase = "walk" /\ dirs = <<Root>> /\ files = << >>
    /\ left = {} /\ dirs_backup = 0 /\ files_backup = 0 /\ todo = << >>
    /\ prepend \in BOOLEAN /\ list = << >> /\ cancelled = FALSE

\* dir_list_recursive takes the last one; a directory that cannot be opened has nothing
OpenDir ==
    /\ phase = "walk" /\ dirs_backup = 0 /\ dirs # << >>
    /\ dirs_backup' = Len(dirs) /\ files_backup' = Len(files)
    /\ left' = {e \in Entries : e.dir = Last(dirs)}
    /\ UNCHANGED <<phase, dirs, files, todo, prepend, list, cancelled>>

\* faulty: the directories that were found before the mark stay
MarkedFiles ==
    files' = SubSeq(files, 1, files_backup) /\ dirs' = dirs /\ left' = {}
\* a mark: all that was found in the directory is forgotten
Marked ==
    files' = SubSeq(files, 1, files_backup) /\ dirs' = SubSeq(dirs, 1, dirs_backup) /\ left' = {}

\* one turn of dir_list, which ends at a mark
ReadEntry ==
    /\ dirs_backup > 0
    /\ \E e \in left :
          LET path == Append(e.dir, e.name)
          IN  IF e.name \in Marks
              THEN Marked
              ELSE /\ left' = left \ {e}
                   /\ files' = IF e.name \in Hidden \/ e.kind # "file" THEN files ELSE Append(files, path)
                   /\ dirs' = IF e.name \in Hidden \/ e.kind # "dir" THEN dirs ELSE Append(dirs, path)
    /\ UNCHANGED <<phase, dirs_backup, files_backup, todo, prepend, list, cancelled>>
CloseDir ==
    /\ dirs_backup > 0 /\ left = {}
    /\ dirs' = RemoveAt(dirs, dirs_backup) /\ dirs_backup' = 0
    /\ UNCHANGED <<phase, files, left, files_backup, todo, prepend, list, cancelled>>

\* add_dir: sorted, and without what the sheets stand for
Sort ==
    /\ phase = "walk" /\ dirs = << >>
    /\ LET kept == SelectSeq(FileOrder, LAMBDA f : f \in ToSet(files) \ Claimed(ToSet(files)))
       IN  todo' = IF prepend THEN Reverse(kept) ELSE kept
    /\ phase' = "add"
    /\ UNCHANGED <<dirs, files, left, dirs_backup, files_backup, prepend, list, cancelled>>
\* what is added comes to the end of the list or, each in turn, to its beginning
Add ==
    /\ phase = "add" /\ todo # << >> /\ ~cancelled
    /\ todo' = Tail(todo)
    /\ list' = IF prepend THEN Reverse(TracksOf(Head(todo))) \o list ELSE list \o TracksOf(Head(todo))
    /\ UNCHANGED <<phase, dirs, files, left, dirs_backup, files_backup, prepend, cancelled>>
\* worker_cancelling
Cancel ==
    /\ phase = "add" /\ todo # << >> /\ ~cancelled /\ cancelled' = TRUE
    /\ UNCHANGED <<phase, dirs, files, left, dirs_backup, files_backup, todo, prepend, list>>

Next == OpenDir \/ ReadEntry \/ CloseDir \/ Sort \/ Add \/ Cancel

-----------------------------------------------------------------------------
\* What is there: the directories that lead to no mark and no hidden name, and their files.
Open(dir) ==
    \A n \in Len(Root)..Len(dir) :
        LET above == SubSeq(dir, 1, n)
        IN  /\ ~\E e \in Entries : e.dir = above /\ e.name \in Marks
            /\ n > Len(Root) => \E e \in Entries : Append(e.dir, e.name) = above /\ e.kind = "dir" /\ e.name \notin Hidden
Found == {f \in ToSet(FileOrder) : Open(Front(f)) /\ Last(f) \notin Hidden}
InSheets ==
    {f \in Found : \E s \in Found \cap DOMAIN Sheet : \E i \in DOMAIN Sheet[s].files :
        f = Absolute(Sheet[s].files[i], Front(s))}
Owner(track) == IF track \in Found THEN track ELSE Front(track)
Before(f, g) == \E i, j \in DOMAIN FileOrder : i < j /\ FileOrder[i] = f /\ FileOrder[j] = g

\* add_dir: whatever order a directory is read in, each file that can be played is added
\* once, by itself or as the tracks of a sheet; nothing is added of what is marked or hidden;
\* and the list has the files in order, whether they were added at its end or its beginning.
\* (The tracks of one sheet are in order only at the end.)
AddsWhatIsThere ==
    /\ \A i, j \in DOMAIN list : i < j =>
          /\ list[i] # list[j]
          /\ Owner(list[i]) = Owner(list[j]) \/ Before(Owner(list[i]), Owner(list[j]))
          /\ (Owner(list[i]) = Owner(list[j]) /\ ~prepend) => Last(list[i]) < Last(list[j])
    /\ ToSet(list) \subseteq UNION {ToSet(TracksOf(f)) : f \in Found}
    /\ (phase = "add" /\ todo = << >>) =>
          ToSet(list) = UNION {ToSet(TracksOf(f)) : f \in Found \ InSheets}

\* buffer_for_each_line_reverse: a playlist whose last line is ended has the same names
\* read backwards, however its lines end.
PlaylistReadsBack ==
    \A buf \in Texts :
        (buf = << >> \/ Last(buf) = "\n") => PlaylistNames(buf, TRUE) = Reverse(PlaylistNames(buf, FALSE))

\* path_strip, pl_env_reduce and handle_line: a path is the same whether it is cleaned in
\* parts or as a whole; and what is saved with any variables named is read back as it was
\* while any other are named, in the same environment, and under the new directory in one
\* where the variable that was taken has moved. With none named it is not: the delimited name
\* is then read as a path, against man/termus.txt:1802-1803, "It is safe to change
\* `pl_env_vars` from outside termus". And of two that fit the first is taken, not "the last
\* matching directory prefix" of :1791.
PathsComeBack ==
    LET sound(value) == value # Useless /\ Cut \notin ToSet(value)
    IN  /\ \A a, b \in Dots :
              /\ Absolute(b, a) = Absolute(b, Strip(a))
              /\ ToSet(Absolute(b, a)) \cap {"", ".", ".."} = {}
              /\ sound(EnvNorm(a)) => EnvNorm(a) = Strip(a)
        /\ \A env, now \in Envs : \A a \in Dots : \A pl_env_vars \in {<<"A">>, <<"A", "B">>, <<"B", "A">>} :
              LET path == Strip(a)
                  stored == Reduce(path, pl_env_vars, env)
              IN  /\ \A other \in {<<"A">>, <<"B">>} : PathOfLine(stored, other, env, <<"a">>) = path
                  /\ (stored.var # "" /\ sound(Value(env, stored.var)) /\ sound(Value(now, stored.var))) =>
                        PathOfLine(stored, pl_env_vars, now, <<"a">>) =
                            Value(now, stored.var) \o SubSeq(path, Len(Value(env, stored.var)) + 1, Len(path))
=============================================================================
