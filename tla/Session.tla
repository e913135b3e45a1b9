------------------------------ MODULE Session ------------------------------
(***************************************************************************)
(* What termus keeps from one run to the next: exit_all and init_all of     *)
(* ui/ui_curses.c and the savers and loaders they call.                     *)
(*                                                                         *)
(* Lists (the library, the queue, every playlist) are written over the old  *)
(* file, which is truncated first. Everything else is written to a second   *)
(* file that is then renamed. A write may fail (the disk is full): nobody   *)
(* looks, and the rest of the exit goes on. The program may be killed at    *)
(* any point, and starts again from what is on the disk. (Nothing is synced *)
(* before it is renamed: that the machine stops is not modelled.) Lists are *)
(* read by the worker, one after the other, while the program already runs, *)
(* is used, and may be quit.                                                *)
(*                                                                         *)
(* The content of a file is a number, a new one after each change; what a   *)
(* list is cut down to by an interrupted write is all one: Torn; and what   *)
(* is there of a list while it is read: Part.                               *)
(***************************************************************************)
EXTENDS Integers, Sequences, FiniteSets, SequencesExt

CONSTANTS
    Playlist,
    MaxContent, \* bound: changes
    MaxStarts,  \* bound: starts of the program
    MaxFaults   \* bound: failing writes, and times that the program is killed

Torn == -1
Absent == -2
Part == -3
Empty == 0

Lists == {"queue", "lib"} \cup Playlist
Renamed == {"resume", "autosave", "cache", "command-history", "search-history"}
File == Lists \cup Renamed

\* playlists are finite in number and not named like the other files
ASSUME PlaylistAssumption ==
    IsFiniteSet(Playlist) /\ Playlist \cap ({"queue", "lib", "none"} \cup Renamed) = {}
ASSUME BoundAssumption == MaxContent \in Nat

Content == {Torn, Absent, Part} \cup 0..MaxContent

VARIABLES
    phase,      \* "down", "up", "exit"
    mem,        \* what the program has of every file
    loading,    \* the lists the worker has still to read
    disk, tmp,  \* every file, and the second file where there is one
    steps,      \* what exit_all has still to do
    visible,    \* pl_visible
    saved_visible,  \* visible-pl in the resume file
    playing,    \* pl_playing
    saved_playing,  \* active-pl in the resume file
    cursor,     \* pl_cursor_in_track_window
    resume,     \* the option resume
    starts, faults,
    kept,       \* history: mem, visible and playing when the exit began, and what it knew of
    failed,     \* history: the files a write of which has failed
    clean       \* history: the last exit was not cut short, and nobody has changed anything since

vars == <<phase, mem, loading, disk, tmp, steps, visible, saved_visible, playing, saved_playing,
          cursor, resume, starts, faults, kept, failed, clean>>

\* what a list has, read or not
Had(f) == IF f \in loading /\ mem[f] \in {Empty, Part} THEN disk[f] ELSE mem[f]

Init ==
    /\ phase = "down" /\ mem = [f \in File |-> Absent] /\ loading = {}
    /\ disk \in {[f \in File |-> IF f \in Playlist \ {p} THEN Absent ELSE Empty] : p \in Playlist}
    /\ tmp = [f \in Renamed |-> Absent]
    /\ steps = <<>> /\ visible = "none" /\ saved_visible = "none"
    /\ playing = "none" /\ saved_playing = "none" /\ cursor = FALSE /\ resume \in BOOLEAN
    /\ starts = 0 /\ faults = 0 /\ failed = {} /\ clean = FALSE
    /\ kept = [mem |-> mem, had |-> [f \in Lists |-> Absent], visible |-> "none", playing |-> "none", cursor |-> FALSE,
               torn |-> {}]

-----------------------------------------------------------------------------
(* Start. *)

\* pl_load_all reads the directory; the worker reads the files that are there.
\* The queue is read only to resume
ReadsLater == {"lib"} \cup {p \in Playlist : disk[p] # Absent}
              \cup (IF resume THEN {"queue"} ELSE {})

\* init_all: histories, options and the cache are read at once; the playlist to
\* show is chosen when it has been read (pl_loaded), and the first one till then,
\* which is a new one if there is none
Start ==
    /\ phase = "down" /\ starts < MaxStarts
    /\ phase' = "up" /\ starts' = starts + 1
    /\ loading' = ReadsLater
    /\ \E p \in Playlist :
        /\ disk[p] # Absent \/ \A other \in Playlist : disk[other] = Absent
        /\ visible' = p
        /\ mem' = [f \in File |->
                    IF f \in Renamed /\ (f = "resume" => resume) THEN disk[f]
                    ELSE IF f \in Playlist \ {p} /\ disk[f] = Absent THEN Absent ELSE Empty]
    /\ cursor' = FALSE /\ playing' = "none"
    /\ UNCHANGED <<disk, tmp, steps, saved_visible, saved_playing, resume, faults, kept, failed, clean>>

\* some of a list has been read by the worker, and added by the main thread
Arrives(f) ==
    /\ phase = "up" /\ f \in loading /\ mem[f] = Empty /\ disk[f] # Empty
    /\ mem' = [mem EXCEPT ![f] = Part]
    /\ UNCHANGED <<phase, loading, disk, tmp, steps, visible, saved_visible, playing, saved_playing,
                   cursor, resume, starts, faults, kept, failed, clean>>

\* faulty: the playlist that is shown is not looked for
ShownPlaysOnly(f, row) ==
    /\ playing' = (IF row THEN f ELSE playing)
    /\ cursor' = (row \/ cursor)
    /\ visible' = (IF row THEN f ELSE visible)

\* pl_loaded: the playlist that was playing is shown if it has the row that was playing,
\* and then the one that was shown
Shown(f, row) ==
    /\ playing' = (IF row THEN f ELSE playing)
    /\ cursor' = (row \/ cursor)
    /\ visible' = (IF row \/ (resume /\ f = saved_visible) THEN f ELSE visible)

\* All of a list has been read. What was added to it in between stays as well. The row that
\* was playing may be gone, with tracks that are there no more.
Loaded(f) ==
    /\ phase = "up" /\ f \in loading
    /\ loading' = loading \ {f}
    /\ mem' = [mem EXCEPT ![f] = IF @ \in {Empty, Part} THEN disk[f] ELSE @]
    /\ \E row \in BOOLEAN :
        /\ row => resume /\ f = saved_playing /\ mem'[f] # Empty
        /\ Shown(f, row)
    /\ UNCHANGED <<phase, disk, tmp, steps, saved_visible, saved_playing, resume, starts, faults, kept, failed, clean>>

-----------------------------------------------------------------------------
(* Use. *)

Fresh == 1 + CHOOSE n \in 0..MaxContent :
                 /\ \A f \in File : mem[f] <= n /\ disk[f] <= n
                 /\ n = 0 \/ \E f \in File : mem[f] = n \/ disk[f] = n

\* whatever is done while lists are still read
Running == phase = "up" /\ clean' = FALSE

\* any list, option or history changes; a new playlist is not on the disk yet
Change(f) ==
    /\ Running /\ Fresh <= MaxContent
    /\ f = "resume" => resume
    /\ mem' = [mem EXCEPT ![f] = Fresh]
    /\ UNCHANGED <<phase, loading, disk, tmp, steps, visible, saved_visible, playing, saved_playing,
                   cursor, resume, starts, faults, kept, failed>>

\* pl_delete: the file goes at once, and is read no more; another playlist is shown, a new one if this
\* was the last
DeletePlaylist(p) ==
    /\ Running /\ mem[p] # Absent
    /\ disk' = [disk EXCEPT ![p] = Absent]
    /\ \E q \in Playlist \ {p} :
        /\ mem[q] # Absent \/ \A other \in Playlist \ {p} : mem[other] = Absent
        /\ mem' = [mem EXCEPT ![p] = Absent, ![q] = IF @ = Absent THEN Empty ELSE @]
        /\ visible' = (IF visible = p THEN q ELSE visible)
    /\ loading' = loading \ {p}
    /\ playing' = (IF playing = p THEN "none" ELSE playing)
    /\ cursor' = FALSE
    /\ UNCHANGED <<phase, tmp, steps, saved_visible, saved_playing, resume, starts, faults, kept, failed>>

\* pl_win_next, among the tracks only if there are any; a playlist is selected
Look ==
    /\ Running
    /\ \/ mem[visible] # Empty /\ cursor' = ~cursor /\ UNCHANGED visible
       \/ ~cursor /\ \E p \in Playlist : mem[p] # Absent /\ p # visible /\ visible' = p
          /\ UNCHANGED cursor
    /\ UNCHANGED <<phase, mem, loading, disk, tmp, steps, saved_visible, playing, saved_playing, resume,
                   starts, faults, kept, failed>>

\* a track of the visible playlist is played, and selected if follow is set; or the next one
\* of a playlist that has become empty
Play ==
    /\ Running
    /\ \/ mem[visible] # Empty /\ playing' = visible /\ cursor' \in {cursor, TRUE}
       \/ playing # "none" /\ mem[playing] = Empty /\ playing' = "none" /\ UNCHANGED cursor
    /\ UNCHANGED <<phase, mem, loading, disk, tmp, steps, visible, saved_visible, saved_playing, resume,
                   starts, faults, kept, failed>>

-----------------------------------------------------------------------------
(* Exit: a sequence of operations on one file each. *)

Ops(kinds, f) == [i \in DOMAIN kinds |-> <<kinds[i], f>>]

\* do_termus_save: open truncates, the tracks follow
ListOps(f) == Ops(<<"truncate", "write">>, f)

\* faulty: the file itself is written
FileOpsInPlace(f) == Ops(<<"truncate", "write">>, f)

\* resume_exit, options_exit, cache_close, history_save
FileOps(f) == Ops(<<"create", "fill", "rename">>, f)

\* faulty: every playlist is opened before the first is written
SaveAllTogether(ps) == FlattenSeq([i \in DOMAIN ps |-> <<<<"truncate", ps[i]>>>>])
                       \o FlattenSeq([i \in DOMAIN ps |-> <<<<"write", ps[i]>>>>])

\* pl_save_all
SaveAll(ps) == [i \in 1..2 * Len(ps) |-> ListOps(ps[(i + 1) \div 2])[IF i % 2 = 1 THEN 1 ELSE 2]]

Playlists == SetToSeq({p \in Playlist : mem[p] # Absent})

\* faulty: the lists are saved after commands_exit has cleared the views
ExitOpsLate ==
    FileOps("autosave") \o FileOps("cache") \o <<<<"clear", "lib">>>> \o ListOps("queue")
    \o ListOps("lib") \o FileOps("command-history") \o FileOps("search-history") \o SaveAll(Playlists)

\* exit_all; commands_exit clears the views before it saves its history
ExitOps ==
    ListOps("queue") \o ListOps("lib") \o (IF resume THEN FileOps("resume") ELSE <<>>)
    \o FileOps("autosave") \o FileOps("cache") \o <<<<"clear", "lib">>>>
    \o FileOps("command-history") \o FileOps("search-history") \o SaveAll(Playlists)

\* with lists still to be read: a signal does not ask, and 'quit' may be answered with yes.
\* They are saved as they are, and what is left of them is not read any more (job_exit)
Quit ==
    /\ Running
    /\ phase' = "exit" /\ steps' = ExitOps /\ loading' = {}
    /\ kept' = [mem |-> mem, had |-> [f \in Lists |-> Had(f)], visible |-> visible, playing |-> playing,
                cursor |-> cursor, torn |-> {f \in Lists : disk[f] = Torn}]
    /\ UNCHANGED <<failed, mem, disk, tmp, visible, saved_visible, playing, saved_playing, cursor,
                   resume, starts, faults>>

Op(kind) == phase = "exit" /\ steps # <<>> /\ steps[1][1] = kind /\ steps' = Tail(steps)
This == steps[1][2]
Fault == faults < MaxFaults /\ faults' = faults + 1
Fails == Fault /\ failed' = failed \cup {This}
OnlyFiles == UNCHANGED <<phase, mem, loading, visible, playing, cursor, resume, starts, kept, clean>>
SavedAlone == UNCHANGED <<saved_visible, saved_playing>>

Truncate ==
    /\ Op("truncate")
    /\ disk' = [disk EXCEPT ![This] = Torn]
    /\ UNCHANGED <<tmp, failed, faults>> /\ SavedAlone /\ OnlyFiles

\* the tracks are written, or an error ends it: exit_all does not look
Write ==
    /\ Op("write")
    /\ \/ disk' = [disk EXCEPT ![This] = mem[This]] /\ UNCHANGED <<failed, faults>>
       \/ Fails /\ UNCHANGED disk
    /\ UNCHANGED tmp /\ SavedAlone /\ OnlyFiles

\* when the second file cannot be created the saver returns
Create ==
    /\ phase = "exit" /\ steps # <<>> /\ steps[1][1] = "create"
    /\ \/ tmp' = [tmp EXCEPT ![This] = Torn] /\ steps' = Tail(steps) /\ UNCHANGED <<failed, faults>>
       \/ Fails /\ steps' = SubSeq(steps, 4, Len(steps)) /\ UNCHANGED tmp
    /\ UNCHANGED disk /\ SavedAlone /\ OnlyFiles

\* fprintf and write_all may fail, which nobody looks at either
Fill ==
    /\ Op("fill")
    /\ \/ tmp' = [tmp EXCEPT ![This] = mem[This]] /\ UNCHANGED <<failed, faults>>
       \/ Fails /\ UNCHANGED tmp
    /\ UNCHANGED disk /\ SavedAlone /\ OnlyFiles

Rename ==
    /\ Op("rename")
    /\ disk' = [disk EXCEPT ![This] = tmp[This]]
    /\ tmp' = [tmp EXCEPT ![This] = Absent]
    /\ IF This # "resume" THEN SavedAlone
       ELSE \/ saved_visible' = visible /\ saved_playing' = playing
            \/ tmp[This] = Torn /\ saved_visible' = "none" /\ saved_playing' \in {playing, "none"}
    /\ UNCHANGED <<failed, faults>> /\ OnlyFiles

\* commands_exit calls view_clear for every view. Of the playlists it clears the
\* visible one, and that only when the cursor is among its tracks
Clear ==
    /\ Op("clear")
    /\ mem' = [f \in File |-> IF f \in {"queue", "lib"} \/ (cursor /\ f = visible)
                              THEN Empty ELSE mem[f]]
    /\ cursor' = FALSE
    /\ UNCHANGED <<phase, loading, disk, tmp, visible, saved_visible, playing, saved_playing, resume,
                   starts, faults, kept, failed, clean>>

Exited ==
    /\ phase = "exit" /\ steps = <<>>
    /\ phase' = "down" /\ clean' = TRUE /\ mem' = [f \in File |-> Absent]
    /\ UNCHANGED <<loading, disk, tmp, steps, visible, saved_visible, playing, saved_playing, cursor,
                   resume, starts, faults, kept, failed>>

\* killed
Crash ==
    /\ phase \in {"up", "exit"} /\ Fault
    /\ phase' = "down" /\ steps' = <<>> /\ loading' = {} /\ clean' = FALSE
    /\ mem' = [f \in File |-> Absent] /\ cursor' = FALSE
    /\ UNCHANGED <<disk, tmp, visible, saved_visible, playing, saved_playing, resume, starts, kept, failed>>

-----------------------------------------------------------------------------
Next ==
    \/ Start \/ Look \/ Play \/ Quit \/ Exited \/ Crash
    \/ Truncate \/ Write \/ Create \/ Fill \/ Rename \/ Clear
    \/ \E f \in File : Arrives(f) \/ Loaded(f) \/ Change(f)
    \/ \E p \in Playlist : DeletePlaylist(p)

Spec == Init /\ [][Next]_vars

-----------------------------------------------------------------------------
(* Properties. *)

TypeOK ==
    /\ phase \in {"down", "up", "exit"}
    /\ mem \in [File -> Content] /\ disk \in [File -> Content] /\ tmp \in [Renamed -> Content]
    /\ loading \subseteq Lists /\ failed \subseteq File
    /\ phase # "down" => visible \in Playlist

\* Whenever the program is killed, options, cache, histories and resume data on the
\* disk are whole: the ones of this exit, or those of the one before. They are torn
\* only if a write failed.
RenamedFilesAreWhole ==
    \A f \in Renamed : disk[f] = Torn => f \in failed

\* An exit that is killed tears one list at most. (What an exit costs of lists that were
\* not read yet, it costs when it is not killed as well: see ExitKeepsLists.)
OneListIsAtRisk ==
    phase = "exit" =>
        Cardinality({f \in Lists : disk[f] = Torn /\ mem[f] # Torn /\ f \notin kept.torn \cup failed}) <= 1

Saved(f) == disk[f] = kept.mem[f] \/ f \in failed \/ (f = "resume" /\ ~resume)
Cleared(f) == kept.cursor /\ f = kept.visible

\* After an exit that ran to its end and wrote everything it tried to write,
\* everything the program had in memory is on the disk, a list that was read in part
\* like any other, except for the playlist that commands_exit cleared.
ExitSaves ==
    phase = "down" /\ clean => \A f \in File : Saved(f) \/ Cleared(f)

\* What exit_all may cost when it is cut short or meets a full disk, and what it leaves
\* when it ends well.
FilesSurvive == TypeOK /\ RenamedFilesAreWhole /\ OneListIsAtRisk /\ ExitSaves

\* exit_all, and CHANGELOG.md:50-53, "ensure state is saved before system services or plugins
\* are closed" and "complete pending background jobs before saving the library and history":
\* an exit keeps every list, the one that is shown and those that the worker had still
\* to read included. It keeps neither: commands_exit may clear the one before pl_exit saves
\* it, and the others are saved as far as they were read.
ExitKeepsLists ==
    phase = "down" /\ clean => \A f \in Lists : disk[f] = kept.had[f] \/ f \in failed

\* init_all and pl_loaded: once the next start has read everything and before anything is
\* done, the program has what the last exit wrote, and shows the playlist that was shown
\* or the one that was playing, and plays none but that. (It may be either: pl_loaded shows
\* both, and the one that is read later stays.)
Restarted == phase = "up" /\ loading = {} /\ clean /\ failed = {} /\ resume
StartBringsBack ==
    Restarted =>
        /\ \A f \in File : mem[f] = kept.mem[f] \/ Cleared(f)
        /\ visible \in {kept.visible, kept.playing}
        /\ playing \in {kept.playing, "none"}
=============================================================================
