# termus in TLA+

A verification development of termus, a terminal music player written in C:
specifications of its components, model-checked with TLC on small instances, and
theorems about its concurrent core and its exit checked by TLAPS.  Paths below are relative
to `src/` of the repository (`core/player.c`); every definition that models code
is listed with its lines in `PROJECT.json` under `map`.

## 1. The system

### Threads

| Thread   | Code | What it does |
|----------|------|--------------|
| main     | `ui_curses.c` `main_loop` | a `select` loop: remote clients, keys, MPRIS, job results, next-track requests, in this order; runs every command |
| producer | `player.c` `producer_loop` | decodes the input into the ring of PCM chunks |
| consumer | `player.c` `consumer_loop` | writes the ring to the output device, handles the end of a track |
| worker   | `worker.c` `worker_loop` | runs jobs: adding files and playlists, updating the library and the cache |

### Components, their state and operations

| Component | State | Operations | Hard behaviour | What makes it correct |
|---|---|---|---|---|
| PCM ring (`buffer.c`) | chunks with `l`, `h`, `filled`; read and write index; one mutex, two conditions | get_rpos/consume, get_wpos/fill, wait_fill/wait_drain, reset, init, get_filled_chunks | decoder and device use a chunk's bytes without the mutex; resets while a thread waits; full and empty look alike | no shared chunk, no lost wakeup, bytes in order and once |
| Player (`player.c`) | producer status, consumer status, input, buffer format, speed, gain, published status; two locks, two conditions | some ten commands; both loops; scaling; end of track; exit | three threads, files and devices that fail half way, locks released in the middle of a command, writes the device takes a part of | statuses, input, device and ring fit together; nothing stale is played; no tail is lost; nobody sleeps or waits for ever; every frame is scaled once |
| Input (`input.c`, `http.c`, `read_wrapper.c`) | open, eof, remote, format, descriptor | new, open, read, seek, close, delete | plugins that do not know a file, redirects, playlists, reads cut anywhere | descriptors are closed once, what is played is audio |
| Output (`output.c`) | selected plugin, what of it is initialised, device, mixer, volume | select, open, write, pause, unpause, drop, close, mixer and volume | a plugin that fails to initialise, options that change while a mixer is open | the device is open exactly while the consumer is not stopped; mixer and volume are those of the selected plugin |
| Next-track hand-off (`termus.c`) | request pipe, `termus_next_file`, provided flag | get_next_track, provide_next_track | a thread waits for the event loop with locks in hand | every request is answered |
| Worker and jobs (`worker.c`, `job.c`) | job queue, current job, cancel flag, result queue, pipe | add, remove by type or by callback, cancel, push and handle results, walk directories | results applied after the lists changed, a job cancelled while it ends, playlists deleted under a running job, marks and sheets in a directory | no result touches a freed list; cancelling returns; what is there is added once |
| Playlists (`pl.c`) | list of playlists; visible, marked and playing playlist; playing track | create, delete, clear, reload, add, remove, update a track | jobs in flight for a list that is deleted or reloaded | the playing track is in the playing playlist (comment, `pl.c:41`) |
| Play queue, editable lists (`play_queue.c`, `editable.c`, `track.c`) | linked list, sort tree, shuffle tree, marks, totals | add, remove, move, mark, sort, shuffle, update | three structures kept in step | the same tracks in all three, totals that match |
| Library (`lib.c`) | sorted and shuffled list, hash, filters, current track | add, remove, filter, goto next and previous, set track | filters that hide the current track | views show what the filters let through; the current track survives |
| Cache (`cache.c`) | hash table, references | get, remove, refresh, save | the lock is given up in the middle of refresh | nothing freed in use, references counted |
| FIFO mutex (`locking.c`) | atomic tail, head, mutex | lock, unlock, yield | relaxed atomics | mutual exclusion, first come first served |
| Server (`server.c`) | clients | accept, read_commands, close | commands in pieces | lines are run once, in order, and answered; a line is run whole if it was written at once |
| Startup and exit (`ui_curses.c`, `resume.c`, `history.c`) | the files | load, save, resume | a kill or a full disk while saving, an exit while the worker still reads | what an exit may cost is bounded; the next start has what the last exit wrote |
| Command line, keys, popups (`cmdline.c`, `command_mode.c`, `keys.c`, `popup.c`, `window.c`) | the line with its counters, histories, bindings, live filter, selection | editing, browsing, completing, binding, opening and closing | counters in bytes and in characters, what was there under a popup | counters agree; closing brings back what was there |
| Filters, options (`filters.c`, `expr.c`, `options_*.c`) | filters with their marks, the compiled one; the values | set, activate, parse; set, toggle, save, load | filters that use each other; values that set other values | what is active is in force; a restart keeps what is saved |
| Text and trees (`rbtree.c`, `path.c`, `pl_env.c`, `file.c`, `cue.c`) | trees; paths, sheets, playlists | insert, erase, walk; parse | rotations; dots, variables, ends of lines | balanced and in order; read back as written |
| Characters, patterns, formats (`uchar.c`, `glob.c`, `format_print.c`) | none: functions of strings | read, write, count, cut, compare; match; print | broken bytes, wide and composed characters, ends of strings, nested conditions | what is written is read; a cut text fits its columns; an accepted format can be printed |

How they interact: the main thread calls the player under `player_lock` (the
consumer lock, then the producer lock); the two audio threads share the ring
(`buffer_mutex`) and the player's status; at the end of a track the consumer
sends a request through a pipe and waits for the main thread; the worker sends
results through another pipe; both are served between two commands.  The worker
and the main thread share the cache under the FIFO mutex.  Everything else is
state of the main thread alone: its hard behaviour is not interleaving but the
long sequences of legal calls that users, clients and results make.

## 2. Modules

    PcmStream            abstract: a FIFO stream of numbered bytes
      ^ implemented by
    PcmBuffer            buffer.c and the calls made on it
      PcmBufferProofs    theorems about PcmBuffer, among them the refinement
      MCPcmBuffer        the instance for TLC
    PlayerState          player.c with the locks held: pure functions on a state
      ^ extended by
    Player               the three threads, the two locks, the next-track hand-off
      PlayerProofs       a lemma for each operator of PlayerState, theorems about Player
      MCPlayer           the instances for TLC
    Worker               worker.c: queue, running job, cancellation
      ^ extended by
    Jobs                 job.c and the lists of tracks, playlists that come and go
      JobsProofs         theorems about Worker and Jobs: jobs, cancelling, deleting,
                         results, the end, the playing track
      TracksProofs       more of them: the way of the tracks to their lists
      MCJobs             the instances for TLC
    Window, Editable     window.c, editable.c and track.c as operators on a list
      WindowProofs       theorems about the operators of Window
      ^ used by
    Playlists, Library   pl.c and lib.c on top of them
      ^ composed in
    Lists                the commands, options and results that reach all three
      MCLists            the instances for TLC
    FifoLock             abstract: a lock that is given in the order of asking
      ^ implemented by
    FifoMutex            locking.c
      FifoMutexProofs    theorems about FifoMutex, among them the refinement
    Server               server.c and its clients
      MCRemote           FifoMutex and an instance of Server, with their fairness
    Cache                cache.c, the worker's refresh, the main thread's references
      CacheProofs        theorems about Cache
    Session              what is in memory and on the disk from start to exit
      SessionProofs      theorems about Session
      MCSession          the instances for TLC
    CommandLine          cmdline.c, history.c, tabexp.c, search_mode.c
    Commands             command_mode.c: words, flags, numbers, names, completion
    Keys                 keys.c and popup.c: bindings, the filter popup
    Expr, Filters        expr.c and filters.c
    Options              options_*.c
    RbTree               rbtree.c
    Gain                 scaling of samples, soft volume, replay gain
    Mixer                output.c: plugins, mixer, volume
    Cue                  cue sheets, and the plugin that plays their tracks
    Adding               directories, playlists and paths of an add job
    Uchar, Glob          uchar.c: bytes, characters, columns; glob.c: patterns
    FormatPrint          format_print.c: what formats are accepted and printed
    Stream               opening files and streams, stream metadata
      MCSystem           Cache, and instances of the others from CommandLine on

**PcmBuffer.**  Every function of `buffer.c` is a critical section of
`buffer_mutex` and is one action.  Between `buffer_get_wpos` and `buffer_fill`
the decoder writes into the chunk without the mutex (`Decode`), and between
`buffer_get_rpos` and `buffer_consume` the device reads from it (`Output`), so
these are steps of their own.  `ppc` and `cpc` say where each side stands.  The
producer is whoever holds the producer lock: the producer thread, or the thread
that runs `_prebuffer` with both locks.  If the producer thread is then asleep
in `buffer_wait_drain` the ring is full and prebuffering stops at once, so one
`ppc` is enough.  Bytes are numbered since the last reset, and a chunk's bytes
carry their numbers; formatting of samples plays no role.  `Resize` is
`player_set_buffer_chunks`: `buffer_init` replaces the chunks without the mutex,
so until its `buffer_reset` (`ready` false) a thread in `buffer_wait_*` may read
anything there, and the model lets it go either way.  `l` and `h` are bounded by
`CHUNK_SIZE`, far below the 31 bits of the code's bit field.

**PlayerState.**  What a thread does to the player with both locks in hand, as
operators from a state to the set of states it can end in.  The choices are
those of the plugins and files: open, seek, read and `op_open` may fail.  The
state has `failed`, which keeps the first `BUG_ON` that fired; a real `BUG_ON`
ends the program, and no step of `Player` follows one.  Data is abstracted:

* a file is remote or not, and has one of a few formats (the format of the ring
  after `ip_read`'s conversion);
* the ring is the number of filled chunks and whether the current one has
  bytes: module PcmBuffer is the detailed view;
* the speed is normal or not;
* a track is what its file is: which track comes next is left open;
* the number of chunks is a constant here (resizing is PcmBuffer's subject).

**Player.**  `lockC` and `lockP` are the two mutexes.  A thread's work between
taking and releasing its locks is split where another thread can come between:
the producer's rounds (it holds only its own lock, the consumer may consume
meanwhile), the consumer's rounds, the consumer's wait for the producer lock,
its wait for the next track with both locks, `player_lock`'s two halves, the
unlocked tests at the start of `player_pause` and `player_pause_playback`, and
the gap in `player_seek` before `termus_next`.  `pthread_cond_wait` is the state
`asleep`, left by a broadcast or spuriously; both loops only unlock and start
again when it returns.  Timed waits and sleeps are a return to `top`.  In
`_consumer_handle_eof` the current track is never NULL (`NoAssertionFails`
checks it), so its test of `player_info_priv.ti` is not a choice.

`_prebuffer` is one step: both locks are held, and it retries until it has what
it wants (a stream that stalls for ever is not modelled).

**Worker.**  Each critical section of `worker_mutex` is one action.  `waiting`
is the set of threads in `pthread_cond_wait`: worker and main thread share
`worker_cond`, and a signal takes one of them out, whichever.  What a job does
between being taken and being done is left to Jobs.  `worker_remove_jobs_by_cb`
drops the queued jobs, and if the running one matches it sets `cancel` and makes
the main thread wait (`removing`) until the worker has finished it.  The worker
holds the mutex while it frees a job; for a deletion job that includes sending
its result, so `WorkerUnlocked` bars the main thread from `worker_*` calls then.

**Jobs.**  The worker's side: an add job goes through the entries of its file or
directory (`FindTrack`), fills a batch (`AddItem`), sends it when the next track
finds it full, and at its end (`FinishEntries`, `SendRest`); a playlist is closed
by a NULL.  Sending is two steps, the push of the result and the byte in the
pipe (`Notify`).  A cancelled job stops at the next entry and still sends what
it has.  The main thread's side: commands (`Commands`), each split where
`worker_remove_jobs_*` may wait (`rest` and `target` say what the command does
when it returns, `Continue` does it); `job_handle`, which empties the pipe and
then takes one result after the other; `cmd_quit`, `exit_all`, `job_exit`.
The end of a load is `pl_loaded`: with `resume` on, as it is by default, any
playlist may have the name of the one that was playing, and any may have that of
the one that was shown (`Loaded`; the first is resumed once, the second name is not
kept, so that any end of a load may be the one it waits for).  A playlist to resume
that has been deleted meanwhile is looked for in vain by `window_set_sel`, whose
`BUG_ON` ends the program (`mpc = "bug"`; nothing acts after it).  Tracks also leave
a list by themselves: marked or selected ones (`RemoveSelected`), and those whose
file is gone (`LoseFile`).
Abstractions:

* a track is `<<job, n>>`; a list is the sequence of its tracks in the order of
  arrival (no sort keys, no shuffle);
* a playlist is a number that is never used again; the order of the playlists
  and which neighbour becomes visible when one is deleted are left open;
* a file holds one track, a directory or playlist up to `MaxTracks`;
* `quit` is the only way to the end, and the user who is asked says yes;
* the selected row and the marks of a list are any of its tracks (what keeps them is in
  Lists), and the jobs that update the library or the cache are what Lists and Cache make
  of their results.

**Window, Editable.**  A list is a record: `list` is the linked list, `tree` the
sequence of the sorted tree's nodes, `shuffle` that of the shuffle tree, and
`total`, `marked`, `top`, `sel` and `nr` are the fields of `struct editable` and
`struct window`.  The three orders are kept apart, as in the code, so that an
operation that forgets one of them shows.  A track is a row that points to a
`track_info`; two infos may be versions of one file, which is what an update
exchanges.  The trees are sequences here; RbTree is about how they are kept.

**Playlists, Library, Lists.**  `pls` and `lib` hold one list each per playlist
and for the sorted view, and what the code has around them: visible, marked and
playing playlist and track; the hash of files, the filter, the live filter and
the current track.  A text of a filter is a name with the set of infos it lets
through; whether one live filter narrows another (`expr_is_harmless`, `strstr`)
is given with the texts.  Lists has the main thread's commands: a command of a
view, a result of a job, an option, next and previous.

**FifoMutex.**  One action per atomic access.  A node lies on the stack of the
thread that waits, so using it after the thread has left is an error
(`NodesAreAlive`).  The order of the exchanges is the order of asking that
FifoLock speaks of.

**Server.**  Clients write what they have in pieces (`Scripts`), some of which end in
the middle of a line; a read gives what has arrived, as far as the buffer goes.  A line of which only a
part has come when the socket is empty loses that part, as in the code: the scripts of
MCRemote have such a line, and `LinesRunAsWritten` says what is kept nevertheless: a line
written at once is run whole, and no part of a piece is lost.  The reply to a
line, the password, the too long line and a client that goes away at any time are there.

**Cache.**  A track_info's index is its address, used once.  The worker's
refresh gives the lock up between two entries, where the main thread acts:
`CacheNext` interleaves the uses of the chain there and nowhere else.  The lists are counts of
references.  What a refresh found is handled an entry at a time (`HandleEntry`, `EndUpdate`): the main
thread does nothing else until it is through (`MainIsFree`), but the worker and the
player's threads go on between two entries.  `MaxTracks` bounds the track_infos and
`MaxCopies` the references of the lists on each; MCSystem has three and two, and
lets the lists and the player hold two tracks at a time, or one twice.

**Session.**  A file's content is a number: 0 is empty, -1 torn, -2 absent, -3 a list
of which the worker has read a part.  `FileOps` has the operations of every save in their
order, with truncation, writing and renaming as separate steps, so that a kill or a failing
write comes between any two.  `Loaded` is the end of the reading of a list, where `pl_loaded`
shows the playlist that was playing and the one that was shown (with `resume`, which is on
or off).  `Quit` comes at any time, also while lists are still read, which SIGTERM and a yes
to the question of `cmd_quit` allow: what has arrived is saved, and what has not is not.
A machine that stops is not modelled: the code syncs nothing before it renames, and
what is on the disk then is the file system's affair.

**CommandLine, Commands, Keys.**  A line is a sequence of characters with their
widths in bytes, next to the counters the code keeps; a property compares the
two.  Commands reads texts (`given`, `answer`) by recursive operators against a
definition of what they mean.  In Keys a command is a symbol, and a line holds
commands; it is about who uses the line and the live filter while the popup is
open.

**Expr, Filters, Options.**  Expressions are parsed to trees, with the code's
tokens and precedences.  Filters keeps what was compiled next to the texts.
Options has one option of every kind (numbers in ranges, names, lists of names,
colours, toggles), each through its setter and getter, and a restart: writing
all values, and reading them as commands onto the defaults.  `RestartKeeps` says
which three may not come back, and what comes instead of the format of playlists.

**RbTree.**  Nodes have numbers for addresses and keys; the tree is a function
from nodes to parent, colour and children, changed in the order of the code.

**Gain.**  A frame is known by how often it was scaled and whether it had to be.
`Write` is the consumer's write of which the device takes any part; `scale_pos`
and `consumer_pos` are the code's.  The arithmetic (`ScaleFrame`,
`UpdatedRgScale`) is that of the code: products of 16-bit samples have 32 bits and are wrapped
around (`Wrapped`) before they are compared with the largest sample, those of 24- and
32-bit samples have 64.  `ScalingIsSound`: amplification is right and cut off in the
wider ones, and with 16 bits only for a sample that does not get too loud.  Gains are
numbers of decibels.

**Mixer.**  `Out` is the state of `output.c` as a record; a plugin's init and its
mixer's init and open fail or not, whichever.  A plugin is initialised once.  Reading the
volume may fail as well, when the mixer is opened and before and after it is set
(`Unread`): the volume stays what it was then, even that of another plugin.

**Cue.**  A sheet is a sequence of lines, a line of tokens.  Offsets are frames.
The child input is a position in a file of so many frames.

**Adding.**  readdir gives the entries of a directory in any order (`ReadEntry`).
Paths and playlists are pure operators, compared with each other: reading
forwards and backwards, cleaning in parts and at once, reducing and expanding.
`PathOfLine` is what a job makes of a line of a playlist.

**Uchar, Glob.**  A string is a sequence of bytes, and `Byte` gives the zero
behind it.  The properties of characters that come from tables (wide, no column,
lower case, what a composed character is made of) are constants for a handful
of characters.  A function with an index into the string returns the index; one
that fills a buffer returns what is in it.  The same module with `using_utf8`
off is a second instance.  Glob splits a pattern into items, orders them as
`simplify` does, and matches by backtracking as `do_glob_match` does.

**FormatPrint.**  A format is a sequence of characters, printed into a line of so
many columns.  Its conditions are texts that Expr parses; patterns in them have
no wildcards, as Glob is about those.  What lies behind the terminator is taken
for the end.

**Stream.**  `table` is the table of descriptors, which another thread uses as
well.  `failed` is a return with an error from `do_http_get`, whose two callers
clean up differently.  `wronged` says which function has closed a descriptor of the
other thread.  Every read may fail, that of the metadata and of its length too.

**MCSystem.**  Parts that share no state, in one run: `focus` is the part a
behaviour is about, and the variables of all others keep their first values.
A part's actions are those of its own module, none is left out, except that
the frames and the settings of Gain, and the mixer's levels and the volumes of
Mixer, are looked at in two separate foci each.

## 3. Runs

| Run | Module, cfg | Bounds | Shows |
|---|---|---|---|
| `pcm_buffer` | MCPcmBuffer, MCPcmBuffer.cfg | up to 3 chunks of 3 units, full at less than 2 free, 12 bytes between resets | the ring's safety, and that it implements PcmStream |
| `player_safety` | MCPlayer, MCPlayerSafety.cfg | 3 chunks, 2 formats, every command, `player_cont` and `player_repeat_current` both ways | all safety properties of the player |
| `player_live` | MCPlayer, MCPlayerLive.cfg | 2 chunks, 2 formats, every command but speed | progress under fairness; the published status |
| `player_deadlock` | MCPlayer, MCPlayerDeadlock.cfg | play and stop | violated: `CommandsComplete` |
| `jobs` | MCJobs, MCJobs.cfg | 2 playlists, 2 add jobs of up to 2 tracks, batches of 2 | worker, jobs and lists, with and without a playlist to resume |
| `jobs_live` | MCJobs, MCJobsLive.cfg | the same with 1 add job, batches of 1, and 1 track that is taken out | progress under fairness; the playing track, when tracks leave a list by themselves |
| `lists` | MCLists, MCLists.cfg | 11 mixes of up to 3 rows, 2 playlists, 4 filters, 2 heights | views, trees, orders, marks, filters and current tracks |
| `remote` | MCRemote, MCRemote.cfg | 3 threads; 2 clients with 2 writes each, a buffer of 3 | FIFO lock and server, with progress |
| `session` | MCSession, MCSession.cfg | 2 playlists, 2 starts, 1 change, 1 fault | exits, kills and full disks, and the start after them |
| `session_exit` | MCSession, MCSessionExit.cfg | those of `session`, without faults | violated: `ExitKeepsLists` |
| `system` | MCSystem, MCSystem.cfg | below | the other parts |
| `line_fits` | MCSystem, MCSystemLine.cfg | those of `system` | violated: `LineFits` |

Why the bounds are enough.  *Ring*: three chunks distinguish empty, partly full
with the indices in either order, and full; with one chunk the two indices
coincide, with two they are each other's successor, and `Resize` moves between
all of them.  Three units per chunk with room below two give a chunk that is
empty, partly written, full early and full exactly.  Twelve units are more than
the ring holds, so the indices wrap.  The theorems of section 5 need no bounds.
*Player*: the ring's state only matters as empty, partly filled, filled to the
prebuffer limit and full: two or three chunks with limits 1 and 2.  Two formats
are what `change_sf` can tell apart.
*Jobs*: two playlists are the one that is deleted and the one that takes its
place; two jobs are the one that runs and the one queued behind it, for the same
list or another; up to two tracks and the NULL, with batches of two, give a
batch that is left partly full, one that is exactly full and one that is sent to
make room.  Taking single tracks out multiplies the states of that, and needs neither a second
job nor batches to be interesting: it is `jobs_live` that may take out one of the two tracks of a
file (`MaxTaken`), which `jobs` never does (`MaxTaken` is 0 there).
*Lists*: two rows have a first and a last, three also a middle; two infos are
versions of one file and the third another file, with sort keys that put the new
version elsewhere.  Everything at once is beyond TLC, so an instance (`Caps`) has
a few rows of one or two lists and some families of commands; every command
occurs in one with enough rows for it.
*Remote*: three threads are one that has the lock, one that waits, and one that
asks in between.  A buffer of three fits a line, not two.
*Session*: two playlists are the one that was shown and the one that was playing,
read in either order; two starts are the one that leaves something behind and the one that
finds it; one fault is enough, as the properties except the files it hits.
*System*: the cache has
two files and three track_infos, so that an entry is replaced while its old version is held; the line two characters of one or two bytes, a buffer that doubles;
filters `f` and `g` that use each other or themselves; trees of eight nodes,
which are red and black to a depth where every rotation occurs; bindings of two
keys; three frames per chunk; two plugins with mixers; all sheets that a head, a
first track, a FILE, a second track and an end make out of five lists of lines;
a directory tree with a mark, a link, a hidden directory and a sheet; three
descriptors, two redirects, playlists of two lines; strings of up to three out of
eight bytes (lone, leading and following ones of characters of one to three
bytes) and chosen ones of four and five; patterns of up to five characters;
formats of any four characters, of two fields, and of three fields in the
parts of a condition, with widths of none, one, three and six columns.

Each passing run's property has at least one mutant in `PROJECT.json`: a
definition of the model replaced by one with a plausible mistake (the definitions
marked *faulty* next to the right ones), which breaks the property.  A property
of MCSystem is a conjunction over its parts and has a mutant for each of them.

**Bounds in guards.**  `MaxBytes` bounds the bytes between two resets
(`Decode`), `MaxChunks` the size of the ring (`Resize`), `MaxLists` the
playlists ever made (`ImportPlaylist`, and `DeletePlaylist` of the last one),
`MaxJobs` the add jobs ever started (`ScheduleAdd`; a reload or load that could
not start its job is not begun), `MaxTracks` the tracks of a file, `MaxTaken` the
tracks that are gone when one is taken out by itself (`TakeOut`).  `Caps` bounds the rows and lists of Lists.  Session has
`MaxContent`, `MaxStarts` and `MaxFaults`.  In MCSystem: `MaxTracks` and `MaxCopies`
(Cache), `MaxLine` and
`MaxLines` (CommandLine), `MaxLine` and `MaxBindings` (Keys), `MaxChanges`
(Options), `MaxNode` (RbTree), `MaxPos` (Gain), `MaxFd` and `MaxLines` (Stream).

**Deadlock** is checked in `pcm_buffer`, `lists` and in the runs of Jobs, whose
only final state is `Over`.  The runs of the player, of MCRemote, MCSession and MCSystem say
`CHECK_DEADLOCK FALSE`: after `player_exit` everything has stopped, clients have
written all they wanted, the last start has ended, a text has been read, a job's files
have been added.
The deadlock at the end of a track is the subject of its own run.

### What the violated runs say of the code

* `player_deadlock`: the consumer waits for the event loop with both player
  locks; a command of the event loop waits for those locks.  `OnlyEofBlocks`, in
  `player_live`, shows that this is the only such wait.
* `session_exit`: `exit_all` calls `commands_exit` before it saves, which clears
  the views; the visible playlist is saved empty if the cursor is among its
  tracks.  Nothing else of what is in memory is lost (`FilesSurvive`, `StartBringsBack`).
  The same property fails in another way, which the run does not come to: what the worker has
  not read when the program exits is not in memory, and the exit saves memory over the
  file.  `CHANGELOG.md:52` speaks of an exit that completes pending jobs first.
* `line_fits`: `cmdline_insert_ch` grows the buffer one byte too late for the NUL.  The
  characters themselves are always within it (`TextFits`).

### What the code does not do

Seen while modelling.  The models follow the code, and the properties say what
holds besides; each such exception stands in the comment of its property.

*Player.*  `pause-playback` may start playback that has ended between its look
at the status and the lock (`player.c:1168`).  `ip` is read there without a lock
after it may have been freed.  Setting the speed publishes the status before it
changes.  A stream whose device was lost cannot be resumed without a stop
(`player.c:1146`).  `player_repeat_current` ignores a seek that fails and comes
to the end again and again (`player.c:829`).  `_prebuffer` retries with both
locks held for as long as a stream has no data (`player.c:614`).  With `buffer_seconds=1`
(offered by `man/termus.txt:866`) the ring has 3 chunks and 250 ms of 192 kHz, 24 bit stereo are
4: it then asks a full ring for room, and `ip_read` asserts that there is some (`input.c:664`);
`player_safety` has a ring at least as large as the limit of every format.  A relative
seek past the end gives its locks up before `termus_next` and may skip two
tracks (`player.c:1299`).  `buffer_init` replaces the chunks without the mutex
(`buffer.c:41`).

*Gain and mixer.*  Products of 16-bit samples and gains above 1 overflow before
they are clamped (`player.c:187`, against the comment at `:243`): a loud sample changes its sign.  Frames that were scaled and not yet
written are scaled again if the gain is turned off and on, against what
`player.c:1441` is for.  Turning `pause_on_output_change` off and then `softvol`, both of which
were on, opens an open mixer, which its assertion takes for a bug (`output.c:191`).
With replay gain `smart` the scale stays when shuffle or the view changes, until
the next track (`moved`).  `op_select_any` leaves the last plugin selected though
none can be opened.  `:mute` remembers one volume for software and hardware.  A volume that
cannot be read is shown as it was, and a relative change starts from it (`player.c:1469`).

*Lists and jobs.*  `pl_delete_selected_track` clears `pl_playing_track` only if
the selected track plays, then removes the marked ones, of which the playing one
may be one (`pl.c:598` against the comment at `pl.c:42`); an update that finds a file
gone does not look at all (`pl.c:969`).  Nothing else breaks that comment (`PlayingTrackIsKept`).  `pl_visible_get_sel_row`
is always -1 (`pl.c:1018`).  A list that is cleared gets the tracks of a batch
that is already on its way, and a reload doubles them: `TracksArrive` counts such a
track as one of the list, as nothing in the repository says otherwise.  `pl_loaded` goes by the
name to resume.  The result that ends a load may wait while its playlist is deleted, as
`pl_cancel_add_jobs` removes jobs only; if it has that name, `window_set_sel` looks for what is
not there, and a `BUG_ON` ends the program (`window.c:364`).  `ListsAreSafe` says that this is the
only way to it, and it is also why no freed playlist is shown.  Of the one that was playing and the one that was shown the one that is read last is shown, whatever
`CHANGELOG.md:42` says of the selection.
`cmd_quit` asks about jobs, not about results that wait.  `lib_remove` looks in
the view only; `total_time` is not adjusted when an update changes a duration; a
new album's shuffle order is not initialised in `lib_reshuffle`.  The cache has
two entries of one file when the main thread adds it while the refresh yields.

*Directories, sheets, paths.*  A FILE without a TRACK takes its file out of a
directory's tracks.  The tracks of a sheet that is prepended to the queue come
in the reverse order.  `buffer_for_each_line_reverse` loses the last character of
a last line that is not ended.  An INDEX 00 after INDEX 01 makes tracks overlap.
8-bit and mono files in a sheet are converted twice; a seek that fails leaves
`current_offset` where it was meant to go.  `pl_env_reduce` takes the first
variable that fits, the manual (`man/termus.txt:1791`) says the last; with
`pl_env_vars` cleared, playlists saved with variables cannot be read
(`job.c:354`, against `man/termus.txt:1802`); a value that goes above the root
loses its slash.

*Streams.*  `open_remote` leaves the descriptor of a first request open that is
answered with an error (`input.c:363`; `lost` in Stream).  A plugin's descriptor
is left open when what it opened has no rate (`input.c:590`).  `http_open` closes
the socket and `handle_line` closes the number again (`input.c:333`; `wronged` in Stream,
which no other function sets).  Timeouts
guard the first byte only.  One address of a host is tried.  A query without a
path is taken for part of the host.

*Filters, commands, options.*  Filters used twice are taken for recursive.
`expr_is_harmless` calls expressions harmless that are not.  An active filter
that is set again is shown as inactive while the library keeps it;
`:factivate` without arguments does nothing if no filter is marked
(`man/termus.txt:417`).  `:r` is `right-view`, as the table of commands is not
sorted there (`command_mode.c:2481`).  `rand_array` fills over numbers it has
still to read (`command_mode.c:1793`).  `play_mode` does what the manual
(`man/termus.txt:705`) gives to another value.  The format strings set by hand
for playlists, the status line and the title, and colours that a scheme sets
too, are lost at a restart; `mouse` and `status_display_*` are not saved.
`set_attr` takes the first attribute only.  `:set mouse` without a value calls a
getter that does not exist.  A binding of `::x` comes back as `:x`.  A remote
`popup filters` takes over a line that is being typed; `:popup filters` puts the
live filter into the history.  `cmdline_insert_ch` forgets the terminating NUL
when it grows the line.

*Characters and patterns.*  `u_print_size` gives 0x1f and broken bytes one byte
where `u_set_char` writes four (`uchar.c:466`): `gbuf_add_ustr`
(`ui_utils.c:24`) takes a text with such bytes for one that was cut.  Four bytes
above U+10FFFF are read as one character, counted as one column and printed as
`<xx>`.  `u_get_char` reads overlong sequences that `u_is_valid` refuses.
`u_strchr` returns the place behind the character (`uchar.h:113` says the
character's).  `do_glob_match` moves in the text by the bytes of the pattern
although a base letter also matches a longer composed one (`glob.c:176`):
`beyonce` does not match a text that ends in the composed letter.

*Formats.*  `format_eval_cond` asks `eid.op` of a number's node
(`format_print.c:263`), so that a condition on a number that is not set is never
true.  Two program options that are compared with each other share a buffer
and are always equal.  A condition cannot hold a `?` or a `}` in its text, and
`%{` behind a width in percent is refused inside a condition.  A lone `%` at the
end of a format is accepted and taken for the first field that has no letter; at
the end of a condition's part it hides the part's end.

*Start and exit.*  `resume_load` plays what was stopped.  A full disk is not
noticed before a save replaces the old file (`FilesSurvive` excepts the files whose write failed).
SIGTERM quits while lists are still being loaded, without the question, and what
was not read yet is lost.  Nothing is synced before it is renamed.  Two
servers that start at once may both find the socket unused (`server.c:345`); a
line whose first part was read before EAGAIN loses it, and the rest is run as a command
(`server.c:157`, against `man/termusc.txt:19`); `termusc` itself cuts lines at 512 bytes
(`main.c:338`).

## 4. Fairness

`FairSpec` (module Player) assumes, beyond that threads are scheduled:

* a thread that keeps asking for a lock gets it at last (strong fairness of the
  steps that take one): POSIX mutexes do not promise it, but each lock here is
  free for most of the time and no thread of the program waits otherwise;
* the event loop serves its pipes (the strong fairness of `MainSteps`: a request
  can be overtaken by commands, but not for ever);
* the device's free space runs out, which ends the consumer's inner loop, and
  comes back: a chunk that is being written is consumed in the end;
* a decoder that keeps reading finds data or the end.

Nothing is assumed of spurious wakeups, of commands, or of which file or device
fails.

`FairSpec` (module Jobs) assumes:

* the worker thread is scheduled (weak fairness of `WorkerSteps`);
* a main thread woken from its wait goes on, and `job_handle`, once begun, does
  (weak fairness of the removal and of `Handle`: nothing else runs on that
  thread);
* the start of the worker, the handling of a readable pipe, a command's second
  half and the exit are not put off for ever (strong fairness): the program
  calls `worker_start` once after loading, its `select` loop looks at the pipe
  in every round, and the other two only wait for `worker_mutex`, which the
  worker gives up between jobs.

`Fairness` (module FifoMutex): a thread inside the functions of `locking.c` goes
on, and its inner mutex, held for a few instructions, is had by whoever keeps
asking; nothing is assumed of how long a thread keeps the FIFO mutex beyond that
it gives it back.  `Fairness` (module Server): the event loop comes to the
sockets again, and to the listening one too.

Nothing is assumed of commands, spurious wakeups or of the files.  All liveness
properties are model-checked only.  MCSystem has none: its parts are steps of
one thread that act when asked.

## 5. Theorems

`PcmBufferProofs` proves, for every number of chunks, chunk size, room and
bound:

| Theorem | States |
|---|---|
| `TypeInvariant` | `Spec => []TypeOK` |
| `Assertions` | `Spec => []AssertionsHold` |
| `Exclusion` | `Spec => []ExclusiveChunk` |
| `EnoughRoom` | `Spec => []WritableIsEnough` |
| `Wakeups` | `Spec => [](NoMissedWakeup /\ NotBothAsleep)` |
| `FilledCount` | `Spec => []FilledChunksCounts` |
| `Accounts` | `Spec => []AccountsAgree` |
| `Refinement` | `Spec => ImplementsStream`, the stream's specification under the refinement mapping |

Assumptions, all named in PcmBuffer: `MaxChunks`, `ChunkSize` positive,
`MinRoom` between 1 and `ChunkSize`, `MaxBytes` natural.  In the code `MinRoom`
is 1024 and `ChunkSize` 60480.

**The inductive invariant** has two halves.  `Shape` says how the marks lie: the
filled chunks are those from `ridx` to `widx` going round (`RingShape`), an
unfilled chunk other than `widx` is empty and a filled one has unread bytes
(`ChunkShape`), and a position a thread holds is that of the chunk its index
points to, which has the mark the thread relies on (`Access`).  None of the
safety properties is inductive without it: that the writer's chunk stays
unmarked needs that nobody else advances `widx` and that a reset cannot come
while a position is out.  `Numbering` says what the bytes are: within a chunk
the numbers ascend by one (`WithinChunks`), a chunk continues where its
predecessor ended (`AcrossChunks`), the first unread byte is number `consumed`
(`FirstUnread`), and the next byte to write is number `written` (`NextWritten`,
`AllWritten`), decoded but not yet filled bytes included (`Decoded`).

The proof has one lemma for each operation that changes indices or bytes and
one for the steps that do not (`QuietShape`, `DecodeShape`, `FillShape`,
`ConsumeShape`, `ResetShape`, and the same for `Numbering`).  The refinement
maps `consumed` of the stream to `consumed` plus the bytes of an `op_write` not
yet accounted for: `OutputInOrder` shows that these are the next bytes,
`StreamStep` that every step is a step of the stream or none.

`MCPcmBuffer` extends PcmBuffer, so TLC evaluates the assumptions.

`JobsProofs` proves, for every number of playlists, jobs and tracks and every
size of a batch:

| Theorem | States |
|---|---|
| `CancelSafe` | `Spec => []CancelIsForTheRunningJob` |
| `WakeupSafe` | `Spec => []NoSleepOverWork` |
| `FreedSafe` | `Spec => []NoUseAfterFree` |
| `ShownSafe` | `Spec => []ShownListsAreListed` |
| `CancelledSafe` | `Spec => []NoJobForDeletedList` |
| `GivesUpSafe` | `Spec => []GivesUpOnlyOnDeleted` |
| `ListsSafe` | `Spec => []ListsAreSafe`: the four together |

They assume `JobsAssumption` only: natural bounds, lists that differ from each other, and a
NULL that is no job.  Whether there is a playlist to resume is left open.  A load that ends
after its playlist was deleted may make that the playing one: the program has then
stopped at a `BUG_ON`, and the playlist is not freed yet and never will be.  `Shown` says so
of a program that has stopped (`GivenUp`: it does nothing more; `GivesUpSafe`: nothing else stops it), and that playing, visible and
marked playlist are on the list of one that lives.

**The inductive invariants.**  `WInv` has the types the control depends on and
`Control`: the worker waits only at the top of its loop, where no job runs that
the main thread could wait for, so at most one thread is in the wait set when a
signal is sent (`SignalWakes`) and the signal cannot wake the wrong one.
`DInv` says where a deleted playlist is: a command awaits the end of the job
that adds to it, or its deletion is queued, or runs, or is reported, or it is
freed (`Stages`: one at a time, so it is freed once); no queued job adds to a
deleted list, and a running one is cancelled and awaited (`AddsKnown`); in the
result queue nothing of a playlist follows the report of its deletion (`Order`),
which is why handling the results in order frees it last.  `NoUseAfterFree` is
not inductive by itself: it says nothing of the results a running job will still
send.  There is one lemma for each step that moves a playlist to the next stage
(`DeleteKeepsTokens`, `ScheduleKeepsTokens`, `TakeKeepsTokens`,
`FreeJobKeepsTokens`, `HandleDeleteKeepsTokens`, `ExitKeepsTokens`) and one for
each kind of step that moves none.

The removal of jobs, and of the NULL at the end of a batch, is `AtIndices`, which
picks the elements of a sequence at given indices by their rank: `SelectSeq` is
recursive and out of the prover's reach.  `RankIsOnto` and `AtIndicesKeeps` are
what the proofs need of it.

Its last part adds, on top of `WInv`:

| Theorem | States |
|---|---|
| `NothingLeft` | `Spec => []NothingIsLeftBehind` |
| `PlayingSafe` | `Spec => []PlayingTrackIsKept` |

That a result is not left behind is inductive under `WInv`; that the end is clean
needs `Ending`, which follows the exit backwards: the worker is joined when the
queue is empty and nothing can fill it again.  `PlayingSafe` needs that lists
hold tracks only and that a clear that waits for a removal is that of a view
(`Contents`), and that the playing track is in the playing list unless it is one of
`lost`, those that were taken out while they played (`PlayingKept`); that the list has not
been freed is `FreedSafe`'s invariant.

`TracksProofs` adds, on top of `WInv` and `Contents`, for every size of a batch:

| Theorem | States |
|---|---|
| `TracksSafe` | `Spec => []TracksArrive` |

That each track is in one place and each list in order are one argument.  Jobs run one
after the other and a job goes through its entries in one direction, so what was
found has an order (`Sooner`; `Numbers` ties it to the numbers of the jobs, which
rise along the queue, and to the entries the running job has gone through).  What
a list has received (`Settled`), the results and the buffer never disagree with
that order: what is further on was found sooner (`InPipe`).  One lemma for each way a
track moves shows it: `Buffered`, `Pushed`, `Handled`, `WaysCleared`.  Nothing is
sooner than itself, so no track is in two of these places or twice in one, and as
they hold together what was found (`Whereabouts`), each is in exactly one.  A batch
that comes to a list is later than all that is there, which is why appending it, or
putting it turned round before the queue, keeps the order (`ListGrows`).  The rest of
`TInv` is types: `Sizes`, `OnceMade`, `Flags` and `Played`, from which `TypeOK` follows.
A track that is taken out by itself moves from its list to `dropped` like those of a
list that is cleared (`WaysTaken`).

`PlayerProofs` proves, for every set of formats, size of the ring, prebuffer limit and set of commands:

| Theorem | States |
|---|---|
| `PlayerConsistent` | `PrebufferFits` implies `Spec => []PlayerIsConsistent` |
| `StatusConsistency` | `Spec => [](TypeOK /\ StatusConsistent)` |
| `AudioCurrent` | `Spec => []AudioIsCurrent` |
| `TailPlayed` | `Spec => []NoTailLost` |
| `WakeupsArrive` | `Spec => []NoLostWakeup` |
| `ExitIsClean` | `Spec => []CleanExit` |
| `StatusIsShown` | `"setSpeed" \notin Commands` implies `Spec => []StatusShown` |

Two have an assumption on a constant, and each is what the code lacks:
`PrebufferFits` says that 250 ms of every format fit in the ring, which
`buffer_seconds=1` breaks (section 3, *Player*; without it the assertions
fail and all the rest still holds, which is `StatusConsistency`), and the
published status is behind after a change of the speed (section 3, *Player*).

**The argument** is assume-guarantee.  What a thread does with both locks in
hand is a pure operator of PlayerState, so the first half of PlayerProofs has one lemma for
each of them and no temporal formula.  A state is `Sound` if its halves fit
(`ProducerHalf`: status, input, track; `ConsumerHalf`: status, device, ring), the
ring has the file's format while the device is open (`RingFits`), and the pair
of statuses is one of five (`Pairs`).  The helpers lead from `Whole` states to
`Whole` ones and say which half they leave alone (`SameInput`, `SameDevice`);
the commands lead from sound states to sound ones (`Settles`), signal whatever
gives a sleeping thread work (`Tells`) and let no `BUG_ON` fire.  The second half
is about the interleavings: `IInv` says who holds which lock by where the threads
are (`Locks`), what a thread may still rely on at each point where another can
come between (`ProducerAt`, `ConsumerAt`), how the exit proceeds (`Ending`), when
a request or an answer is on its way (`Answers`), and that what the locks protect
is sound whenever they are free (`Protected`).  None of the properties is
inductive alone: that no tail is lost needs that nobody decodes while the
consumer waits with both locks; that no wakeup is lost needs that every
command signals.  The fifth pair, a decoder that plays without a device, is
what a lost device leaves behind that cannot be opened again (`ReopenDone`).

`FifoMutexProofs` proves, for every set of threads:

| Theorem | States |
|---|---|
| `WaitersSafe` | `Spec => []WaitersAreSafe` |
| `MutualExclusion` | at most one thread is between lock and unlock |
| `ImplementsLock` | `Spec => ImplementsFifoLock`: every step is a step of FifoLock or none |

The inductive invariant says what the linked list of nodes is a picture of: the
threads that wait, each once, in the order of their exchanges (`Members`); every
one but the first has its predecessor in `old` and is its predecessor's `next`
from the second store on (`Queue`, which also says what `head` and `tail` are);
only the front goes past the check and the inner mutex has one owner (`Turn`);
and the front sleeps only while the thread that holds the lock will wake it
(`FrontIsAwake`).  `ExchangeKeeps` is the heart: a thread's exchange of `tail`
and its store to the predecessor's `next` are two steps, and the predecessor may
leave between them.

`WindowProofs` is about the operators of Window, for every length `n` of the list,
height of the window and scroll offset; `Shows(w, n)` is `ShowsSelection` of a
window with at least one row:

| Theorem | States |
|---|---|
| `CommandsShow` | each of `Commanded(w, n)` shows its selection if `w` does |
| `SelectedShows` | so does `SetSel(w, n, p)` for each row `p`, which is then selected |
| `ResizedShows` | so does `SetNrRows(w, n, rows)` for any number of rows |
| `ChangedShows` | `Changed(w, n)` does wherever `w.top` and `w.sel` are in the list |
| `RemovedShows` | a row is removed after `RowVanishes`: neither `top` nor `sel` was left on it, and `Shows` and `OnRows` hold in the shorter list |

The lists walk a ring, so each lemma first shows that its walk does not pass the
head (`WalkIs` makes it a sum then); an empty list, where every walk ends at the
head, is a case of its own.  What remains is that the two margins leave room for
the selection between them (`MarginsFit`: twice a margin is at most the height).
`ChangedShows` has a weak hypothesis on purpose: the functions of
`editable.c` that add, move or sort rows end in `window_changed`, whatever they
did before; all it needs is `OnRows`, that both are rows of the list or nothing was shown.  Removing one puts `top` and `sel` on a
neighbour first, which keeps `OnRows`, however many are removed in turn.  These are steps of
Lists' `SelectionIsShown`, not that invariant: that the lists make no others stays
with TLC.

`SessionProofs` proves, for any number of playlists, changes, starts, kills and
failing writes, and for exits while lists are still read:

| Theorem | States |
|---|---|
| `ExitKeepsFiles` | `Spec => []FilesSurvive` |
| `StartRestores` | `Spec => []StartBringsBack` |

It assumes that there are finitely many playlists and that none has the name the
model gives one of the other files (`PlaylistAssumption`), and that contents are bounded by
a natural number (`BoundAssumption`); MCSession extends Session, so TLC evaluates both.

`FilesSurvive` says nothing of a running program, and of an exit only what is found
when it is killed; neither it nor `StartBringsBack` is inductive.  `SInv` adds what an exit
has still to do.  That is a sequence, so the first half of the proof is about sequences of
operations: `Sane` says how the operations of one file follow each other, `ClearLast`
that a view is not cleared before it is saved, and both hold of sequences
put one after the other (`Joined`), of what is left after a step (`TailOps`) or after a file
that could not be created (`SkipOps`), and of the whole of `ExitOps`, which has
every file there is (`ExitOpsAre`).  Then, while the exit goes on (`Exiting`), each file is still as it was
when the exit began or its saving is over; it is ahead, saved, failed, or the
playlist that was cleared; and a list that this exit has torn is the one written
next, which is why one list at most is at risk (`AtRisk`).  For the start, `Done` keeps what an
exit that ended well has left, through `Starting`, in which each list is either
still to be read or as on the disk, and the playlist that was shown is among those to be
read, or it or the one that was playing is shown already: whatever the order in which the
worker reads them.  A deleted playlist has
no file (`InUse`), or the start would find it again.

`CacheProofs` proves, for any files, number of track_infos and of references of the lists:

| Theorem | States |
|---|---|
| `CacheInvariant` | `CacheSpec => []IInv` |
| `CacheStaysSound` | `CacheSpec => []CacheIsSound` |
| `RefreshTells` | `CacheSpec => EveryChangeIsTold` |

It assumes that the bound on track_infos is a natural number (`MaxTracksAssumption`), which
TLC evaluates, as MCSystem extends Cache.

That references are counted is not inductive: a result gives back a reference on the
track that `next` of the old one names, and `next` is also the link of the hash
chain.  `IInv` says that it means one thing at a time: from the bucket it leads through a
chain that ends (`Chained`); an old track whose `next` names its successor is not in that
chain, and the job and the updates list no track twice (`Apart`); the entry the
job is at has left the chain (`Taken`).  `Links` follows `next` as the code does;
that the sequence read off it is the chain, and how a track put in front of it or cut out
of it changes it, is `LinksAre`, `ChainIs`, `NewChain` and `CutChain`, from the defining
equation of the recursive function, by taking the least counterexample where a step needs induction.

What is held is a number for each track, and what the job and the results hold is the
cardinality of two sets of entries (`GivenBack`).  An action changes each by one, or not
at all, or moves an entry from one place to another; `CountGain`, `CountShift` and the
lemmas on `GivenBack` say so once, and one lemma `Keeps...` for each action applies
them: to steps that leave the entries alone (`Balanced`, `Quiet`), to those of the job
(`KeepsForgotten`, `KeepsTold`), and to the two that move many entries at once, as a
refresh takes a reference on everything and its end hands them all on
(`KeepsStartRefresh`, `KeepsEndRefresh`).  `RefreshTells` follows: a reference that is the only one
is the job's own, so no list and no result has another (`UniqueIsAlone`), and nobody can
get one, for the track has left the cache.

**Only model-checked.**  The lists, beyond the steps of their windows; the server, whose
lines are cut with a fold; everything in MCSystem but Cache: the parsers there are
recursive operators and out of the prover's reach; and all liveness, of the player, the
jobs, the FIFO mutex and the server (fairness and ENABLED are beyond it).

## 6. Not modelled

* *Tag readers and decoders* (`id3.c`, `ape.c`, `plugins/`): formats of others,
  and adapters around libraries and devices, taken as calls that may fail.
* *Drawing* (`ui_curses.c`, `options_display.c`): what is on the screen beyond
  which rows, and colours.
* *MPRIS* (`mpris.c`): a D-Bus adapter that calls the commands and emits signals.
* *Character sets and collation* (`convert.c`, `u_collate.c`, and the tables in
  `wcwidth_uchar.h` and `unidecomp.h`): calls of libraries, and data.
* *Artists and albums of the library* (`lib.c`): the sorted list and the shuffled
  one are modelled, the shuffle by albums and `aaa_mode` are not.
* *The cache file and the files of the lists*: contents are whole or torn.
* *In the player*: bit rate, and `player_info` beyond its status.
* *Undefined behaviour* of the code is a free choice where it decides what
  happens next (a look at freed chunks, at a freed input), and left out where it
  does not (a NULL getter).
* *A play-file or set-file command whose track is the one the consumer is just
  taking*: `SeekOver` has the gap, but Player has no list that would tell a
  skipped track.

Hazards without a property have a note in `PROJECT.json` that says why.

## 7. Plan

1. Proofs about the operators of Mixer: each leads from a state in which the mixer
   follows the options to another.
2. Player over PcmBuffer: that the counter of Player is PcmBuffer's
   `FilledChunks` (a refinement of the shared steps).
3. Shuffling by albums, and the update jobs as jobs.
