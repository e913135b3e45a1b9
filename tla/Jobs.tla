-------------------------------- MODULE Jobs --------------------------------
(***************************************************************************)
(* Background jobs (ui/job.c) over the worker, and the lists they fill:    *)
(* the library and the play queue, and the playlists of library/pl.c, which*)
(* come and go.                                                            *)
(*                                                                         *)
(* An add job finds tracks one by one and sends them in batches of TI_CAP  *)
(* to a queue of results; the main thread, told through a pipe, appends    *)
(* them to the list the job was started for.  A deleted playlist is freed  *)
(* by a job of its own, behind everything that may still refer to it.      *)
(*                                                                         *)
(* A track is <<job, n>>, the n-th track of the job's file or directory.   *)
(***************************************************************************)
EXTENDS Worker

CONSTANTS
    Library, Queue,  \* the lists that always exist
    MaxLists,  \* bound: playlists ever made
    MaxJobs,   \* bound: add jobs ever started
    MaxTracks, \* bound: tracks in a file or directory
    MaxTaken,  \* bound: tracks gone from their lists when one is taken out by itself
    TI_CAP,    \* tracks in a batch
    NoList

Views == {Library, Queue}
Playlists == 1 .. MaxLists
Lists == Views \union Playlists
Tracks == (1 .. MaxJobs) \X (1 .. MaxTracks)
EndOfLoad == <<0, 0>>  \* the NULL that add_pl sends last
NoTrack == <<0, 0>>    \* the NULL of pl_playing_track

AddJobs ==
    [kind : {"ADD"}, list : Lists, id : 1 .. MaxJobs, n : 0 .. MaxTracks,
     source : {"file", "dir", "playlist"}, front : BOOLEAN]
DeleteJobs == [kind : {"DELETE"}, list : Playlists]
AddResults ==
    [kind : {"ADD"}, list : Lists, items : Seq(Tracks \union {EndOfLoad}), front : BOOLEAN]
DeleteResults == [kind : {"DELETE"}, list : Playlists]

AnyJob == AddJobs \union DeleteJobs

ASSUME JobsAssumption ==
    /\ MaxLists \in Nat \ {0}
    /\ MaxJobs \in Nat /\ MaxTracks \in Nat /\ MaxTaken \in Nat
    /\ TI_CAP \in Nat \ {0}
    /\ Library # Queue
    /\ NoJob \notin AnyJob
    /\ {Library, Queue, NoList} \intersect (1 .. MaxLists) = {}
    /\ NoList \notin {Library, Queue}

VARIABLES
    \* the worker inside a job
    seen,     \* entries of the file or directory gone through
    ended,    \* no more entries: what is in the buffer remains to be sent
    buffer,   \* ti_buffer
    \* job.c
    results,  \* job_result_head
    pipe,     \* a byte in job_fd
    \* the lists
    content,  \* the tracks of each list
    made,     \* how many playlists were made
    listed,   \* pl_head
    freed,    \* playlists pl_free was called for
    visible, marked, playing,
    ptrack,   \* pl_playing_track
    resume,   \* pl_resume_name is not NULL
    lost,     \* history: playing tracks taken out of their playlist
    \* the main thread
    mpc,      \* loop, remove, handle, join, over; bug: a BUG_ON was true
    rest,     \* what the command does after worker_remove_jobs_*
    target,   \* the list it is about
    quitting, \* ~termus_running
    \* history
    log,      \* log[j]: the list job j was started for
    found,    \* the tracks jobs found
    dropped,  \* the tracks cleared or freed with their list
    asked     \* cmd_quit warned of jobs that are not done

inJob == <<seen, ended, buffer>>
channel == <<results, pipe>>
playlists == <<made, listed, freed, visible, marked, playing, ptrack, resume, lost>>
main == <<mpc, rest, target, quitting>>
history == <<log, found, dropped, asked>>
vars == <<worker, wpc, inJob, channel, content, playlists, main, history>>

\* One playlist, loaded or made by pl_init; the jobs of the start of the program
\* are queued before worker_start like any others.
Init ==
    /\ WorkerInit
    /\ seen = 0 /\ ended = FALSE /\ buffer = <<>>
    /\ results = <<>> /\ pipe = FALSE
    /\ content = [l \in Lists |-> <<>>]
    /\ made = 1 /\ listed = {1} /\ freed = {}
    /\ visible = 1 /\ marked = 1 /\ playing = NoList
    /\ ptrack = NoTrack
    /\ resume \in BOOLEAN /\ lost = {}
    /\ mpc = "loop" /\ rest = "nothing" /\ target = NoList /\ quitting = FALSE
    /\ log = <<>> /\ found = {} /\ dropped = {}
    /\ asked = FALSE

-----------------------------------------------------------------------------
(* The worker inside a job. *)

SendBatch ==
    results' = Append(results, [kind |-> "ADD", list |-> cur.list, items |-> buffer,
                                front |-> cur.front])

\* faulty: the full buffer is not sent
AddItemForgetting(item) ==
    /\ buffer' = IF Len(buffer) = TI_CAP THEN <<item>> ELSE Append(buffer, item)
    /\ UNCHANGED <<results, wpc>>

\* faulty: the buffer is sent when it has overflown
AddItemLate(item) ==
    IF Len(buffer) > TI_CAP
    THEN /\ SendBatch
         /\ buffer' = <<item>>
         /\ wpc' = "notify"
    ELSE /\ buffer' = Append(buffer, item)
         /\ UNCHANGED <<results, wpc>>

\* add_ti: a full buffer is sent first.
AddItem(item) ==
    IF Len(buffer) = TI_CAP
    THEN /\ SendBatch
         /\ buffer' = <<item>>
         /\ wpc' = "notify"
    ELSE /\ buffer' = Append(buffer, item)
         /\ UNCHANGED <<results, wpc>>

Running(kind) == wpc = "run" /\ cur.kind = kind

\* worker_cancelling, which a single file does not ask
Cancelled == cancel /\ cur.source # "file"

\* faulty: the list is not gone through backwards
NextTrackForwards == <<cur.id, seen + 1>>

\* play_queue_prepend wants the last track first
NextTrack == <<cur.id, IF cur.front THEN cur.n - seen ELSE seen + 1>>

FindTrack ==
    /\ Running("ADD") /\ ~ended
    /\ seen < cur.n /\ ~Cancelled
    /\ AddItem(NextTrack)
    /\ found' = found \union {NextTrack}
    /\ seen' = seen + 1
    /\ UNCHANGED <<worker, ended, pipe, content, playlists, main, log, dropped, asked>>

\* The end of the entries or of the job's time; a playlist is closed by a NULL, also
\* when the job is cancelled, unless its file is empty or cannot be read.
FinishEntries ==
    /\ Running("ADD") /\ ~ended
    /\ seen = cur.n \/ Cancelled
    /\ ended' = TRUE
    /\ \/ cur.source = "playlist" /\ AddItem(EndOfLoad)
       \/ (cur.source = "playlist" => cur.n = 0) /\ UNCHANGED <<buffer, results, wpc>>
    /\ UNCHANGED <<worker, seen, pipe, content, playlists, main, history>>

\* faulty: the buffer is not emptied
SendRestKept ==
    /\ Running("ADD") /\ ended
    /\ buffer # <<>>
    /\ SendBatch
    /\ wpc' = "notify"
    /\ UNCHANGED <<worker, inJob, pipe, content, playlists, main, history>>

SendRest ==
    /\ Running("ADD") /\ ended
    /\ buffer # <<>>
    /\ SendBatch
    /\ buffer' = <<>>
    /\ wpc' = "notify"
    /\ UNCHANGED <<worker, seen, ended, pipe, content, playlists, main, history>>

AddDone ==
    /\ Running("ADD") /\ ended
    /\ buffer = <<>>
    /\ wpc' = "done"
    /\ UNCHANGED <<worker, inJob, channel, content, playlists, main, history>>

\* free_pl_delete_job, under worker_mutex
FreeDeleteJob ==
    /\ Running("DELETE")
    /\ results' = Append(results, [kind |-> "DELETE", list |-> cur.list])
    /\ wpc' = "notify"
    /\ UNCHANGED <<worker, inJob, pipe, content, playlists, main, history>>

\* faulty: the pipe is not written to
NotifyNobody ==
    /\ wpc = "notify"
    /\ wpc' = IF cur.kind = "DELETE" THEN "done" ELSE "run"
    /\ UNCHANGED <<worker, inJob, channel, content, playlists, main, history>>

\* The second half of job_push_result
Notify ==
    /\ wpc = "notify"
    /\ pipe' = TRUE
    /\ wpc' = IF cur.kind = "DELETE" THEN "done" ELSE "run"
    /\ UNCHANGED <<worker, inJob, results, content, playlists, main, history>>

\* A BUG_ON ends the process, and the worker with it.
Alive == mpc # "bug"

\* worker_mutex is held while a deletion job is freed
WorkerUnlocked == wpc \in {"notify", "done"} => cur.kind = "ADD"

WorkerLoop ==
    /\ \/ TakeJob
       \/ WaitForJob
       \/ StopWorker
       \/ FinishJob
    /\ seen' = 0 /\ ended' = FALSE
    /\ UNCHANGED <<buffer, channel, content, playlists, main, history>>

WorkerWakesUp ==
    /\ Alive
    /\ \/ SpuriousWakeup
       \/ WorkerUnlocked /\ (RemovalWaits \/ RemovalEnds)
    /\ UNCHANGED <<inJob, channel, content, playlists, main, history>>

WorkerSteps ==
    /\ Alive
    /\ \/ FindTrack \/ FinishEntries \/ SendRest \/ AddDone \/ FreeDeleteJob \/ Notify
       \/ WorkerLoop

-----------------------------------------------------------------------------
(* The main thread: commands.  Before worker_start there is only loading. *)

Idle == mpc = "loop" /\ ~quitting /\ WorkerUnlocked
InMainLoop == Idle /\ state = "RUNNING"

\* faulty: another type of job
OfOtherType(l) == {job \in DeleteJobs : job.list = l}
OnlyAdd == AddJobs

\* worker_matches_type and pl_match_add_job: the jobs that add to a list
OfType(l) == {job \in AddJobs : job.list = l}
AnyType == AnyJob

\* A command has called worker_remove_jobs_*, and goes on when it returns.
Await(what, l) == mpc' = "remove" /\ rest' = what /\ target' = l

NewJob(l, n, source, front) ==
    [kind |-> "ADD", list |-> l, id |-> Len(log) + 1, n |-> n, source |-> source,
     front |-> front]

\* termus_add
ScheduleAdd(l, n, source, front) ==
    /\ Len(log) < MaxJobs
    /\ source = "file" => n = 1
    /\ AddJob(NewJob(l, n, source, front))
    /\ log' = Append(log, l)

\* The new list with the tracks gone
Emptied(l) == [content EXCEPT ![l] = <<>>]
Drop(l) == dropped' = dropped \union Range(content[l])
Clear(l) ==
    /\ content' = Emptied(l)
    /\ Drop(l)

\* view_add
AddTracks ==
    /\ Idle
    /\ \E l \in Views \union {marked}, n \in 0 .. MaxTracks,
          source \in {"file", "dir", "playlist"}, front \in BOOLEAN :
          /\ front => l = Queue
          /\ ScheduleAdd(l, n, source, front)
    /\ UNCHANGED <<wpc, inJob, channel, content, playlists, main, found, dropped, asked>>

\* pl_load_one, pl_import
ImportPlaylist ==
    /\ Idle
    /\ made < MaxLists
    /\ made' = made + 1
    /\ \E n \in 0 .. MaxTracks : ScheduleAdd(made', n, "playlist", FALSE)
    /\ listed' = listed \union {made'}
    /\ UNCHANGED <<wpc, inJob, channel, content, freed, visible, marked, playing,
                   ptrack, resume, lost, main, found, dropped, asked>>

\* pl_list_sel_changed, pl_mark_selected_pl; pl_select_playing_track
SelectPlaylist ==
    /\ InMainLoop
    /\ \/ visible' \in listed
       \/ ptrack # NoTrack /\ visible' = playing
    /\ marked' \in {marked, visible'}
    /\ UNCHANGED <<worker, wpc, inJob, channel, content, made, listed, freed, playing,
                   ptrack, resume, lost, main, history>>

\* pl_play_selected_row
PlaySelected ==
    /\ InMainLoop
    /\ ptrack' \in Range(content[visible])
    /\ playing' = visible
    /\ UNCHANGED <<worker, wpc, inJob, channel, content, made, listed, freed, visible,
                   marked, resume, lost, main, history>>

\* pl_goto_generic; pl_play_track shows the playlist when follow is set
PlayNext ==
    /\ InMainLoop
    /\ LET l == IF playing = NoList THEN visible ELSE playing
       IN \/ /\ ptrack' \in Range(content[l])
             /\ playing' = l
             /\ visible' \in {visible, l}
          \/ /\ ptrack = NoTrack /\ content[l] = <<>>
             /\ playing' = NoList
             /\ UNCHANGED <<ptrack, visible>>
    /\ UNCHANGED <<worker, wpc, inJob, channel, content, made, listed, freed,
                   marked, resume, lost, main, history>>

\* The list without the tracks that are gone; nobody looks at pl_playing_track, which
\* is ptrack' by now.
TakeOut(l, gone) ==
    /\ content' = [content EXCEPT ![l] = AtIndices(@, {i \in DOMAIN @ : @[i] \notin gone})]
    /\ dropped' = dropped \union gone
    /\ Cardinality(dropped') <= MaxTaken
    /\ lost' = lost \union ({ptrack'} \intersect gone)
    /\ UNCHANGED <<worker, wpc, inJob, channel, made, listed, freed, visible, marked,
                   playing, resume, main, log, found, asked>>

\* pl_delete_selected_track, editable_remove_sel: the marked tracks, or the selected
\* one if there are none; only the selected one can be the one that plays.
RemoveSelected ==
    /\ InMainLoop
    /\ \E selected \in Range(content[visible]), marks \in SUBSET Range(content[visible]) :
          /\ ptrack' = IF selected = ptrack THEN NoTrack ELSE ptrack
          /\ TakeOut(visible, IF marks = {} THEN {selected} ELSE marks)

\* pl_update_track, for a file that is gone (the result of an update of the cache)
LoseFile ==
    /\ InMainLoop
    /\ \E l \in listed : \E t \in Range(content[l]) :
          /\ UNCHANGED ptrack
          /\ TakeOut(l, {t})

\* A command that removed jobs goes on.
Back == mpc' = "loop" /\ rest' = "nothing" /\ target' = NoList
Resumes(what) ==
    /\ mpc = "remove" /\ ~removing /\ WorkerUnlocked
    /\ rest = what

\* view_clear and view_load, up to the removal of the jobs
ClearView ==
    /\ InMainLoop
    /\ \E l \in Views :
          /\ RemoveJobs(OfType(l))
          /\ \/ Await("clear", l)
             \/ Len(log) < MaxJobs /\ l = Library /\ Await("load", l)
    /\ UNCHANGED <<wpc, inJob, channel, content, playlists, quitting, history>>

ClearedView ==
    /\ Resumes("clear")
    /\ Clear(target)
    /\ Back
    /\ UNCHANGED <<worker, wpc, inJob, channel, playlists, quitting, log, found, asked>>

LoadView ==
    /\ Resumes("load")
    /\ Clear(target)
    /\ \E n \in 0 .. MaxTracks : ScheduleAdd(target, n, "playlist", FALSE)
    /\ Back
    /\ UNCHANGED <<wpc, inJob, channel, playlists, quitting, found, asked>>

\* faulty: the playing track stays
ClearPlaylistPlaying ==
    /\ InMainLoop
    /\ Clear(visible)
    /\ RemoveJobs(OfType(visible))
    /\ \/ Await("nothing", visible)
       \/ Len(log) < MaxJobs /\ Await("reload", visible)
    /\ UNCHANGED <<wpc, inJob, channel, playlists, quitting, log, found, asked>>

\* pl_clear_visible_pl, for pl_clear and pl_win_update
ClearPlaylist ==
    /\ InMainLoop
    /\ ptrack' = IF playing = visible THEN NoTrack ELSE ptrack
    /\ Clear(visible)
    /\ RemoveJobs(OfType(visible))
    /\ \/ Await("nothing", visible)
       \/ Len(log) < MaxJobs /\ Await("reload", visible)
    /\ UNCHANGED <<wpc, inJob, channel, made, listed, freed, visible, marked, playing,
                   resume, lost, quitting, log, found, asked>>

ClearedPlaylist ==
    /\ Resumes("nothing")
    /\ Back
    /\ UNCHANGED <<worker, wpc, inJob, channel, content, playlists, quitting, history>>

ReloadPlaylist ==
    /\ Resumes("reload")
    /\ \E n \in 0 .. MaxTracks : ScheduleAdd(target, n, "playlist", FALSE)
    /\ Back
    /\ UNCHANGED <<wpc, inJob, channel, content, playlists, quitting, found, dropped, asked>>

\* faulty: nobody notices
StillThere(l, p, other) == l

Replaced(l, p, other) == IF l = p THEN other ELSE l

\* pl_delete: a new default playlist if it was the last, another one visible,
\* nobody left pointing to it but the worker and its results
DeletePlaylist ==
    /\ InMainLoop
    /\ \E p \in listed :
          /\ IF listed = {p} THEN made < MaxLists /\ made' = made + 1
                             ELSE made' = made
          /\ listed' = IF listed = {p} THEN {made'} ELSE listed \ {p}
          /\ visible' \in IF visible = p THEN listed' ELSE {visible}
          /\ marked' = Replaced(marked, p, visible')
          /\ playing' = Replaced(playing, p, NoList)
          /\ ptrack' = IF playing = p THEN NoTrack ELSE ptrack
          /\ RemoveJobs(OfType(p))
          /\ Await("delete", p)
    /\ UNCHANGED <<wpc, inJob, channel, content, freed, resume, lost, quitting, history>>

\* faulty: freed as soon as the jobs are removed
FreePlaylistAtOnce ==
    /\ Resumes("delete")
    /\ freed' = freed \union {target}
    /\ content' = Emptied(target) /\ Drop(target)
    /\ Back
    /\ UNCHANGED <<worker, wpc, inJob, channel, made, listed, visible, marked, playing,
                   ptrack, resume, lost, quitting, log, found, asked>>

\* faulty: the playlist is forgotten
ForgetPlaylist ==
    /\ Resumes("delete")
    /\ Back
    /\ UNCHANGED <<worker, wpc, inJob, channel, content, playlists, quitting, history>>

\* job_schedule_pl_delete
ScheduleDelete ==
    /\ Resumes("delete")
    /\ AddJob([kind |-> "DELETE", list |-> target])
    /\ Back
    /\ UNCHANGED <<wpc, inJob, channel, content, playlists, quitting, history>>

\* worker_start, when everything is loaded or scheduled
StartWorker ==
    /\ Idle
    /\ state = "PAUSED"
    /\ SetState("RUNNING")
    /\ UNCHANGED <<wpc, inJob, channel, content, playlists, main, history>>

-----------------------------------------------------------------------------
(* The main thread: results. *)

\* job_handle empties the pipe first ...
BeginHandling ==
    /\ mpc = "loop" /\ state = "RUNNING"
    /\ pipe
    /\ pipe' = FALSE
    /\ mpc' = "handle"
    /\ UNCHANGED <<worker, wpc, inJob, results, content, playlists, rest, target,
                   quitting, history>>

\* lib_add_track, play_queue_append, pl_add_track; play_queue_prepend
WithTracks(l, tracks, front) ==
    [content EXCEPT ![l] = IF front THEN Reverse(tracks) \o @ ELSE @ \o tracks]

\* faulty: pl_loaded resumes a track of the list that is shown
LoadedElsewhere(l) ==
    \/ UNCHANGED <<playing, ptrack, visible, resume, mpc>>
    \/ /\ resume /\ resume' = FALSE
       /\ ptrack' \in Range(content'[l]) /\ playing' = visible
       /\ UNCHANGED <<visible, mpc>>

\* pl_loaded: the playlist may have the name of the one that played when the program
\* ended, and enough tracks; it need not be on the list of playlists any more, and then
\* window_set_sel does not find it and gives up the program.  It, or the one that has
\* its name now, may be the one that was shown; pl_visible_resume_name is not kept, any
\* end of a load may be the one it waits for.
Loaded(l) ==
    \/ UNCHANGED <<playing, ptrack, visible, resume, mpc>>
    \/ /\ visible' \in IF l \in listed THEN {l} ELSE listed
       /\ UNCHANGED <<playing, ptrack, resume, mpc>>
    \/ /\ resume /\ resume' = FALSE
       /\ ptrack' \in Range(content'[l]) /\ playing' = l
       /\ IF l \in listed THEN visible' = l /\ UNCHANGED mpc
                          ELSE mpc' = "bug" /\ UNCHANGED visible

HandleAdd ==
    /\ mpc = "handle" /\ results # <<>>
    /\ LET res    == Head(results)
           tracks == AtIndices(res.items, {i \in DOMAIN res.items : res.items[i] # EndOfLoad})
           isEnd  == Len(tracks) < Len(res.items)
       IN /\ res.kind = "ADD"
          /\ content' = WithTracks(res.list, tracks, res.front)
          /\ IF isEnd /\ res.list \in Playlists
             THEN Loaded(res.list)
             ELSE UNCHANGED <<playing, ptrack, visible, resume, mpc>>
    /\ results' = Tail(results)
    /\ UNCHANGED <<worker, wpc, inJob, pipe, made, listed, freed, marked, lost, rest,
                   target, quitting, history>>

HandleDelete ==
    /\ mpc = "handle" /\ results # <<>>
    /\ LET res == Head(results)
       IN /\ res.kind = "DELETE"
          /\ freed' = freed \union {res.list}
          /\ content' = Emptied(res.list)
          /\ Drop(res.list)
    /\ results' = Tail(results)
    /\ UNCHANGED <<worker, wpc, inJob, pipe, made, listed, visible, marked, playing,
                   ptrack, resume, lost, main, log, found, asked>>

\* faulty: one result for each time the pipe becomes readable
EndHandlingEarly ==
    /\ mpc = "handle"
    /\ mpc' = "loop"
    /\ UNCHANGED <<worker, wpc, inJob, channel, content, playlists, rest, target,
                   quitting, history>>

\* ... and goes on until there is no result left.
EndHandling ==
    /\ mpc = "handle" /\ results = <<>>
    /\ mpc' = "loop"
    /\ UNCHANGED <<worker, wpc, inJob, channel, content, playlists, rest, target,
                   quitting, history>>

-----------------------------------------------------------------------------
(* The end of the program. *)

\* cmd_quit; the user who is asked says yes.
Quit ==
    /\ InMainLoop
    /\ asked' = HasJob(AnyType)
    /\ quitting' = TRUE
    /\ UNCHANGED <<worker, wpc, inJob, channel, content, playlists, mpc, rest, target,
                   log, found, dropped>>

\* Removed deletion jobs still report, see FreeDeleteJob.
ReportsOfRemoved ==
    LET I == Indices(DeleteJobs)
    IN [k \in 1 .. Cardinality(I) |->
           [kind |-> "DELETE", list |-> AtIndices(queue, I)[k].list]]

\* exit_all saves the lists, then job_exit removes every job ...
ExitAll ==
    /\ mpc = "loop" /\ quitting /\ WorkerUnlocked
    /\ RemoveJobs(AnyType)
    /\ results' = results \o ReportsOfRemoved
    /\ pipe' = (pipe \/ ReportsOfRemoved # <<>>)
    /\ Await("stop", NoList)
    /\ UNCHANGED <<wpc, inJob, content, playlists, quitting, history>>

\* ... and stops the worker.
StopAtExit ==
    /\ Resumes("stop")
    /\ SetState("STOPPED")
    /\ mpc' = "join"
    /\ UNCHANGED <<wpc, inJob, channel, content, playlists, rest, target, quitting,
                   history>>

JoinWorker ==
    /\ mpc = "join" /\ wpc = "ended"
    /\ mpc' = "over"
    /\ UNCHANGED <<worker, wpc, inJob, channel, content, playlists, rest, target,
                   quitting, history>>

-----------------------------------------------------------------------------
Continue ==
    ClearedView \/ LoadView \/ ClearedPlaylist \/ ReloadPlaylist \/ ScheduleDelete

Handle == HandleAdd \/ HandleDelete \/ EndHandling

Exit == ExitAll \/ StopAtExit \/ JoinWorker

Commands ==
    \/ AddTracks
    \/ ImportPlaylist
    \/ SelectPlaylist
    \/ PlaySelected
    \/ PlayNext
    \/ RemoveSelected
    \/ LoseFile
    \/ ClearView
    \/ ClearPlaylist
    \/ DeletePlaylist
    \/ Quit

Over == mpc \in {"over", "bug"} /\ UNCHANGED vars

Next ==
    \/ WorkerSteps
    \/ WorkerWakesUp
    \/ Commands
    \/ Continue
    \/ StartWorker
    \/ BeginHandling
    \/ Handle
    \/ Exit
    \/ Over

Spec == Init /\ [][Next]_vars

\* As long as it lives the program starts the worker, and its event loop looks at job_fd in every
\* round: neither can be put off for ever by commands.  A command that waits for
\* a job, or for worker_mutex, goes on when it can.
FairSpec ==
    /\ Spec
    /\ WF_vars(WorkerSteps)
    /\ WF_vars(WorkerUnlocked /\ (RemovalWaits \/ RemovalEnds) /\ WorkerWakesUp)
    /\ SF_vars(Continue)
    /\ SF_vars(StartWorker)
    /\ SF_vars(BeginHandling)
    /\ WF_vars(Handle)
    /\ SF_vars(Exit)

-----------------------------------------------------------------------------
(* Properties. *)

IsAddResult(r) ==
    /\ r.kind = "ADD" /\ r.list \in Lists /\ r.front \in BOOLEAN
    /\ Range(r.items) \subseteq Tracks \union {EndOfLoad}
    /\ Len(r.items) \in 1 .. TI_CAP

TypeOK ==
    /\ Range(queue) \subseteq AnyJob /\ cur \in AnyJob \union {NoJob}
    /\ cancel \in BOOLEAN /\ state \in {"PAUSED", "RUNNING", "STOPPED"}
    /\ waiting \subseteq {"worker", "main"}
    /\ wpc \in {"top", "run", "notify", "done", "ended"} /\ removing \in BOOLEAN
    /\ seen \in 0 .. MaxTracks /\ ended \in BOOLEAN
    /\ Range(buffer) \subseteq Tracks \union {EndOfLoad} /\ Len(buffer) <= TI_CAP
    /\ \A i \in DOMAIN results : IsAddResult(results[i]) \/ results[i] \in DeleteResults
    /\ pipe \in BOOLEAN
    /\ \A l \in Lists : Range(content[l]) \subseteq Tracks
    /\ made \in Playlists
    /\ listed \subseteq 1 .. made /\ freed \subseteq 1 .. made
    /\ visible \in Playlists /\ marked \in Playlists /\ playing \in Playlists \union {NoList}
    /\ ptrack \in Tracks \union {NoTrack} /\ resume \in BOOLEAN
    /\ lost \subseteq Tracks
    /\ mpc \in {"loop", "remove", "handle", "join", "over", "bug"}
    /\ rest \in {"nothing", "clear", "load", "reload", "delete", "stop"}
    /\ target \in Lists \union {NoList} /\ quitting \in BOOLEAN
    /\ Range(log) \subseteq Lists /\ Len(log) <= MaxJobs
    /\ found \subseteq Tracks /\ dropped \subseteq Tracks
    /\ asked \in BOOLEAN

\* pl.c, pl_delete: "can't free the pl now because the worker thread might hold
\* a reference to it. instead free it once all running jobs are done": once a
\* playlist is freed, no job, no result and nothing on the screen refers to it, and
\* it is not freed twice.
NoUseAfterFree ==
    \A p \in freed :
        /\ p \notin listed
        /\ p \notin {visible, marked, playing}
        /\ ~HasJob({job \in AddJobs : job.list = p})
        /\ \A i \in DOMAIN queue : queue[i].list # p
        /\ \A i \in DOMAIN results : results[i].list # p

\* pl.c, the comment on pl_playing_track: "pl_playing_track != NULL implies
\* pl_playing != NULL and pl_playing_track is in pl_playing".  Taking tracks out
\* breaks it: pl_delete_selected_track looks at the selected track where the marked
\* ones are removed, pl_update_track does not look at all.
PlayingTrackIsInItsList ==
    ptrack # NoTrack => /\ playing # NoList
                        /\ ptrack \in Range(content[playing])

\* Nothing else breaks it: whatever is cleared, reloaded, deleted, freed or resumed,
\* the playing track is in the playing playlist, as long as it was not taken out by
\* itself.
PlayingTrackIsKept == ptrack \notin lost => PlayingTrackIsInItsList

\* The lists the user sees are the ones that exist.
ShownListsAreListed == visible \in listed /\ marked \in listed

\* pl_delete, pl_cancel_add_jobs: when the removal has returned, no job adds to a
\* deleted playlist.
NoJobForDeletedList ==
    ~removing => ~HasJob({job \in AddJobs : job.list \in (1 .. made) \ listed})

\* window.c, window_set_sel, BUG_ON(!win->get_next(&tmp)): what is to be selected is in
\* the window.  pl_loaded breaks it: the result that ends a load may have been on its
\* way when the playlist was deleted, and pl_cancel_add_jobs removes jobs only; if it is
\* the one to resume it is made the playing one, and is not in the list of playlists.
\* That is the only way the program gives up.
GivesUpOnlyOnDeleted == mpc = "bug" => playing \in Playlists \ listed

\* A playlist may be deleted while jobs, results and the screen refer to it: none of
\* them has it when it is freed, none shows it, no job goes on adding to it, whatever
\* playlist is resumed, and what can go wrong is that a deleted one is resumed.
ListsAreSafe ==
    NoUseAfterFree /\ ShownListsAreListed /\ NoJobForDeletedList /\ GivesUpOnlyOnDeleted

Occurrences(t, seq) == Cardinality({k \in DOMAIN seq : seq[k] = t})

\* Batches for another list than the job's do not count, a batch has at most
\* one of each track.
Places(t) ==
    LET l == log[t[1]]
    IN Occurrences(t, buffer)
       + Cardinality({i \in DOMAIN results : /\ results[i].kind = "ADD"
                                             /\ results[i].list = l
                                             /\ Occurrences(t, results[i].items) = 1})
       + Occurrences(t, content[l])
       + (IF t \in dropped THEN 1 ELSE 0)

\* job.c, the way of a track: what a job found is in exactly one place, the
\* buffer, a batch for the list the job was started for, or that list, until the
\* list is cleared or the track taken out; nothing is lost, doubled or put into
\* another list, whatever is cancelled or deleted meanwhile.  A batch that was on its
\* way when the list was cleared still arrives: view_clear and pl_clear remove jobs,
\* not results, and the model counts such a track as one of the list like any other.
EveryTrackArrivesOnce == \A t \in found : Places(t) = 1

\* The tracks of a list lie in the order of the file they come from, and of the
\* jobs that added them, the prepended ones first and the latest of these
\* foremost.
Follows(s, t) ==
    \/ s[1] = t[1] /\ s[2] < t[2]
    \/ s[1] < t[1]

TracksInOrder ==
    \A l \in Lists : \A i, k \in DOMAIN content[l] :
        i < k => \/ l # Queue /\ Follows(content[l][i], content[l][k])
                 \/ l = Queue /\ (content[l][i][1] = content[l][k][1] =>
                                    content[l][i][2] < content[l][k][2])

\* The way of every track from the file system to its list, through a buffer, a
\* batch and a queue of results.
TracksArrive == TypeOK /\ EveryTrackArrivesOnce /\ TracksInOrder

\* job_handle: as long as the program lives, a result is never left behind with
\* nobody to be told of it.
NoStrandedResult ==
    results # <<>> => pipe \/ wpc = "notify" \/ mpc = "handle" \/ ~Alive

\* job_exit: when it returns the worker has ended and no job is left.
ExitIsClean == mpc = "over" => wpc = "ended" /\ queue = <<>> /\ cur = NoJob

\* No result waits for a signal nobody sends, and no job for a thread that ended.
NothingIsLeftBehind == NoStrandedResult /\ ExitIsClean

-----------------------------------------------------------------------------
(* Liveness. *)

\* worker_remove_jobs_by_cb returns.
RemovalReturns == removing ~> ~removing

\* A track that was found is shown, or dropped with its list, unless the program
\* ends or gives up first.
TracksAreShown ==
    \A t \in Tracks :
        t \in found ~> \/ t \in dropped \/ quitting \/ ~Alive
                       \/ \E l \in Lists : t \in Range(content[l])

\* A deleted playlist is freed unless the program ends or gives up first.
DeletedIsFreed ==
    \A p \in Playlists : p <= made /\ p \notin listed ~> p \in freed \/ quitting \/ ~Alive

\* :quit ends the program, in order or at a BUG_ON.
QuitEnds == quitting ~> mpc = "over" \/ ~Alive

\* Whatever is queued, the worker comes to the deletion, and the program to its end.
WorkEnds == DeletedIsFreed /\ QuitEnds

=============================================================================
