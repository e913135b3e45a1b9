----------------------------- MODULE PlayerState -----------------------------
(***************************************************************************)
(* The part of core/player.c that runs with the player locks held: the     *)
(* helpers that change the producer and the consumer status, and the       *)
(* commands built from them.  Each is an operator from the state s before  *)
(* the call to the SET of states the call can end in; the choices are the  *)
(* ones the input and output plugins make (a file that cannot be opened, a *)
(* device that refuses a format, a stream that cannot seek).  Names follow *)
(* the code, without the leading underscore.                               *)
(*                                                                         *)
(* A state is a record:                                                    *)
(*   ps, cs   producer_status, consumer_status                             *)
(*   ip       the input the pointer ip leads to: none (never set), closed, *)
(*            open, freed (ip_delete leaves the pointer dangling)          *)
(*   eof, remote, fmt   ip->eof, ip->data.remote, ip->data.sf              *)
(*   bufsf    buffer_sf, the format of the bytes in the ring               *)
(*   fast     playback_speed # 1.0                                         *)
(*   dev      the output device: closed, running, paused                   *)
(*   devsf    the format and the speed the device was opened with          *)
(*   n, part  filled chunks of the ring; data in the chunk being filled    *)
(*   stale    the ring holds bytes from before the input was moved         *)
(*   ti       player_info_priv.ti # NULL                                   *)
(*   shown    player_info_priv.status                                      *)
(*   sigP, sigC   producer_playing, consumer_playing broadcast meanwhile   *)
(*   failed   the BUG_ON that fired, "" if none                            *)
(***************************************************************************)
EXTENDS Integers

CONSTANTS
    Formats,    \* sample formats of files
    NrChunks,   \* buffer_nr_chunks
    PrebufferChunks, \* per format: chunks that hold 250 ms of it, at least one
    Continue,   \* values player_cont takes during the run
    Repeat      \* values player_repeat_current takes during the run

ASSUME FormatsAssumption == Formats # {}
ASSUME NrChunksAssumption == NrChunks \in Nat \ {0}
ASSUME PrebufferAssumption == PrebufferChunks \in [Formats -> Nat \ {0}]
ASSUME OptionsAssumption == Continue \subseteq BOOLEAN /\ Repeat \subseteq BOOLEAN

Tracks == [remote : BOOLEAN, fmt : Formats]

PStatus == {"UNLOADED", "STOPPED", "PLAYING", "PAUSED"}
CStatus == {"STOPPED", "PLAYING", "PAUSED"}
Bugs == {"", "ip_open: open", "ip_get_sf: !open", "ip_eof: !open",
         "_prebuffer: !playing", "ip_read: count <= 0", "buffer_consume: !filled",
         "metadata_changed: ti == NULL"}

PlayerStates ==
    [ps : PStatus, cs : CStatus,
     ip : {"none", "closed", "open", "freed"},
     eof : BOOLEAN, remote : BOOLEAN, fmt : Formats, bufsf : Formats,
     fast : BOOLEAN,
     dev : {"closed", "running", "paused"},
     devsf : Formats \X BOOLEAN,
     n : 0 .. NrChunks, part : BOOLEAN, stale : BOOLEAN,
     ti : BOOLEAN, shown : CStatus,
     sigP : BOOLEAN, sigC : BOOLEAN, failed : Bugs]

-----------------------------------------------------------------------------
(* Assertions: _debug_bug ends the program, the first one counts. *)

Bug(s, what) == IF s.failed = "" THEN [s EXCEPT !.failed = what] ELSE s
BugOn(cond, s, what) == IF cond THEN Bug(s, what) ELSE s

-----------------------------------------------------------------------------
(* core/input.c, as far as the player sees it. *)

\* The input moved: what the ring holds was decoded at the old position.
Moved(s) == [s EXCEPT !.stale = s.stale \/ s.n > 0 \/ s.part]

ip_new(s, t) ==
    [s EXCEPT !.ip = "closed", !.eof = FALSE, !.remote = t.remote, !.fmt = t.fmt]

ip_delete(s) == [s EXCEPT !.ip = "freed"]

\* on failure ip_reset leaves a closed input
ip_open(s) ==
    LET t == BugOn(s.ip = "open", s, "ip_open: open")
    IN  {t, [t EXCEPT !.ip = "open"]}

ip_close(s) == Moved([s EXCEPT !.ip = "closed", !.eof = FALSE])

SeekOk(s) == Moved([s EXCEPT !.eof = FALSE])

-----------------------------------------------------------------------------
(* The ring and the published status. *)

\* without the broadcast: buffer_reset alone
ResetQuietly(s) == [s EXCEPT !.n = 0, !.part = FALSE, !.stale = FALSE]
reset_buffer(s) ==
    [s EXCEPT !.n = 0, !.part = FALSE, !.stale = FALSE, !.sigP = TRUE]

\* set_buffer_sf: the ring now holds bytes in the input's format
set_buffer_sf(s) ==
    LET t == BugOn(s.ip # "open", s, "ip_get_sf: !open")
    IN  [t EXCEPT !.bufsf = s.fmt]

file_changed(s, loaded) == [s EXCEPT !.ti = loaded]
player_error(s) == [s EXCEPT !.shown = s.cs]
player_status_changed(s) == [s EXCEPT !.shown = s.cs]

\* op_open(get_output_sf()), succeeding
op_opened(s) == [s EXCEPT !.dev = "running", !.devsf = <<s.bufsf, s.fast>>]
op_close(s) == [s EXCEPT !.dev = "closed"]

producer_status_update(s, status) == [s EXCEPT !.ps = status, !.sigP = TRUE]
consumer_status_update(s, status) == [s EXCEPT !.cs = status, !.sigC = TRUE]

-----------------------------------------------------------------------------
(* prebuffer: read until the limit is reached or the input ends.  Both     *)
(* locks are held, so it is one step.  A read that ends the input flushes   *)
(* the partial chunk; a limit above the size of the ring makes the loop     *)
(* ask ip_read for 0 bytes.                                                 *)

PrebufferLimit(s) == IF s.remote THEN NrChunks ELSE PrebufferChunks[s.bufsf]

\* Chunks the ring can hold when the end of the input stops the loop at limit.
FilledAtEof(s, limit) ==
    (IF s.part THEN s.n + 1 ELSE s.n) .. (IF limit < NrChunks THEN limit ELSE NrChunks)

prebuffer(s0) ==
    LET s == BugOn(~s0.ti, BugOn(s0.ps # "PLAYING", s0, "_prebuffer: !playing"),
                   "metadata_changed: ti == NULL")
        limit == PrebufferLimit(s)
        eof == {[s EXCEPT !.n = k, !.part = FALSE, !.eof = TRUE] :
                   k \in FilledAtEof(s, limit)}
        error == {player_error(t) : t \in eof}
        full == IF limit <= NrChunks
                   THEN {[s EXCEPT !.n = limit, !.part = FALSE]}
                   ELSE {Bug([s EXCEPT !.n = NrChunks, !.part = FALSE],
                             "ip_read: count <= 0")}
    IN  IF s.n >= limit THEN {s}
        ELSE IF s.n = NrChunks THEN {Bug(s, "ip_read: count <= 0")}
        ELSE eof \cup error \cup full

-----------------------------------------------------------------------------
(* Producer status. *)

\* termus_get_next_track on the main thread and ip_open for what it returned
PlayFirstTrack(s, t) ==
    LET opened(u) == IF u.ip = "open"
                     THEN file_changed(producer_status_update(u, "PLAYING"), TRUE)
                     ELSE file_changed(ip_delete(player_error(u)), FALSE)
    IN  {opened(u) : u \in ip_open(ip_new(s, t))}

PlayStoppedTrack(s) ==
    LET opened(u) == IF u.ip = "open"
                     THEN producer_status_update(u, "PLAYING")
                     ELSE producer_status_update(ip_delete(player_error(u)), "UNLOADED")
    IN  {opened(u) : u \in ip_open(s)}

\* faulty: the ring is kept
RestartNoReset(s) == {s} \cup (IF s.remote THEN {} ELSE {SeekOk(s)})
Restart(s) == {s} \cup (IF s.remote THEN {} ELSE {reset_buffer(SeekOk(s))})

producer_play(s) ==
    CASE s.ps = "UNLOADED" -> {s} \cup UNION {PlayFirstTrack(s, t) : t \in Tracks}
      [] s.ps = "PLAYING"  -> Restart(s)
      [] s.ps = "STOPPED"  -> PlayStoppedTrack(s)
      [] s.ps = "PAUSED"   -> {producer_status_update(s, "PLAYING")}

producer_stop(s) ==
    IF s.ps \in {"PLAYING", "PAUSED"}
    THEN reset_buffer(producer_status_update(ip_close(s), "STOPPED"))
    ELSE s

producer_unload(s) ==
    LET t == producer_stop(s)
    IN  IF t.ps = "STOPPED" THEN producer_status_update(ip_delete(t), "UNLOADED") ELSE t

producer_pause(s) ==
    CASE s.ps = "PLAYING" -> producer_status_update(s, "PAUSED")
      [] s.ps = "PAUSED"  -> producer_status_update(s, "PLAYING")
      [] OTHER            -> s

producer_set_file(s, t) ==
    file_changed(producer_status_update(ip_new(producer_unload(s), t), "STOPPED"), TRUE)

-----------------------------------------------------------------------------
(* Consumer status. *)

consumer_play(s) ==
    CASE s.cs = "PLAYING" -> {s}
      [] s.cs = "STOPPED" ->
            LET t == set_buffer_sf(s)
            IN  {player_error(t), consumer_status_update(op_opened(t), "PLAYING")}
      [] s.cs = "PAUSED"  ->
            {consumer_status_update([s EXCEPT !.dev = "running"], "PLAYING")}

\* consumer_stop drops what the device still holds, consumer_drain_and_stop
\* lets it play; the player's own state is the same after both.
consumer_stop(s) ==
    IF s.cs = "STOPPED" THEN s ELSE consumer_status_update(op_close(s), "STOPPED")

consumer_pause(s) ==
    CASE s.cs = "PLAYING" -> consumer_status_update([s EXCEPT !.dev = "paused"], "PAUSED")
      [] s.cs = "PAUSED"  -> consumer_status_update([s EXCEPT !.dev = "running"], "PLAYING")
      [] OTHER            -> s

\* change_sf: the device follows the format of the new track.  Faulty: it stays.
ChangeSfNeverReopen(s) ==
    {consumer_status_update([set_buffer_sf(s) EXCEPT !.dev = "running"], "PLAYING")}
change_sf(s) ==
    LET t == set_buffer_sf(s)
    IN  IF t.bufsf # s.bufsf
        THEN {producer_stop(consumer_status_update(player_error(op_close(t)), "STOPPED")),
              consumer_status_update(op_opened(t), "PLAYING")}
        ELSE {consumer_status_update([t EXCEPT !.dev = "running"], "PLAYING")}

-----------------------------------------------------------------------------
(* The commands of the main thread, between player_lock and player_unlock. *)

\* _player_status_changed, and prebuffer if cond
Publish(s, cond) ==
    LET t == player_status_changed(s) IN IF cond THEN prebuffer(t) ELSE {t}

player_stop(s) == {player_status_changed(producer_stop(consumer_stop(s)))}

\* start the device for a playing producer, or give the producer up again
StartConsumer(s) ==
    {IF t.cs = "PLAYING" THEN t ELSE producer_stop(t) : t \in consumer_play(s)}

player_play(s) ==
    IF s.ps = "PLAYING" /\ s.remote THEN {s}
    ELSE LET begun == UNION {IF t.ps = "PLAYING" THEN StartConsumer(t)
                                                 ELSE {consumer_stop(t)} :
                             t \in producer_play(s)}
         IN  UNION {Publish(t, t.cs = "PLAYING" /\ s.cs = "STOPPED") : t \in begun}

player_pause(s) ==
    IF s.cs = "STOPPED"
    THEN LET begun == UNION {IF t.ps = "PLAYING" THEN StartConsumer(t) ELSE {t} :
                             t \in producer_play(s)}
         IN  UNION {Publish(t, t.cs = "PLAYING") : t \in begun}
    ELSE {player_status_changed(consumer_pause(producer_pause(s)))}

player_set_file(s, track) ==
    LET loaded == producer_set_file(s, track)
        begun == IF loaded.cs = "STOPPED" THEN {loaded}
                 ELSE UNION {IF t.ps = "UNLOADED" THEN {consumer_stop(t)} ELSE change_sf(t) :
                             t \in producer_play(loaded)}
    IN  UNION {Publish(t, t.ps = "PLAYING") : t \in begun}

player_play_file(s, track) ==
    LET begun == UNION {IF t.ps = "UNLOADED" THEN {consumer_stop(t)}
                        ELSE IF t.cs = "STOPPED" THEN StartConsumer(t)
                        ELSE change_sf(t) :
                        t \in producer_play(producer_set_file(s, track))}
    IN  UNION {Publish(t, t.ps = "PLAYING") : t \in begun}

\* player_seek on a stopped player: start it first.
SeekStart(s) ==
    IF s.cs # "STOPPED" THEN {s}
    ELSE UNION {IF t.ps # "PLAYING" THEN {t}
                ELSE {IF u.cs = "PLAYING" THEN player_status_changed(u)
                                          ELSE producer_stop(u) : u \in consumer_play(t)} :
                t \in producer_play(s)}

\* The seek itself: a stream without a duration and a position out of range
\* leave the state alone, the plugin may fail, and a player that was stopped is
\* left paused (no caller sets start_playing).
\* Faulty: only the decoder is paused.
SeekToHalfPaused(s, wasStopped) ==
    LET moved == reset_buffer(SeekOk(s))
    IN  IF s.cs = "STOPPED" \/ s.remote THEN {s}
        ELSE {s, player_error(s),
              IF wasStopped THEN player_status_changed(producer_pause(moved)) ELSE moved}
SeekTo(s, wasStopped) ==
    LET moved == reset_buffer(SeekOk(s))
    IN  IF s.cs = "STOPPED" \/ s.remote THEN {s}
        ELSE {s, player_error(s),
              IF wasStopped
              THEN player_status_changed(consumer_pause(producer_pause(moved)))
              ELSE moved}

player_seek(s) == UNION {SeekTo(t, s.cs = "STOPPED") : t \in SeekStart(s)}

\* A seek past the end: the locks are released and termus_next follows.
SeekPastEnd(s) == {t \in SeekStart(s) : t.cs # "STOPPED" /\ ~t.remote}

\* player_set_op after startup: the plugin is unknown or fails to initialize,
\* or the device is opened again on it in the same status.
player_set_op(s) ==
    LET wasOpen == s.cs # "STOPPED"
        closed == IF wasOpen THEN op_close(s) ELSE s
        given_up(t) == player_error(producer_stop(consumer_status_update(t, "STOPPED")))
        t == set_buffer_sf(closed)
        reopened == IF s.cs = "PAUSED" THEN [op_opened(t) EXCEPT !.dev = "paused"]
                                       ELSE op_opened(t)
    IN  {given_up(closed)} \cup (IF wasOpen THEN {given_up(t), reopened} ELSE {closed})

player_set_buffer_chunks(s) ==
    {player_status_changed(ResetQuietly(consumer_stop(producer_stop(s))))}

player_reopen_complete(s, wasPaused) ==
    IF wasPaused THEN consumer_status_update([s EXCEPT !.dev = "paused"], "PAUSED")
                 ELSE consumer_status_update(s, "PLAYING")

\* The device refused the new speed: back to the old one, or give up.  The
\* error is reported after the first and before the second.
SpeedRefused(s, old, wasPaused) ==
    LET back == [s EXCEPT !.fast = old]
    IN  {player_error(player_reopen_complete(op_opened(back), wasPaused)),
         producer_stop(consumer_status_update(player_error(back), "STOPPED"))}

player_set_speed(s, speed) ==
    IF s.fast = speed THEN {s}
    ELSE LET t == [s EXCEPT !.fast = speed]
             closed == op_close(t)
             wasPaused == s.cs = "PAUSED"
         IN  IF s.cs = "STOPPED" THEN {t}
             ELSE {player_reopen_complete(op_opened(closed), wasPaused)}
                  \cup SpeedRefused(closed, s.fast, wasPaused)

-----------------------------------------------------------------------------
(* One round of producer_loop and of consumer_loop. *)

\* ip_read, metadata_changed and buffer_fill: the chunk is filled, or not yet.
ReadData(s0) ==
    LET s == BugOn(~s0.ti, s0, "metadata_changed: ti == NULL")
    IN  {[s EXCEPT !.part = TRUE], [s EXCEPT !.part = FALSE, !.n = s.n + 1]}

\* The input ended or failed: the chunk is filled with what it has.
ReadEof(s0) ==
    LET s == BugOn(~s0.ti, s0, "metadata_changed: ti == NULL")
        t == [s EXCEPT !.eof = TRUE, !.part = FALSE, !.n = IF s.part THEN s.n + 1 ELSE s.n]
    IN  {t, player_error(t)}

\* op_write took all or some of the first chunk: buffer_consume
WriteConsumed(s) ==
    IF s.n = 0 THEN {Bug(s, "buffer_consume: !filled")}
               ELSE {s, [s EXCEPT !.n = s.n - 1]}

\* The device is gone: open it again, at the normal speed after a failed write.
ReopenDevice(s) == consumer_play(consumer_status_update(op_close(s), "STOPPED"))
WriteFailed(s) == ReopenDevice([s EXCEPT !.fast = FALSE])

-----------------------------------------------------------------------------
(* consumer_handle_eof, on the consumer thread with both locks held. *)

\* faulty: the status is published too early
EofLostConnectionEarly(s) == consumer_stop(producer_stop(player_error(s)))
EofLostConnection(s) == player_error(consumer_stop(producer_stop(s)))

\* player_repeat_current; the result of ip_seek is not looked at
EofRepeat(s, cont) ==
    IF cont THEN {reset_buffer(s), reset_buffer(SeekOk(s))}
            ELSE {consumer_stop(producer_stop(s))}

\* A stream that ended, or a track to repeat: no next track is asked for.
EofWithoutRequest(s, cont) ==
    IF s.remote THEN {EofLostConnection(s)}
    ELSE {player_status_changed(t) : t \in EofRepeat(s, cont)}

EofNoTrack(s) ==
    {player_status_changed(file_changed(consumer_stop(producer_unload(s)), FALSE))}

\* goOn: player_cont, and the next track may follow on this one (continue_album)
EofNextTrack(s, track, goOn) ==
    LET loaded == producer_status_update(ip_new(producer_unload(s), track), "STOPPED")
        follow(t) ==
            IF t.ps = "UNLOADED" THEN {file_changed(consumer_stop(t), FALSE)}
            ELSE UNION {IF u.ps = "PLAYING" THEN prebuffer(u) ELSE {u} :
                        u \in change_sf(file_changed(t, TRUE))}
        after == IF goOn THEN UNION {follow(t) : t \in producer_play(loaded)}
                 ELSE {file_changed(consumer_stop(loaded), TRUE)}
    IN  {player_status_changed(t) : t \in after}
==============================================================================
