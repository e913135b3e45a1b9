------------------------------- MODULE Player -------------------------------
(***************************************************************************)
(* The three threads of core/player.c and their two locks:                 *)
(*                                                                         *)
(*   main      runs the user's commands under player_lock (the consumer    *)
(*             lock, then the producer lock), and provides the next track  *)
(*             when its event loop finds a request                         *)
(*   producer  producer_loop: decodes into the ring under the producer lock*)
(*   consumer  consumer_loop: feeds the device under the consumer lock,    *)
(*             takes the producer lock too when the ring is empty, and asks *)
(*             the main thread for the next track at the end of the input  *)
(*                                                                         *)
(* What a thread does between taking and releasing its locks is split into  *)
(* steps only where another thread can come between: the producer fills    *)
(* the ring while the consumer, with its own lock, empties it, and the     *)
(* consumer waits for a lock or for the main thread with a lock in hand.   *)
(* The bytes in the ring are module PcmBuffer's, here it is a counter.     *)
(*                                                                         *)
(* Definitions marked "faulty" are not part of the model, see PcmBuffer.    *)
(***************************************************************************)
EXTENDS PlayerState

CONSTANT Commands  \* the commands the user may give

AllCommands == {"stop", "play", "pause", "pausePlayback", "setFile", "playFile",
                "seek", "setOp", "setBufferChunks", "setSpeed", "exit"}

ASSUME CommandsAssumption == Commands \subseteq AllCommands

VARIABLES
    pl,      \* the state the locks protect, see PlayerState
    lockC,   \* consumer_mutex: free, main, consumer
    lockP,   \* producer_mutex: free, main, producer, consumer
    mpc,     \* main: idle, check, wantC, wantP, joinC, joinP, exited
    mop,     \* the command in hand, "" if none
    pcP,     \* producer: top, fill, asleep, done
    second,  \* producer: i = 1 in the inner loop
    pcC,     \* consumer: top, rpos, wantP, await, write, asleep, done
    running, \* producer_running and consumer_running
    request, \* a byte in the pipe of termus_next_track_request_fd
    answer   \* termus_next_file: none (not provided), noTrack, track

locks == <<lockC, lockP>>
main == <<mpc, mop>>
channel == <<request, answer>>
vars == <<pl, locks, main, pcP, second, pcC, running, channel>>

Init ==
    /\ pl \in [ps : {"UNLOADED"}, cs : {"STOPPED"}, ip : {"none"},
               eof : {FALSE}, remote : {FALSE}, fmt : Formats, bufsf : Formats,
               fast : {FALSE}, dev : {"closed"}, devsf : Formats \X {FALSE},
               n : {0}, part : {FALSE}, stale : {FALSE}, ti : {FALSE},
               shown : {"STOPPED"}, sigP : {FALSE}, sigC : {FALSE}, failed : {""}]
    /\ pl.fmt = pl.bufsf /\ pl.devsf[1] = pl.bufsf
    /\ lockC = "free" /\ lockP = "free"
    /\ mpc = "idle" /\ mop = ""
    /\ pcP = "top" /\ second = FALSE
    /\ pcC = "top"
    /\ running = TRUE
    /\ request = FALSE /\ answer = "none"

-----------------------------------------------------------------------------
(* The player's state becomes s, and what s signalled wakes the sleepers. *)

Alive == pl.failed = ""

Woken(pc, signalled) == IF signalled /\ pc = "asleep" THEN "top" ELSE pc
Store(s) == pl' = [s EXCEPT !.sigP = FALSE, !.sigC = FALSE]
WakeProducer(s) == pcP' = Woken(pcP, s.sigP)
WakeConsumer(s) == pcC' = Woken(pcC, s.sigC)

-----------------------------------------------------------------------------
(* The main thread. *)

\* ip_is_remote(ip) without a lock; ip is NULL until the first file, and may
\* point to freed memory later.
RemoteAsRead == CASE pl.ip = "none"  -> {FALSE}
                  [] pl.ip = "freed" -> BOOLEAN
                  [] OTHER           -> {pl.remote}

\* player_pause looks at the input before it takes the locks.
BeginPause(c) ==
    \E remote \in RemoteAsRead :
        /\ mpc' = IF remote THEN "check" ELSE "wantC"
        /\ mop' = c

\* player_pause_playback looks at consumer_status before it calls player_pause.
BeginPausePlayback == pl.cs = "PLAYING" /\ BeginPause("pausePlayback")

BeginCommand(c) ==
    /\ Alive /\ mpc = "idle"
    /\ CASE c = "pause"         -> BeginPause(c)
         [] c = "pausePlayback" -> BeginPausePlayback
         [] OTHER               -> mpc' = "wantC" /\ mop' = c
    /\ UNCHANGED <<pl, locks, pcP, second, pcC, running, channel>>

\* A playing stream is stopped instead of paused.
CheckPlaying ==
    /\ Alive /\ mpc = "check"
    /\ mpc' = "wantC"
    /\ mop' = IF pl.cs = "PLAYING" THEN "stop" ELSE mop
    /\ UNCHANGED <<pl, locks, pcP, second, pcC, running, channel>>

\* player_lock: the consumer lock first
MainLockConsumer ==
    /\ Alive /\ mpc = "wantC" /\ lockC = "free"
    /\ lockC' = "main"
    /\ mpc' = "wantP"
    /\ UNCHANGED <<pl, lockP, mop, pcP, second, pcC, running, channel>>

\* With both locks the command runs to one of its results and lets them go.
Executes(c, results) ==
    /\ Alive /\ mpc = "wantP" /\ mop = c /\ lockP = "free"
    /\ \E s \in results : Store(s) /\ WakeProducer(s) /\ WakeConsumer(s)
    /\ lockC' = "free"
    /\ UNCHANGED <<lockP, second, running, channel>>

Returns == mpc' = "idle" /\ mop' = ""

Stop == Executes("stop", player_stop(pl)) /\ Returns
Play == Executes("play", player_play(pl)) /\ Returns
Pause == Executes("pause", player_pause(pl)) /\ Returns
PausePlayback == Executes("pausePlayback", player_pause(pl)) /\ Returns
SetFile == Executes("setFile", UNION {player_set_file(pl, t) : t \in Tracks}) /\ Returns
PlayFile == Executes("playFile", UNION {player_play_file(pl, t) : t \in Tracks}) /\ Returns
Seek == Executes("seek", player_seek(pl)) /\ Returns
SetOp == Executes("setOp", player_set_op(pl)) /\ Returns
SetBufferChunks == Executes("setBufferChunks", player_set_buffer_chunks(pl)) /\ Returns
SetSpeed == Executes("setSpeed", UNION {player_set_speed(pl, v) : v \in BOOLEAN}) /\ Returns

\* termus_next after a seek past the end, if there is a next track
SeekOver ==
    /\ Executes("seek", SeekPastEnd(pl))
    /\ mpc' = "wantC" /\ mop' = "setFile"

\* player_exit
ExitSilently(s) == s  \* faulty: nobody is told
ExitSignalled(s) == [s EXCEPT !.sigP = TRUE, !.sigC = TRUE]
Exit ==
    /\ Alive /\ mpc = "wantP" /\ mop = "exit" /\ lockP = "free"
    /\ LET s == ExitSignalled(pl) IN Store(s) /\ WakeProducer(s) /\ WakeConsumer(s)
    /\ running' = FALSE
    /\ lockC' = "free"
    /\ mpc' = "joinC"
    /\ UNCHANGED <<lockP, mop, second, channel>>

JoinConsumer ==
    /\ Alive /\ mpc = "joinC" /\ pcC = "done"
    /\ mpc' = "joinP"
    /\ UNCHANGED <<pl, locks, mop, pcP, second, pcC, running, channel>>

JoinProducer ==
    /\ Alive /\ mpc = "joinP" /\ pcP = "done"
    /\ mpc' = "exited"
    /\ UNCHANGED <<pl, locks, mop, pcP, second, pcC, running, channel>>

\* termus_provide_next_track, from the event loop
ProvideNextTrack ==
    /\ Alive /\ mpc = "idle" /\ request
    /\ request' = FALSE
    /\ answer' \in {"noTrack", "track"}
    /\ UNCHANGED <<pl, locks, main, pcP, second, pcC, running>>

MainSteps ==
    \/ CheckPlaying \/ MainLockConsumer
    \/ Stop \/ Play \/ Pause \/ PausePlayback \/ SetFile \/ PlayFile
    \/ Seek \/ SeekOver \/ SetOp \/ SetBufferChunks \/ SetSpeed
    \/ Exit \/ JoinConsumer \/ JoinProducer
    \/ ProvideNextTrack

-----------------------------------------------------------------------------
(* The producer thread. *)

ProducerEnter(pc, lock, s) ==
    /\ Alive /\ pcP = "top" /\ lockP = "free"
    /\ pcP' = pc
    /\ lockP' = lock
    /\ second' = FALSE
    /\ Store(s)
    /\ WakeConsumer(s)
    /\ UNCHANGED <<lockC, main, running, channel>>

\* producer_running is 0: unload, and the thread ends.
ProducerExitLoaded == ~running /\ ProducerEnter("done", "free", pl)  \* faulty: keeps the input
ProducerExit == ~running /\ ProducerEnter("done", "free", producer_unload(pl))

NothingToDecode == pl.ps # "PLAYING" \/ pl.eof

\* pthread_cond_wait gives the lock up and takes it again when it returns, but
\* only to unlock it.
ProducerSleep == running /\ NothingToDecode /\ ProducerEnter("asleep", "free", pl)

ProducerWork ==
    /\ running /\ ~NothingToDecode
    /\ ProducerEnter("fill", "producer", BugOn(pl.ip # "open", pl, "ip_eof: !open"))

\* A round of the inner loop; it ends with the lock released, or goes on.
ProducerRound(results, goOn) ==
    /\ Alive /\ pcP = "fill"
    /\ \E s \in results : Store(s) /\ WakeConsumer(s)
    /\ pcP' = IF goOn THEN "fill" ELSE "top"
    /\ lockP' = IF goOn THEN "producer" ELSE "free"
    /\ second' = goOn
    /\ UNCHANGED <<lockC, main, running, channel>>

\* buffer_get_wpos finds no room: buffer_wait_drain, or ip_read has nothing yet
ProducerFull == pl.n = NrChunks /\ ProducerRound({pl}, FALSE)
ProducerAgain == pl.n < NrChunks /\ ProducerRound({pl}, FALSE)
\* faulty: decodes without room
ProducerReadDataAlways == ProducerRound(ReadData(pl), ~second)
ProducerReadData == pl.n < NrChunks /\ ProducerRound(ReadData(pl), ~second)
ProducerReadEof == pl.n < NrChunks /\ ProducerRound(ReadEof(pl), FALSE)

ProducerSteps ==
    \/ ProducerExit \/ ProducerSleep \/ ProducerWork
    \/ ProducerFull \/ ProducerAgain \/ ProducerReadData \/ ProducerReadEof

-----------------------------------------------------------------------------
(* The consumer thread. *)

ConsumerEnter(pc, lock, results) ==
    /\ Alive /\ pcC = "top" /\ lockC = "free"
    /\ pcC' = pc
    /\ lockC' = lock
    /\ \E s \in results : Store(s) /\ WakeProducer(s)
    /\ UNCHANGED <<lockP, main, second, running, channel>>

ConsumerExit == ~running /\ ConsumerEnter("done", "free", {consumer_stop(pl)})

ConsumerSleep ==
    running /\ pl.cs # "PLAYING" /\ ConsumerEnter("asleep", "free", {pl})

\* op_buffer_space is negative: the device went away.
ConsumerReopen ==
    running /\ pl.cs = "PLAYING" /\ ConsumerEnter("top", "free", ReopenDevice(pl))

ConsumerWork ==
    running /\ pl.cs = "PLAYING" /\ ConsumerEnter("rpos", "consumer", {pl})

\* The rest of a round runs with the consumer lock; leaving it frees both.
ConsumerRound(pc, next, results) ==
    /\ Alive /\ pcC = pc
    /\ pcC' = next
    /\ lockC' = IF next = "top" THEN "free" ELSE lockC
    /\ \E s \in results : Store(s) /\ WakeProducer(s)
    /\ UNCHANGED <<main, second, running>>

\* space = 0: a timed wait on consumer_playing, the lock released
ConsumerFull == ConsumerRound("rpos", "top", {pl}) /\ UNCHANGED <<lockP, channel>>

\* faulty: writes without looking at the size
ConsumerReadUnchecked ==
    ConsumerRound("rpos", "write", {pl}) /\ UNCHANGED <<lockP, channel>>
ConsumerRead ==
    /\ ConsumerRound("rpos", IF pl.n > 0 THEN "write" ELSE "wantP", {pl})
    /\ UNCHANGED <<lockP, channel>>

\* With the producer lock: recheck its status, the ring, then the end of input.
Recheck(next, results) == lockP = "free" /\ ConsumerRound("wantP", next, results)

RecheckFilled ==
    /\ pl.ps = "PLAYING" /\ pl.n > 0
    /\ Recheck("write", {pl})
    /\ UNCHANGED <<lockP, channel>>

\* faulty: the ring is not looked at again
AtEofUnchecked == pl.ps = "PLAYING" /\ pl.eof
AtEof == pl.ps = "PLAYING" /\ pl.n = 0 /\ pl.eof

\* The producer is not playing, which no run comes to, or an underrun:
\* buffer_wait_fill without the locks.  Faulty: at the end of the input, too.
NotPlayingOrEmpty(s) ==
    IF s.ps # "PLAYING" THEN s ELSE BugOn(s.ip # "open", s, "ip_eof: !open")
RecheckUnderrunAtEof ==
    /\ pl.ps = "PLAYING" => pl.n = 0
    /\ Recheck("top", {NotPlayingOrEmpty(pl)})
    /\ UNCHANGED <<lockP, channel>>
RecheckUnderrun ==
    /\ pl.ps = "PLAYING" => pl.n = 0 /\ ~pl.eof
    /\ Recheck("top", {NotPlayingOrEmpty(pl)})
    /\ UNCHANGED <<lockP, channel>>

\* consumer_handle_eof: a stream, or repeat_current
HandleEof ==
    /\ AtEof
    /\ pl.remote \/ TRUE \in Repeat
    /\ \E cont \in Continue : Recheck("top", EofWithoutRequest(pl, cont))
    /\ UNCHANGED <<lockP, channel>>

\* consumer_handle_eof: termus_get_next_track waits with both locks held.
RequestNextTrack ==
    /\ AtEof
    /\ ~pl.remote /\ FALSE \in Repeat
    /\ Recheck("await", {pl})
    /\ lockP' = "consumer"
    /\ request' = TRUE
    /\ UNCHANGED answer

TakeNextTrack ==
    /\ answer # "none"
    /\ ConsumerRound("await", "top",
           IF answer = "noTrack" THEN EofNoTrack(pl)
           ELSE UNION {UNION {EofNextTrack(pl, t, on) : on \in {FALSE} \cup Continue} :
                           t \in Tracks})
    /\ lockP' = "free"
    /\ answer' = "none"
    /\ UNCHANGED request

ConsumerWrite ==
    ConsumerRound("write", "rpos", WriteConsumed(pl)) /\ UNCHANGED <<lockP, channel>>

ConsumerWriteFails ==
    ConsumerRound("write", "top", WriteFailed(pl)) /\ UNCHANGED <<lockP, channel>>

ConsumerSteps ==
    \/ ConsumerExit \/ ConsumerSleep \/ ConsumerReopen \/ ConsumerWork
    \/ ConsumerFull \/ ConsumerRead
    \/ RecheckFilled \/ RecheckUnderrun
    \/ HandleEof \/ RequestNextTrack \/ TakeNextTrack
    \/ ConsumerWrite \/ ConsumerWriteFails

-----------------------------------------------------------------------------

\* pthread_cond_wait may return without a signal.
SpuriousWakeup ==
    /\ Alive
    /\ \/ pcP = "asleep" /\ pcP' = "top" /\ UNCHANGED pcC
       \/ pcC = "asleep" /\ pcC' = "top" /\ UNCHANGED pcP
    /\ UNCHANGED <<pl, locks, main, second, running, channel>>

Next ==
    \/ SpuriousWakeup
    \/ \E c \in Commands : BeginCommand(c)
    \/ MainSteps
    \/ ProducerSteps
    \/ ConsumerSteps

Spec == Init /\ [][Next]_vars

(***************************************************************************)
(* Fairness.  Each thread is scheduled; a thread that keeps asking for a   *)
(* lock gets it, which POSIX does not promise but every lock of the        *)
(* program relies on.  The event loop serves its pipes.  The device's      *)
(* space runs out, which ends the consumer's inner loop, and comes back,   *)
(* so a chunk that is being written is written in the end; a decoder that  *)
(* keeps reading finds data or the end.                                    *)
(***************************************************************************)
ConsumerFinishesChunk == ConsumerWrite /\ (pl'.n < pl.n \/ pl'.failed # "")
ProducerFindsData == (ProducerReadData /\ pl'.n > pl.n) \/ ProducerReadEof

Fairness ==
    /\ WF_vars(CheckPlaying) /\ SF_vars(MainLockConsumer)
    /\ SF_vars(MainSteps)
    /\ SF_vars(ProducerSteps)
    /\ SF_vars(ConsumerSteps)
    /\ SF_vars(ConsumerFull) /\ SF_vars(ConsumerRead)
    /\ SF_vars(RecheckFilled \/ RecheckUnderrun \/ HandleEof \/ RequestNextTrack)
    /\ SF_vars(ConsumerFinishesChunk)
    /\ SF_vars(ProducerFindsData)

FairSpec == Spec /\ Fairness

-----------------------------------------------------------------------------
(* Properties. *)

\* The types of the variables.
TypeOK ==
    /\ pl \in PlayerStates
    /\ ~pl.sigP /\ ~pl.sigC
    /\ lockC \in {"free", "main", "consumer"}
    /\ lockP \in {"free", "main", "producer", "consumer"}
    /\ mpc \in {"idle", "check", "wantC", "wantP", "joinC", "joinP", "exited"}
    /\ mop \in AllCommands \cup {""}
    /\ pcP \in {"top", "fill", "asleep", "done"}
    /\ second \in BOOLEAN
    /\ pcC \in {"top", "rpos", "wantP", "await", "write", "asleep", "done"}
    /\ running \in BOOLEAN
    /\ request \in BOOLEAN
    /\ answer \in {"none", "noTrack", "track"}

\* The two status variables, the input and the device change in a dozen places,
\* each of which may fail half way.  Whatever a command, an end of file or a
\* lost device did, they fit together when its locks are released: the device
\* is open exactly when the consumer has a status other than stopped and the
\* input exactly when the producer has one, and the only disagreement between
\* the two threads is a decoder that goes on when the device could not be
\* opened again.  (At exit each thread takes down its own half.)
StatusConsistent ==
    /\ running => <<pl.ps, pl.cs>> \in
           {<<"UNLOADED", "STOPPED">>, <<"STOPPED", "STOPPED">>, <<"PLAYING", "PLAYING">>,
            <<"PAUSED", "PAUSED">>, <<"PLAYING", "STOPPED">>}
    /\ pl.ip = "open" <=> pl.ps \in {"PLAYING", "PAUSED"}
    /\ pl.ip = "closed" <=> pl.ps = "STOPPED"
    /\ pl.dev = CASE pl.cs = "STOPPED" -> "closed"
                  [] pl.cs = "PLAYING" -> "running"
                  [] pl.cs = "PAUSED"  -> "paused"
    /\ pl.ps # "UNLOADED" => pl.ti

\* No BUG_ON of player.c, input.c or buffer.c fires on the player's threads, and
\* metadata_changed and consumer_handle_eof find a current track: the ring holds
\* what _prebuffer asks for, an open input is not opened again, none is read
\* that is not open, and no empty chunk is consumed.
NoAssertionFails == pl.failed = ""

\* The two halves of the player's state agree with the input, the device and the
\* ring, and no assertion of the code refutes it.
PlayerIsConsistent == TypeOK /\ StatusConsistent /\ NoAssertionFails

\* Whatever moves or changes the input (a seek, a stop, a new file) empties the
\* ring before the locks are released: no byte decoded at the old position is
\* played after it.
NoStaleAudio == ~pl.stale

\* An open device has the format of the track being played and the speed the
\* user last got, through every reopen: change_sf decides by comparing formats,
\* and set_speed, set_op and the consumer open the device on their own.
DeviceRunsAtTrackRate ==
    pl.dev # "closed" => pl.devsf = <<pl.fmt, pl.fast>>

\* What is heard is the current track, at its position, rate and speed: neither
\* old bytes of the ring nor an old format of the device outlive a change.
AudioIsCurrent == NoStaleAudio /\ DeviceRunsAtTrackRate

\* The consumer goes on to the next track only when every byte decoded from
\* this one was given to the device: it sees an empty ring first, then the end
\* of the input, and the last chunk is filled before the input counts as ended.
NoTailLost == pcC = "await" => pl.ps = "PLAYING" /\ pl.n = 0 /\ ~pl.part

\* A thread sleeps on its condition only while there is nothing for it to do:
\* every change that gives it work, or ends it, is followed by a broadcast.
NoLostWakeup ==
    /\ pcP = "asleep" => running /\ NothingToDecode
    /\ pcC = "asleep" => running /\ pl.cs # "PLAYING"

\* After player_exit both threads ended, the device is closed, the input is
\* deleted and nobody holds a lock or waits for a track.
CleanExit ==
    mpc = "exited" =>
        /\ pl.dev = "closed" /\ pl.ip \in {"none", "freed"} /\ pl.n = 0
        /\ lockC = "free" /\ lockP = "free" /\ ~request

\* The status the user interface shows is the consumer's, except while a thread
\* holds the lock under which it changes.
StatusShown == running /\ lockC = "free" => pl.shown = pl.cs

\* A command that waits for the player locks gets through: player-stop stops.
CommandsComplete == mpc = "wantC" ~> mpc \in {"idle", "exited"}

\* The only thing that keeps a command from completing is the consumer waiting
\* for a next track with both locks in hand: the locks are taken in one order
\* and every other wait gives them up.
OnlyEofBlocks == mpc = "wantC" ~> mpc \in {"idle", "exited"} \/ pcC = "await"

\* A track whose end was decoded is played to its end and left: unless the user
\* gives a command the player asks for the next track, or stops.
EofIsReached ==
    pl.ps = "PLAYING" /\ pl.cs = "PLAYING" /\ pl.eof
        ~> mpc # "idle" \/ pcC = "await"
               \/ ~(pl.ps = "PLAYING" /\ pl.cs = "PLAYING" /\ pl.eof)
==============================================================================
