---------------------------- MODULE PlayerProofs ----------------------------
(***************************************************************************)
(* Theorems about module Player: for every number of formats, every size of*)
(* the ring and every set of commands, the three threads keep the player's *)
(* state consistent.                                                       *)
(*                                                                         *)
(* The argument is assume-guarantee: the lemmas about the commands show    *)
(* that what runs with the locks held settles from every sound state; IInv *)
(* says that the state is sound whenever a thread takes a lock, and for    *)
(* each point where another thread can come between, what remains true of  *)
(* it there.                                                               *)
(***************************************************************************)
EXTENDS Player, TLAPS

-----------------------------------------------------------------------------
(* Lemmas about the commands of core/player.c, module PlayerState.  First   *)
(* the types; then what each helper does to the producer's and to the       *)
(* consumer's half of the state; then that every command and every round of *)
(* the two loops settles: from a sound state it ends in a sound state, it   *)
(* signals the thread it gives work to, it leaves the status shown, and it  *)
(* fires no assertion if the ring can hold what prebuffer asks for.         *)

\* The ring never holds a negative number of chunks.
LEMMA ChunksAreCounted ==
    ASSUME NEW s \in PlayerStates
    PROVE  s.n \in Nat
<1>1. s.n \in 0 .. NrChunks
    BY DEF PlayerStates
<1> QED
    BY <1>1, NrChunksAssumption

\* A BUG_ON that fires leaves the other fields alone.
LEMMA BugTypes ==
    ASSUME NEW s \in PlayerStates, NEW what \in Bugs
    PROVE  Bug(s, what) \in PlayerStates
<1>1. [s EXCEPT !.failed = what] \in PlayerStates
    BY DEF PlayerStates
<1> QED
    BY <1>1 DEF Bug

\* The operations of core/input.c keep the types.
LEMMA InputTypes ==
    ASSUME NEW s \in PlayerStates
    PROVE  /\ \A t \in Tracks : ip_new(s, t) \in PlayerStates
           /\ ip_delete(s) \in PlayerStates
           /\ ip_open(s) \subseteq PlayerStates
           /\ ip_close(s) \in PlayerStates
           /\ SeekOk(s) \in PlayerStates
<1>1. ASSUME NEW u \in PlayerStates PROVE Moved(u) \in PlayerStates
    <2> DEFINE b == u.stale \/ u.n > 0 \/ u.part
    <2>1. b \in BOOLEAN
        OBVIOUS
    <2>2. ASSUME NEW c \in BOOLEAN PROVE [u EXCEPT !.stale = c] \in PlayerStates
        BY DEF PlayerStates
    <2> HIDE DEF b
    <2>3. [u EXCEPT !.stale = b] \in PlayerStates
        BY <2>1, <2>2
    <2> QED
        BY <2>3, Zenon DEF Moved, b
<1>3. ASSUME NEW t \in Tracks PROVE ip_new(s, t) \in PlayerStates
    <2>1. t.remote \in BOOLEAN /\ t.fmt \in Formats
        BY DEF Tracks
    <2> QED
        BY <2>1 DEF PlayerStates, ip_new
<1>4. ip_delete(s) \in PlayerStates
    BY DEF PlayerStates, ip_delete
<1>5. ip_open(s) \subseteq PlayerStates
    <2>1. "ip_open: open" \in Bugs
        BY DEF Bugs
    <2> DEFINE v == BugOn(s.ip = "open", s, "ip_open: open")
    <2>2. v \in PlayerStates
        BY <2>1, BugTypes DEF BugOn
    <2>3. [v EXCEPT !.ip = "open"] \in PlayerStates
        BY <2>2 DEF PlayerStates
    <2> QED
        BY <2>2, <2>3 DEF ip_open
<1>6. ip_close(s) \in PlayerStates
    <2>1. [s EXCEPT !.ip = "closed", !.eof = FALSE] \in PlayerStates
        BY DEF PlayerStates
    <2> QED
        BY <1>1, <2>1 DEF ip_close
<1>7. SeekOk(s) \in PlayerStates
    <2>1. [s EXCEPT !.eof = FALSE] \in PlayerStates
        BY DEF PlayerStates
    <2> QED
        BY <1>1, <2>1 DEF SeekOk
<1> QED
    BY <1>3, <1>4, <1>5, <1>6, <1>7

\* The ring, the device and the published status keep the types.
LEMMA HelperTypes ==
    ASSUME NEW s \in PlayerStates
    PROVE  /\ ResetQuietly(s) \in PlayerStates
           /\ reset_buffer(s) \in PlayerStates
           /\ set_buffer_sf(s) \in PlayerStates
           /\ \A b \in BOOLEAN : file_changed(s, b) \in PlayerStates
           /\ player_error(s) \in PlayerStates
           /\ player_status_changed(s) \in PlayerStates
           /\ op_opened(s) \in PlayerStates
           /\ op_close(s) \in PlayerStates
           /\ \A p \in PStatus : producer_status_update(s, p) \in PlayerStates
           /\ \A c \in CStatus : consumer_status_update(s, c) \in PlayerStates
<1>0. 0 \in 0 .. NrChunks
    BY NrChunksAssumption
<1>1. ResetQuietly(s) \in PlayerStates
    BY <1>0 DEF PlayerStates, ResetQuietly
<1>2. reset_buffer(s) \in PlayerStates
    BY <1>0 DEF PlayerStates, reset_buffer
<1>3. set_buffer_sf(s) \in PlayerStates
    <2> DEFINE what == "ip_get_sf: !open"
               t == BugOn(s.ip # "open", s, what)
    <2>1. [s EXCEPT !.failed = what] \in PlayerStates
        BY DEF PlayerStates, Bugs
    <2>2. t \in PlayerStates
        BY <2>1 DEF BugOn, Bug
    <2>3. set_buffer_sf(s) = [t EXCEPT !.bufsf = s.fmt]
        BY DEF set_buffer_sf
    <2>4. s.fmt \in Formats
        BY DEF PlayerStates
    <2> HIDE DEF t
    <2> QED
        BY <2>2, <2>3, <2>4 DEF PlayerStates
<1>4. \A b \in BOOLEAN : file_changed(s, b) \in PlayerStates
    BY DEF PlayerStates, file_changed
<1>5. player_error(s) \in PlayerStates /\ player_status_changed(s) \in PlayerStates
    BY DEF PlayerStates, player_error, player_status_changed
<1>6. op_opened(s) \in PlayerStates
    BY DEF PlayerStates, op_opened
<1>7. op_close(s) \in PlayerStates
    BY DEF PlayerStates, op_close
<1>8. \A p \in PStatus : producer_status_update(s, p) \in PlayerStates
    BY DEF PlayerStates, producer_status_update
<1>9. \A c \in CStatus : consumer_status_update(s, c) \in PlayerStates
    BY DEF PlayerStates, consumer_status_update
<1> QED
    BY <1>1, <1>2, <1>3, <1>4, <1>5, <1>6, <1>7, <1>8, <1>9

-----------------------------------------------------------------------------

\* The producer's half of the state: the input is open in the two statuses that
\* decode, closed when stopped; without an open input the ring is empty.
ProducerHalf(s) ==
    /\ s.ip = "open" <=> s.ps \in {"PLAYING", "PAUSED"}
    /\ s.ip = "closed" <=> s.ps = "STOPPED"
    /\ s.ps # "UNLOADED" => s.ti
    /\ s.ps \in {"UNLOADED", "STOPPED"} => s.n = 0 /\ ~s.part
    /\ s.eof => ~s.part
    /\ ~s.stale

\* The consumer's half: the device follows consumer_status, and an open one plays
\* what set_buffer_sf last announced, at the user's speed.
ConsumerHalf(s) ==
    /\ s.dev = CASE s.cs = "STOPPED" -> "closed"
                 [] s.cs = "PLAYING" -> "running"
                 [] s.cs = "PAUSED"  -> "paused"
    /\ s.dev # "closed" => s.devsf = <<s.bufsf, s.fast>>

\* What the ring announces to an open device is the format of the input.
RingFits(s) == s.dev # "closed" => s.bufsf = s.fmt

\* A state between two helpers, with the format of the ring possibly behind.
Whole(s) == s \in PlayerStates /\ ProducerHalf(s) /\ ConsumerHalf(s)

\* From s to t everything that gives a sleeping thread work was signalled: the
\* producer sleeps unless it plays and its input goes on, the consumer unless it
\* plays.
Tells(s, t) ==
    /\ s.sigP => t.sigP
    /\ s.sigC => t.sigC
    /\ t.ps = "PLAYING" /\ ~t.eof => t.sigP \/ (s.ps = "PLAYING" /\ ~s.eof)
    /\ t.cs = "PLAYING" => t.sigC \/ s.cs = "PLAYING"

\* The step left the consumer, its device and the assertions alone.
SameDevice(s, t) ==
    /\ t.cs = s.cs /\ t.dev = s.dev /\ t.devsf = s.devsf
    /\ t.bufsf = s.bufsf /\ t.fast = s.fast
    /\ t.failed = s.failed

\* The step left the producer, its input, its ring and the assertions alone.
SameInput(s, t) ==
    /\ t.ps = s.ps /\ t.ip = s.ip /\ t.eof = s.eof /\ t.fmt = s.fmt
    /\ t.n = s.n /\ t.part = s.part /\ t.stale = s.stale /\ t.ti = s.ti
    /\ t.remote = s.remote /\ t.failed = s.failed

\* The step touched only the ring, the end of the input, the published status
\* and the assertions.
SameButTheRing(s, t) ==
    /\ t.ps = s.ps /\ t.ip = s.ip /\ t.fmt = s.fmt /\ t.stale = s.stale /\ t.ti = s.ti
    /\ t.cs = s.cs /\ t.dev = s.dev /\ t.devsf = s.devsf
    /\ t.bufsf = s.bufsf /\ t.fast = s.fast
    /\ t.sigP = s.sigP /\ t.sigC = s.sigC
    /\ t.shown \in {s.shown, s.cs}
    /\ s.eof => t.eof

\* _producer_stop closes an open input, empties the ring and tells the producer.
LEMMA ProducerStopDone ==
    ASSUME NEW s, Whole(s), NEW t, t = producer_stop(s)
    PROVE  /\ Whole(t) /\ SameDevice(s, t) /\ Tells(s, t)
           /\ t.ps = IF s.ps = "UNLOADED" THEN "UNLOADED" ELSE "STOPPED"
           /\ t.fmt = s.fmt /\ t.shown = s.shown
<1>1. s \in PlayerStates
    BY DEF Whole
<1>2. t \in PlayerStates
    BY <1>1, InputTypes, HelperTypes DEF producer_stop, PStatus
<1>3. ProducerHalf(t) /\ SameDevice(s, t) /\ Tells(s, t)
    BY <1>1 DEF Whole, ProducerHalf, SameDevice, Tells, PlayerStates, PStatus, producer_stop, reset_buffer,
        producer_status_update, ip_close, Moved
<1>4. /\ t.ps = IF s.ps = "UNLOADED" THEN "UNLOADED" ELSE "STOPPED"
      /\ t.fmt = s.fmt /\ t.shown = s.shown
    BY <1>1 DEF Whole, PlayerStates, PStatus, producer_stop, reset_buffer,
        producer_status_update, ip_close, Moved
<1>5. ConsumerHalf(t)
    BY <1>3 DEF Whole, ConsumerHalf, SameDevice
<1> QED
    BY <1>2, <1>3, <1>4, <1>5 DEF Whole

\* _producer_unload always ends without an input.
LEMMA ProducerUnloadDone ==
    ASSUME NEW s, Whole(s), NEW t, t = producer_unload(s)
    PROVE  /\ Whole(t) /\ SameDevice(s, t) /\ Tells(s, t)
           /\ t.ps = "UNLOADED" /\ t.shown = s.shown /\ t.fmt = s.fmt
<1> DEFINE u == producer_stop(s)
<1>1. Whole(u) /\ SameDevice(s, u) /\ Tells(s, u) /\ u.ps \in {"UNLOADED", "STOPPED"} /\ u.shown = s.shown /\ u.fmt = s.fmt
    BY ProducerStopDone, Zenon
<1>0. t = IF u.ps = "STOPPED" THEN producer_status_update(ip_delete(u), "UNLOADED") ELSE u
    BY DEF producer_unload
<1> HIDE DEF u
<1>2. t \in PlayerStates
    BY <1>0, <1>1, InputTypes, HelperTypes DEF Whole, PStatus
<1>3. ProducerHalf(t) /\ SameDevice(s, t) /\ Tells(s, t)
    BY <1>0, <1>1 DEF Whole, ProducerHalf, SameDevice, Tells, PlayerStates, PStatus,
        producer_status_update, ip_delete
<1>4. t.ps = "UNLOADED" /\ t.shown = s.shown /\ t.fmt = s.fmt
    BY <1>0, <1>1 DEF Whole, PlayerStates, producer_status_update, ip_delete
<1>5. ConsumerHalf(t)
    BY <1>3 DEF Whole, ConsumerHalf, SameDevice
<1> QED
    BY <1>2, <1>3, <1>4, <1>5 DEF Whole

\* _producer_set_file ends stopped on the new input, the device as it was.
LEMMA ProducerSetFileDone ==
    ASSUME NEW s, Whole(s), NEW track \in Tracks, NEW t, t = producer_set_file(s, track)
    PROVE  /\ Whole(t) /\ SameDevice(s, t) /\ Tells(s, t)
           /\ t.ps = "STOPPED" /\ t.shown = s.shown
<1> DEFINE u == producer_unload(s)
<1>1. Whole(u) /\ SameDevice(s, u) /\ Tells(s, u) /\ u.ps = "UNLOADED" /\ u.shown = s.shown
    BY ProducerUnloadDone, Zenon
<1>2. t = file_changed(producer_status_update(ip_new(u, track), "STOPPED"), TRUE)
    BY DEF producer_set_file
<1> HIDE DEF u
<1>3. t \in PlayerStates
    BY <1>1, <1>2, InputTypes, HelperTypes DEF Whole, PStatus
<1>4. ProducerHalf(t) /\ SameDevice(s, t) /\ Tells(s, t)
    BY <1>1, <1>2 DEF Whole, ProducerHalf, SameDevice, Tells, PlayerStates, PStatus,
        producer_status_update, ip_new, file_changed, Tracks
<1>5. t.ps = "STOPPED" /\ t.shown = s.shown
    BY <1>1, <1>2 DEF Whole, PlayerStates, producer_status_update, ip_new, file_changed
<1>6. ConsumerHalf(t)
    BY <1>4 DEF Whole, ConsumerHalf, SameDevice
<1> QED
    BY <1>3, <1>4, <1>5, <1>6 DEF Whole

\* _producer_play without an input: the first track plays or is deleted.
LEMMA PlayFirstTrackDone ==
    ASSUME NEW s, Whole(s), s.ps = "UNLOADED", NEW track \in Tracks,
           NEW t \in PlayFirstTrack(s, track)
    PROVE  /\ Whole(t) /\ SameDevice(s, t) /\ Tells(s, t)
           /\ t.ps \in {"UNLOADED", "PLAYING"} /\ t.shown \in {s.shown, s.cs}
<1> DEFINE v == ip_new(s, track)
<1>1. /\ v \in PlayerStates /\ SameDevice(s, v) /\ Tells(s, v)
      /\ v.ip = "closed" /\ v.n = 0 /\ ~v.part /\ ~v.eof /\ ~v.stale
      /\ v.ps = "UNLOADED" /\ v.shown = s.shown
    <2>1. s \in PlayerStates
        BY DEF Whole
    <2>2. v \in PlayerStates
        BY <2>1, InputTypes
    <2>3. SameDevice(s, v) /\ Tells(s, v) /\ v.ps = "UNLOADED"
        BY <2>1 DEF SameDevice, Tells, PlayerStates, ip_new
    <2>4. v.ip = "closed" /\ v.n = 0 /\ ~v.part /\ ~v.eof /\ ~v.stale /\ v.shown = s.shown
        BY <2>1 DEF Whole, ProducerHalf, PlayerStates, ip_new
    <2> QED
        BY <2>2, <2>3, <2>4
<1>2. PICK u \in ip_open(v) :
          t = IF u.ip = "open"
              THEN file_changed(producer_status_update(u, "PLAYING"), TRUE)
              ELSE file_changed(ip_delete(player_error(u)), FALSE)
    BY DEF PlayFirstTrack
<1> HIDE DEF v
<1>3. u = v \/ u = [v EXCEPT !.ip = "open"]
    BY <1>1 DEF ip_open, BugOn
<1>4. u \in PlayerStates
    BY <1>1, InputTypes
<1>5. CASE u = v
    <2>1. t = file_changed(ip_delete(player_error(u)), FALSE)
        BY <1>1, <1>2, <1>5
    <2>2. t \in PlayerStates
        BY <1>4, <2>1, InputTypes, HelperTypes
    <2>3. /\ ProducerHalf(t) /\ SameDevice(s, t) /\ Tells(s, t)
          /\ t.ps = "UNLOADED" /\ t.shown = s.cs
        BY <1>1, <1>5, <2>1 DEF ProducerHalf, SameDevice, Tells, PlayerStates, file_changed,
            ip_delete, player_error
    <2> QED
        BY <2>2, <2>3 DEF Whole, ConsumerHalf, SameDevice
<1>6. CASE u = [v EXCEPT !.ip = "open"]
    <2>1. t = file_changed(producer_status_update(u, "PLAYING"), TRUE)
        BY <1>1, <1>2, <1>6 DEF PlayerStates
    <2>2. t \in PlayerStates
        BY <1>4, <2>1, InputTypes, HelperTypes DEF PStatus
    <2>3. /\ ProducerHalf(t) /\ SameDevice(s, t) /\ Tells(s, t)
          /\ t.ps = "PLAYING" /\ t.shown = s.shown
        BY <1>1, <1>6, <2>1 DEF ProducerHalf, SameDevice, Tells, PlayerStates, file_changed,
            producer_status_update
    <2> QED
        BY <2>2, <2>3 DEF Whole, ConsumerHalf, SameDevice
<1> QED
    BY <1>3, <1>5, <1>6

\* _producer_play on a closed input: it is opened, or deleted.
LEMMA PlayStoppedTrackDone ==
    ASSUME NEW s, Whole(s), s.ps = "STOPPED", NEW t \in PlayStoppedTrack(s)
    PROVE  /\ Whole(t) /\ SameDevice(s, t) /\ Tells(s, t)
           /\ t.ps \in {"UNLOADED", "PLAYING"} /\ t.shown \in {s.shown, s.cs}
           /\ t.fmt = s.fmt
<1>1. PICK u \in ip_open(s) :
          t = IF u.ip = "open"
              THEN producer_status_update(u, "PLAYING")
              ELSE producer_status_update(ip_delete(player_error(u)), "UNLOADED")
    BY DEF PlayStoppedTrack
<1>2. s \in PlayerStates /\ s.ip = "closed" /\ s.ti
    BY DEF Whole, ProducerHalf
<1>3. u = s \/ u = [s EXCEPT !.ip = "open"]
    BY <1>2 DEF ip_open, BugOn
<1>4. u \in PlayerStates
    BY <1>2, InputTypes
<1>5. CASE u = s
    <2>1. t = producer_status_update(ip_delete(player_error(u)), "UNLOADED")
        BY <1>1, <1>2, <1>5
    <2>2. t \in PlayerStates
        BY <1>4, <2>1, InputTypes, HelperTypes DEF PStatus
    <2>3. /\ ProducerHalf(t) /\ SameDevice(s, t) /\ Tells(s, t)
          /\ t.ps = "UNLOADED" /\ t.shown = s.cs /\ t.fmt = s.fmt
        BY <1>2, <1>5, <2>1 DEF Whole, ProducerHalf, SameDevice, Tells, PlayerStates,
            producer_status_update, ip_delete, player_error
    <2> QED
        BY <2>2, <2>3 DEF Whole, ConsumerHalf, SameDevice
<1>6. CASE u = [s EXCEPT !.ip = "open"]
    <2>1. t = producer_status_update(u, "PLAYING")
        BY <1>1, <1>2, <1>6 DEF PlayerStates
    <2>2. t \in PlayerStates
        BY <1>4, <2>1, InputTypes, HelperTypes DEF PStatus
    <2>3. /\ ProducerHalf(t) /\ SameDevice(s, t) /\ Tells(s, t)
          /\ t.ps = "PLAYING" /\ t.shown = s.shown /\ t.fmt = s.fmt
        BY <1>2, <1>6, <2>1 DEF Whole, ProducerHalf, SameDevice, Tells, PlayerStates,
            producer_status_update
    <2> QED
        BY <2>2, <2>3 DEF Whole, ConsumerHalf, SameDevice
<1> QED
    BY <1>3, <1>5, <1>6

\* _producer_play ends playing, or unloaded when the input cannot be opened; only
\* a first track changes the format.
LEMMA ProducerPlayDone ==
    ASSUME NEW s, Whole(s), NEW t \in producer_play(s)
    PROVE  /\ Whole(t) /\ SameDevice(s, t) /\ Tells(s, t)
           /\ t.ps \in {"UNLOADED", "PLAYING"} /\ t.shown \in {s.shown, s.cs}
           /\ s.ps # "UNLOADED" => t.fmt = s.fmt
           /\ s.ps \in {"PLAYING", "PAUSED"} => t.ps = "PLAYING"
<1>0. s \in PlayerStates
    BY DEF Whole
<1>1. CASE s.ps = "UNLOADED"
    <2>1. t = s \/ \E track \in Tracks : t \in PlayFirstTrack(s, track)
        BY <1>1 DEF producer_play
    <2>2. ASSUME t = s PROVE SameDevice(s, t) /\ Tells(s, t)
        BY <2>2 DEF SameDevice, Tells
    <2> QED
        BY <1>1, <2>1, <2>2, PlayFirstTrackDone
<1>2. CASE s.ps = "PLAYING"
    <2>1. t \in Restart(s)
        BY <1>2 DEF producer_play
    <2>2. CASE t = s
        BY <1>2, <2>2 DEF SameDevice, Tells
    <2>3. CASE t = reset_buffer(SeekOk(s))
        <3>1. t \in PlayerStates
            BY <1>0, <2>3, InputTypes, HelperTypes
        <3>2. /\ ProducerHalf(t) /\ SameDevice(s, t) /\ Tells(s, t)
              /\ t.ps = "PLAYING" /\ t.shown = s.shown /\ t.fmt = s.fmt
            BY <1>0, <1>2, <2>3 DEF Whole, ProducerHalf, SameDevice, Tells, PlayerStates,
                reset_buffer, SeekOk, Moved
        <3> QED
            BY <1>2, <3>1, <3>2 DEF Whole, ConsumerHalf, SameDevice
    <2> QED
        BY <2>1, <2>2, <2>3 DEF Restart
<1>3. CASE s.ps = "STOPPED"
    BY <1>3, PlayStoppedTrackDone DEF producer_play
<1>4. CASE s.ps = "PAUSED"
    <2>1. t = producer_status_update(s, "PLAYING")
        BY <1>4 DEF producer_play
    <2>2. t \in PlayerStates
        BY <1>0, <2>1, HelperTypes DEF PStatus
    <2>3. /\ ProducerHalf(t) /\ SameDevice(s, t) /\ Tells(s, t)
          /\ t.ps = "PLAYING" /\ t.shown = s.shown /\ t.fmt = s.fmt
        BY <1>0, <1>4, <2>1 DEF Whole, ProducerHalf, SameDevice, Tells, PlayerStates,
            producer_status_update
    <2> QED
        BY <1>4, <2>2, <2>3 DEF Whole, ConsumerHalf, SameDevice
<1> QED
    BY <1>0, <1>1, <1>2, <1>3, <1>4 DEF PlayerStates, PStatus

\* _producer_pause changes the status of a producer that has an open input.
LEMMA ProducerPauseDone ==
    ASSUME NEW s, Whole(s), NEW t, t = producer_pause(s)
    PROVE  /\ Whole(t) /\ SameDevice(s, t) /\ Tells(s, t)
           /\ t.ps = CASE s.ps = "PLAYING" -> "PAUSED"
                       [] s.ps = "PAUSED"  -> "PLAYING"
                       [] OTHER            -> s.ps
           /\ t.shown = s.shown /\ t.fmt = s.fmt
<1>1. s \in PlayerStates
    BY DEF Whole
<1>2. t \in PlayerStates
    BY <1>1, HelperTypes DEF producer_pause, PStatus
<1>3. /\ ProducerHalf(t) /\ SameDevice(s, t) /\ Tells(s, t)
      /\ t.ps = CASE s.ps = "PLAYING" -> "PAUSED"
                  [] s.ps = "PAUSED"  -> "PLAYING"
                  [] OTHER            -> s.ps
      /\ t.shown = s.shown /\ t.fmt = s.fmt
    BY <1>1 DEF Whole, ProducerHalf, SameDevice, Tells, PlayerStates, PStatus,
        producer_pause, producer_status_update
<1> QED
    BY <1>2, <1>3 DEF Whole, ConsumerHalf, SameDevice

-----------------------------------------------------------------------------

\* _consumer_stop closes the device; a closed one fits every ring.
LEMMA ConsumerStopDone ==
    ASSUME NEW s, Whole(s), NEW t, t = consumer_stop(s)
    PROVE  /\ Whole(t) /\ SameInput(s, t) /\ Tells(s, t)
           /\ t.cs = "STOPPED" /\ RingFits(t) /\ t.shown = s.shown
<1>1. s \in PlayerStates
    BY DEF Whole
<1>2. t \in PlayerStates
    BY <1>1, HelperTypes DEF consumer_stop, CStatus
<1>3. SameInput(s, t) /\ Tells(s, t) /\ t.cs = "STOPPED" /\ t.shown = s.shown
    BY <1>1 DEF SameInput, Tells, PlayerStates, consumer_stop, consumer_status_update, op_close
<1>4. t.dev = "closed"
    BY <1>1 DEF Whole, ConsumerHalf, PlayerStates, consumer_stop, consumer_status_update, op_close
<1>5. ProducerHalf(t)
    BY <1>3 DEF Whole, ProducerHalf, SameInput
<1> QED
    BY <1>2, <1>3, <1>4, <1>5 DEF Whole, ConsumerHalf, RingFits

\* _consumer_pause keeps the device open.
LEMMA ConsumerPauseDone ==
    ASSUME NEW s, Whole(s), RingFits(s), NEW t, t = consumer_pause(s)
    PROVE  /\ Whole(t) /\ SameInput(s, t) /\ RingFits(t)
           /\ Tells(s, t)
           /\ t.cs = CASE s.cs = "PLAYING" -> "PAUSED"
                       [] s.cs = "PAUSED"  -> "PLAYING"
                       [] OTHER            -> s.cs
<1>1. s \in PlayerStates
    BY DEF Whole
<1>2. \A d \in {"running", "paused"} : [s EXCEPT !.dev = d] \in PlayerStates
    BY <1>1 DEF PlayerStates
<1>3. t \in PlayerStates
    BY <1>1, <1>2, HelperTypes DEF consumer_pause, CStatus
<1>4. /\ SameInput(s, t) /\ Tells(s, t)
      /\ t.devsf = s.devsf /\ t.bufsf = s.bufsf /\ t.fast = s.fast
    BY <1>1 DEF SameInput, Tells, PlayerStates, CStatus, consumer_pause, consumer_status_update
<1>5. /\ t.cs = CASE s.cs = "PLAYING" -> "PAUSED"
                   [] s.cs = "PAUSED"  -> "PLAYING"
                   [] OTHER            -> s.cs
      /\ t.dev = CASE t.cs = "STOPPED" -> "closed"
                    [] t.cs = "PLAYING" -> "running"
                    [] t.cs = "PAUSED"  -> "paused"
    BY <1>1 DEF Whole, ConsumerHalf, PlayerStates, CStatus, consumer_pause, consumer_status_update
<1>6. s.dev = "closed" => t.dev = "closed"
    BY <1>1, <1>5 DEF Whole, ConsumerHalf, PlayerStates, CStatus
<1> QED
    BY <1>3, <1>4, <1>5, <1>6 DEF Whole, ProducerHalf, ConsumerHalf, SameInput, RingFits

\* _consumer_play for a playing producer: the device runs, opened in the format of
\* the input, or it is closed and the status shown.
LEMMA ConsumerPlayDone ==
    ASSUME NEW s, Whole(s), RingFits(s), s.ps = "PLAYING", NEW t \in consumer_play(s)
    PROVE  /\ Whole(t) /\ SameInput(s, t) /\ Tells(s, t) /\ RingFits(t)
           /\ t.cs \in {"PLAYING", "STOPPED"} 
           /\ s.cs # "STOPPED" => t.cs = "PLAYING"
           /\ t.shown = IF t.cs = "STOPPED" THEN t.cs ELSE s.shown
           /\ s.cs = "PLAYING" => t = s
<1>1. s \in PlayerStates /\ s.ip = "open"
    BY DEF Whole, ProducerHalf
<1>2. CASE s.cs = "PLAYING"
    BY <1>1, <1>2 DEF consumer_play, SameInput, Tells
<1>3. CASE s.cs = "STOPPED"
    <2> DEFINE u == set_buffer_sf(s)
    <2>1. u = [s EXCEPT !.bufsf = s.fmt]
        BY <1>1 DEF set_buffer_sf, BugOn
    <2>2. u \in PlayerStates
        BY <1>1, HelperTypes
    <2>3. t = player_error(u) \/ t = consumer_status_update(op_opened(u), "PLAYING")
        BY <1>3 DEF consumer_play
    <2> HIDE DEF u
    <2>4. CASE t = player_error(u)
        <3>1. t \in PlayerStates
            BY <2>2, <2>4, HelperTypes
        <3>2. /\ SameInput(s, t) /\ Tells(s, t)
              /\ t.cs = "STOPPED" /\ t.dev = s.dev /\ t.shown = t.cs
            BY <1>1, <1>3, <2>1, <2>4 DEF SameInput, Tells, PlayerStates, player_error
        <3> QED
            BY <1>3, <3>1, <3>2 DEF Whole, ProducerHalf, ConsumerHalf, SameInput, RingFits
    <2>5. CASE t = consumer_status_update(op_opened(u), "PLAYING")
        <3>1. t \in PlayerStates
            BY <2>2, <2>5, HelperTypes DEF CStatus
        <3>2. /\ SameInput(s, t) /\ Tells(s, t)
              /\ t.cs = "PLAYING" /\ t.dev = "running" /\ t.devsf = <<t.bufsf, t.fast>>
              /\ t.bufsf = t.fmt /\ t.shown = s.shown
            BY <1>1, <2>1, <2>5 DEF SameInput, Tells, PlayerStates, consumer_status_update, op_opened
        <3> QED
            BY <1>3, <3>1, <3>2 DEF Whole, ProducerHalf, ConsumerHalf, SameInput, RingFits
    <2> QED
        BY <2>3, <2>4, <2>5
<1>4. CASE s.cs = "PAUSED"
    <2>1. t = consumer_status_update([s EXCEPT !.dev = "running"], "PLAYING")
        BY <1>4 DEF consumer_play
    <2>2. [s EXCEPT !.dev = "running"] \in PlayerStates
        BY <1>1 DEF PlayerStates
    <2>3. t \in PlayerStates
        BY <2>1, <2>2, HelperTypes DEF CStatus
    <2>4. /\ SameInput(s, t) /\ Tells(s, t)
          /\ t.cs = "PLAYING" /\ t.dev = "running" /\ t.devsf = s.devsf
          /\ t.bufsf = s.bufsf /\ t.fast = s.fast /\ t.shown = s.shown
        BY <1>1, <2>1 DEF SameInput, Tells, PlayerStates, consumer_status_update
    <2> QED
        BY <1>4, <2>3, <2>4 DEF Whole, ProducerHalf, ConsumerHalf, SameInput, RingFits
<1> QED
    BY <1>1, <1>2, <1>3, <1>4 DEF PlayerStates, CStatus

\* change_sf for a new input under an open device: both threads play, in the new
\* format, or both are stopped.
LEMMA ChangeSfDone ==
    ASSUME NEW s, Whole(s), s.ps = "PLAYING", s.cs # "STOPPED", NEW t \in change_sf(s)
    PROVE  /\ Whole(t) /\ Tells(s, t) /\ RingFits(t) /\ t.failed = s.failed
           /\ <<t.ps, t.cs>> \in {<<"PLAYING", "PLAYING">>, <<"STOPPED", "STOPPED">>}
<1>1. s \in PlayerStates /\ s.ip = "open" /\ s.dev # "closed"
    BY DEF Whole, ProducerHalf, ConsumerHalf, PlayerStates, CStatus
<1> DEFINE u == set_buffer_sf(s)
<1>2. u = [s EXCEPT !.bufsf = s.fmt]
    BY <1>1 DEF set_buffer_sf, BugOn
<1>3. u \in PlayerStates
    BY <1>1, HelperTypes
<1>4. \/ t = producer_stop(consumer_status_update(player_error(op_close(u)), "STOPPED"))
      \/ t = consumer_status_update(op_opened(u), "PLAYING")
      \/ u.bufsf = s.bufsf /\ t = consumer_status_update([u EXCEPT !.dev = "running"], "PLAYING")
    BY DEF change_sf
<1> HIDE DEF u
<1>5. CASE t = producer_stop(consumer_status_update(player_error(op_close(u)), "STOPPED"))
    <2> DEFINE v == consumer_status_update(player_error(op_close(u)), "STOPPED")
    <2>1. v \in PlayerStates
        BY <1>3, HelperTypes DEF CStatus
    <2>2. /\ SameInput(s, v) /\ Tells(s, v)
          /\ v.cs = "STOPPED" /\ v.dev = "closed"
        BY <1>1, <1>2 DEF SameInput, Tells, PlayerStates, consumer_status_update,
            player_error, op_close
    <2> HIDE DEF v
    <2>3. Whole(v)
        BY <2>1, <2>2 DEF Whole, ProducerHalf, ConsumerHalf, SameInput
    <2>4. t = producer_stop(v)
        BY <1>5 DEF v
    <2>5. Whole(t) /\ SameDevice(v, t) /\ Tells(v, t) /\ t.ps = "STOPPED"
        BY <2>2, <2>3, <2>4, ProducerStopDone DEF SameInput
    <2>6. t.cs = "STOPPED" /\ t.dev = "closed" /\ t.failed = s.failed
        BY <2>2, <2>5 DEF SameDevice, SameInput
    <2>7. Tells(s, t)
        BY <2>2, <2>5 DEF Tells
    <2> QED
        BY <2>5, <2>6, <2>7 DEF RingFits
<1>6. CASE t = consumer_status_update(op_opened(u), "PLAYING")
    <2>1. t \in PlayerStates
        BY <1>3, <1>6, HelperTypes DEF CStatus
    <2>2. /\ SameInput(s, t) /\ Tells(s, t)
          /\ t.cs = "PLAYING" /\ t.dev = "running" /\ t.devsf = <<t.bufsf, t.fast>>
          /\ t.bufsf = t.fmt
        BY <1>1, <1>2, <1>6 DEF SameInput, Tells, PlayerStates, consumer_status_update, op_opened
    <2> QED
        BY <2>1, <2>2 DEF Whole, ProducerHalf, ConsumerHalf, SameInput, RingFits
<1>7. CASE u.bufsf = s.bufsf /\ t = consumer_status_update([u EXCEPT !.dev = "running"], "PLAYING")
    <2>1. [u EXCEPT !.dev = "running"] \in PlayerStates
        BY <1>3 DEF PlayerStates
    <2>2. t \in PlayerStates
        BY <1>7, <2>1, HelperTypes DEF CStatus
    <2>3. /\ SameInput(s, t) /\ Tells(s, t)
          /\ t.cs = "PLAYING" /\ t.dev = "running" /\ t.devsf = s.devsf
          /\ t.bufsf = t.fmt /\ t.fast = s.fast /\ t.bufsf = s.bufsf
        BY <1>1, <1>2, <1>7 DEF SameInput, Tells, PlayerStates, consumer_status_update
    <2> QED
        BY <1>1, <2>2, <2>3 DEF Whole, ProducerHalf, ConsumerHalf, SameInput, RingFits
<1> QED
    BY <1>4, <1>5, <1>6, <1>7

-----------------------------------------------------------------------------

\* 250 ms of every format fit in the ring, which buffer_seconds=1 does not
\* promise.
PrebufferFits == \A f \in Formats : PrebufferChunks[f] <= NrChunks

\* _prebuffer changes nothing but the ring and what reading it tells; it asks
\* ip_read for no bytes only if the limit does not fit in the ring.
LEMMA PrebufferDone ==
    ASSUME NEW s, Whole(s), RingFits(s), s.ps = "PLAYING", NEW t \in prebuffer(s)
    PROVE  /\ Whole(t) /\ Tells(s, t) /\ RingFits(t)
           /\ t.ps = s.ps /\ t.cs = s.cs /\ t.shown \in {s.shown, s.cs}
           /\ PrebufferFits => t.failed = s.failed
<1>1. s \in PlayerStates /\ s.ti /\ ~s.stale /\ s.n \in 0 .. NrChunks
    BY DEF Whole, ProducerHalf, PlayerStates
<1> DEFINE limit == PrebufferLimit(s)
           Ended(k) == [s EXCEPT !.n = k, !.part = FALSE, !.eof = TRUE]
           Filled(k) == [s EXCEPT !.n = k, !.part = FALSE]
           Asked(u) == Bug(u, "ip_read: count <= 0")
<1>2. limit \in Nat /\ (PrebufferFits => limit <= NrChunks)
    BY <1>1, NrChunksAssumption, PrebufferAssumption DEF PrebufferLimit, PrebufferFits, PlayerStates
<1>3. BugOn(~s.ti, BugOn(s.ps # "PLAYING", s, "_prebuffer: !playing"),
            "metadata_changed: ti == NULL") = s
    BY <1>1 DEF BugOn
<1>4. \/ t = s
      \/ s.n < limit /\ s.n = NrChunks /\ t = Asked(s)
      \/ \E k \in 0 .. NrChunks : t = Ended(k) \/ t = player_error(Ended(k))
      \/ limit <= NrChunks /\ t = Filled(limit)
      \/ limit > NrChunks /\ t = Asked(Filled(NrChunks))
    <2>1. t \in IF s.n >= limit THEN {s}
                ELSE IF s.n = NrChunks THEN {Asked(s)}
                ELSE {Ended(k) : k \in FilledAtEof(s, limit)}
                     \cup {player_error(u) : u \in {Ended(k) : k \in FilledAtEof(s, limit)}}
                     \cup (IF limit <= NrChunks THEN {Filled(limit)}
                           ELSE {Asked(Filled(NrChunks))})
        <3> DEFINE Outcomes(u) ==
                       IF u.n >= PrebufferLimit(u) THEN {u}
                       ELSE IF u.n = NrChunks THEN {Asked(u)}
                       ELSE {[u EXCEPT !.n = k, !.part = FALSE, !.eof = TRUE] :
                                k \in FilledAtEof(u, PrebufferLimit(u))}
                            \cup {player_error(v) :
                                    v \in {[u EXCEPT !.n = k, !.part = FALSE, !.eof = TRUE] :
                                              k \in FilledAtEof(u, PrebufferLimit(u))}}
                            \cup (IF PrebufferLimit(u) <= NrChunks
                                  THEN {[u EXCEPT !.n = PrebufferLimit(u), !.part = FALSE]}
                                  ELSE {Asked([u EXCEPT !.n = NrChunks, !.part = FALSE])})
                   checked == BugOn(~s.ti, BugOn(s.ps # "PLAYING", s, "_prebuffer: !playing"),
                                    "metadata_changed: ti == NULL")
        <3>1. prebuffer(s) = Outcomes(checked)
            BY Zenon DEF prebuffer
        <3>2. Outcomes(checked) = Outcomes(s)
            <4> HIDE DEF Outcomes
            <4> QED
                BY <1>3
        <3> QED
            BY <3>1, <3>2, Zenon
    <2>2. FilledAtEof(s, limit) \subseteq 0 .. NrChunks
        BY <1>1, <1>2, NrChunksAssumption DEF FilledAtEof
    <2> HIDE DEF limit, Ended, Filled, Asked
    <2>3. CASE s.n >= limit
        BY <2>1, <2>3
    <2>4. CASE ~(s.n >= limit) /\ s.n = NrChunks
        BY <1>1, <1>2, <2>1, <2>4
    <2>5. CASE ~(s.n >= limit) /\ s.n # NrChunks
        BY <1>2, <2>1, <2>2, <2>5, NrChunksAssumption
    <2> QED
        BY <2>3, <2>4, <2>5
<1>5. CASE t = s
    BY <1>5 DEF Tells
<1>6. CASE s.n < limit /\ s.n = NrChunks /\ t = Asked(s)
    <2>1. PrebufferFits => FALSE
        <3> HIDE DEF limit
        <3>1. limit \in Nat /\ limit > NrChunks
            BY <1>2, <1>6, NrChunksAssumption
        <3>2. ASSUME PrebufferFits PROVE limit <= NrChunks
            BY <1>2, <3>2
        <3> QED
            BY <3>1, <3>2, NrChunksAssumption
    <2>2. t \in PlayerStates
        BY <1>1, <1>6, BugTypes DEF Bugs
    <2>3. t = s \/ t = [s EXCEPT !.failed = "ip_read: count <= 0"]
        BY <1>6 DEF Bug
    <2>4. SameButTheRing(s, t) /\ t.n = s.n /\ t.part = s.part /\ t.eof = s.eof
        BY <1>1, <2>3 DEF SameButTheRing, PlayerStates
    <2> QED
        BY <2>1, <2>2, <2>4 DEF Whole, ProducerHalf, ConsumerHalf, RingFits, Tells, SameButTheRing
<1>7. ASSUME NEW k \in 0 .. NrChunks, t = Ended(k) \/ t = player_error(Ended(k))
      PROVE  /\ Whole(t) /\ Tells(s, t) /\ RingFits(t)
             /\ t.ps = s.ps /\ t.cs = s.cs /\ t.shown \in {s.shown, s.cs}
             /\ t.failed = s.failed
    <2>1. Ended(k) \in PlayerStates
        BY <1>1 DEF PlayerStates
    <2>2. t \in PlayerStates
        BY <1>7, <2>1, HelperTypes
    <2>3. SameButTheRing(s, t) /\ ~t.part /\ t.eof /\ t.failed = s.failed
        BY <1>1, <1>7 DEF SameButTheRing, PlayerStates, player_error
    <2> QED
        BY <2>2, <2>3 DEF Whole, ProducerHalf, ConsumerHalf, RingFits, Tells, SameButTheRing
<1>8. CASE limit <= NrChunks /\ t = Filled(limit)
    <2>1. limit \in 0 .. NrChunks
        BY <1>2, <1>8, NrChunksAssumption
    <2> HIDE DEF limit
    <2>2. t \in PlayerStates
        BY <1>1, <1>8, <2>1 DEF PlayerStates
    <2>3. SameButTheRing(s, t) /\ ~t.part /\ t.eof = s.eof /\ t.failed = s.failed
        BY <1>1, <1>8 DEF SameButTheRing, PlayerStates
    <2> QED
        BY <2>2, <2>3 DEF Whole, ProducerHalf, ConsumerHalf, RingFits, Tells, SameButTheRing
<1>9. CASE limit > NrChunks /\ t = Asked(Filled(NrChunks))
    <2>1. PrebufferFits => FALSE
        <3> HIDE DEF limit
        <3>1. limit \in Nat /\ limit > NrChunks
            BY <1>2, <1>9, NrChunksAssumption
        <3>2. ASSUME PrebufferFits PROVE limit <= NrChunks
            BY <1>2, <3>2
        <3> QED
            BY <3>1, <3>2, NrChunksAssumption
    <2>2. NrChunks \in 0 .. NrChunks
        BY NrChunksAssumption
    <2>3. Filled(NrChunks) \in PlayerStates
        BY <1>1, <2>2 DEF PlayerStates
    <2>4. t \in PlayerStates
        BY <1>9, <2>3, BugTypes DEF Bugs
    <2>5. t = Filled(NrChunks) \/ t = [Filled(NrChunks) EXCEPT !.failed = "ip_read: count <= 0"]
        BY <1>9 DEF Bug
    <2>6. SameButTheRing(s, t) /\ ~t.part /\ t.eof = s.eof
        <3> DEFINE f == Filled(NrChunks)
        <3>1. SameButTheRing(s, f) /\ ~f.part /\ f.eof = s.eof
            BY <1>1 DEF SameButTheRing, PlayerStates
        <3>2. f \in PlayerStates /\ (t = f \/ t = [f EXCEPT !.failed = "ip_read: count <= 0"])
            BY <2>3, <2>5
        <3> HIDE DEF f
        <3>3. CASE t = f
            BY <3>1, <3>3
        <3>4. CASE t = [f EXCEPT !.failed = "ip_read: count <= 0"]
            BY <3>1, <3>2, <3>4 DEF SameButTheRing, PlayerStates
        <3> QED
            BY <3>2, <3>3, <3>4
    <2> QED
        BY <2>1, <2>4, <2>6 DEF Whole, ProducerHalf, ConsumerHalf, RingFits, Tells, SameButTheRing
<1> QED
    BY <1>4, <1>5, <1>6, <1>7, <1>8, <1>9

\* The end of a command: the status is shown and the ring filled.
LEMMA PublishDone ==
    ASSUME NEW s, Whole(s), RingFits(s), NEW cond \in BOOLEAN, cond => s.ps = "PLAYING",
           NEW t \in Publish(s, cond)
    PROVE  /\ Whole(t) /\ Tells(s, t) /\ RingFits(t)
           /\ t.ps = s.ps /\ t.cs = s.cs /\ t.shown = t.cs
           /\ PrebufferFits => t.failed = s.failed
<1> DEFINE u == player_status_changed(s)
<1>0. s \in PlayerStates
    BY DEF Whole
<1>1. u \in PlayerStates
    BY <1>0, HelperTypes
<1>2. SameInput(s, u) /\ SameDevice(s, u) /\ Tells(s, u) /\ u.shown = u.cs
    BY <1>0 DEF SameInput, SameDevice, Tells, PlayerStates, player_status_changed
<1>3. t \in IF cond THEN prebuffer(u) ELSE {u}
    BY DEF Publish
<1> HIDE DEF u
<1>4. Whole(u) /\ RingFits(u)
    BY <1>1, <1>2 DEF Whole, ProducerHalf, ConsumerHalf, RingFits, SameInput, SameDevice
<1>5. CASE cond
    <2>1. t \in prebuffer(u) /\ u.ps = "PLAYING"
        BY <1>2, <1>3, <1>5 DEF SameInput
    <2>2. /\ Whole(t) /\ Tells(u, t) /\ RingFits(t)
          /\ t.ps = u.ps /\ t.cs = u.cs /\ t.shown \in {u.shown, u.cs}
          /\ PrebufferFits => t.failed = u.failed
        BY <1>4, <2>1, PrebufferDone
    <2> QED
        BY <1>2, <2>2 DEF SameInput, SameDevice, Tells
<1>6. CASE ~cond
    BY <1>2, <1>3, <1>4, <1>6 DEF SameInput, SameDevice
<1> QED
    BY <1>5, <1>6

-----------------------------------------------------------------------------

\* The pairs of statuses the commands leave behind; the last one is a decoder
\* without a device, see ReopenDone.
Pairs == {<<"UNLOADED", "STOPPED">>, <<"STOPPED", "STOPPED">>, <<"PLAYING", "PLAYING">>,
          <<"PAUSED", "PAUSED">>, <<"PLAYING", "STOPPED">>}

\* A state in which the locks may be released while the threads run.
Sound(s) == Whole(s) /\ RingFits(s) /\ <<s.ps, s.cs>> \in Pairs

\* A step from s that may release the locks in t.
Settles(s, t) ==
    /\ Sound(t) /\ Tells(s, t)
    /\ PrebufferFits => t.failed = s.failed

\* A published status stays published.
Shows(s, t) == s.shown = s.cs => t.shown = t.cs

\* Publishing the status changes nothing else.
LEMMA ShownDone ==
    ASSUME NEW s, Whole(s), NEW t, t = player_error(s) \/ t = player_status_changed(s)
    PROVE  /\ Whole(t) /\ SameInput(s, t) /\ SameDevice(s, t) /\ Tells(s, t)
           /\ RingFits(s) => RingFits(t)
           /\ t.shown = t.cs
<1>1. s \in PlayerStates
    BY DEF Whole
<1>2. t \in PlayerStates
    BY <1>1, HelperTypes
<1>3. SameInput(s, t) /\ SameDevice(s, t) /\ Tells(s, t) /\ t.shown = t.cs
    BY <1>1 DEF SameInput, SameDevice, Tells, PlayerStates, player_error, player_status_changed
<1> QED
    BY <1>2, <1>3 DEF Whole, ProducerHalf, ConsumerHalf, RingFits, SameInput, SameDevice

\* file_changed changes only player_info_priv.ti.
LEMMA FileChangedDone ==
    ASSUME NEW s, Whole(s), NEW loaded \in BOOLEAN, loaded \/ s.ps = "UNLOADED",
           NEW t, t = file_changed(s, loaded)
    PROVE  /\ Whole(t) /\ SameDevice(s, t) /\ Tells(s, t)
           /\ RingFits(s) => RingFits(t)
           /\ t.ps = s.ps /\ t.fmt = s.fmt /\ t.shown = s.shown
<1>1. s \in PlayerStates
    BY DEF Whole
<1>2. t \in PlayerStates
    BY <1>1, HelperTypes
<1>3. /\ SameDevice(s, t) /\ Tells(s, t) /\ t.ps = s.ps /\ t.fmt = s.fmt /\ t.shown = s.shown
      /\ ProducerHalf(t)
    BY <1>1 DEF Whole, ProducerHalf, SameDevice, Tells, PlayerStates, file_changed
<1> QED
    BY <1>2, <1>3 DEF Whole, ConsumerHalf, RingFits, SameDevice

\* Starting the device ends with both threads playing, or both stopped.
LEMMA StartConsumerDone ==
    ASSUME NEW s, Whole(s), RingFits(s), s.ps = "PLAYING", NEW t \in StartConsumer(s)
    PROVE  /\ Whole(t) /\ RingFits(t) /\ Tells(s, t) /\ t.failed = s.failed
           /\ <<t.ps, t.cs>> \in {<<"PLAYING", "PLAYING">>, <<"STOPPED", "STOPPED">>}
           /\ t.cs = "STOPPED" => t.shown = t.cs
<1>1. PICK u \in consumer_play(s) : t = IF u.cs = "PLAYING" THEN u ELSE producer_stop(u)
    BY DEF StartConsumer
<1>2. /\ Whole(u) /\ SameInput(s, u) /\ Tells(s, u) /\ RingFits(u)
      /\ u.cs \in {"PLAYING", "STOPPED"}
      /\ u.cs = "STOPPED" => u.shown = u.cs
    BY ConsumerPlayDone
<1>3. CASE u.cs = "PLAYING"
    BY <1>1, <1>2, <1>3 DEF SameInput
<1>4. CASE u.cs # "PLAYING"
    <2>1. t = producer_stop(u)
        BY <1>1, <1>4
    <2>2. Whole(t) /\ SameDevice(u, t) /\ Tells(u, t) /\ t.ps = "STOPPED" /\ t.fmt = u.fmt
             /\ t.shown = u.shown
        BY <1>2, <2>1, ProducerStopDone DEF SameInput
    <2> QED
        BY <1>2, <1>4, <2>2 DEF SameInput, SameDevice, Tells, RingFits
<1> QED
    BY <1>3, <1>4

\* _producer_play keeps the ring fitting, for a first track has no open device.
LEMMA Plays ==
    ASSUME NEW s, Whole(s), RingFits(s), s.ps = "UNLOADED" => s.cs = "STOPPED",
           NEW t \in producer_play(s)
    PROVE  RingFits(t)
<1>1. /\ Whole(t) /\ SameDevice(s, t) /\ (s.ps # "UNLOADED" => t.fmt = s.fmt)
    BY ProducerPlayDone
<1> QED
    BY <1>1 DEF Whole, ConsumerHalf, RingFits, SameDevice

\* player_stop.
LEMMA StopSettles ==
    ASSUME NEW s, Sound(s), NEW t \in player_stop(s)
    PROVE  Settles(s, t) /\ Shows(s, t)
<1> DEFINE u == consumer_stop(s)
           v == producer_stop(u)
<1>1. Whole(u) /\ SameInput(s, u) /\ Tells(s, u) /\ u.cs = "STOPPED" /\ RingFits(u)
    BY ConsumerStopDone DEF Sound
<1>2. t = player_status_changed(v)
    BY DEF player_stop
<1> HIDE DEF u
<1>3. /\ Whole(v) /\ SameDevice(u, v) /\ Tells(u, v) /\ v.ps \in {"UNLOADED", "STOPPED"}
      /\ v.fmt = u.fmt
    BY <1>1, ProducerStopDone
<1> HIDE DEF v
<1>4. /\ Whole(t) /\ SameInput(v, t) /\ SameDevice(v, t) /\ Tells(v, t) /\ t.shown = t.cs
      /\ RingFits(v) => RingFits(t)
    BY <1>2, <1>3, ShownDone
<1>5. RingFits(t)
    BY <1>1, <1>3, <1>4 DEF RingFits, SameDevice
<1>6. Tells(s, t) /\ t.failed = s.failed
    BY <1>1, <1>3, <1>4 DEF Tells, SameDevice, SameInput
<1>7. <<t.ps, t.cs>> \in Pairs
    BY <1>1, <1>3, <1>4 DEF Pairs, SameDevice, SameInput
<1> QED
    BY <1>4, <1>5, <1>6, <1>7 DEF Settles, Sound, Shows

\* player_play.
LEMMA PlaySettles ==
    ASSUME NEW s, Sound(s), NEW t \in player_play(s)
    PROVE  Settles(s, t) /\ Shows(s, t)
<1>1. CASE t = s
    BY <1>1 DEF Settles, Shows, Tells
<1>2. ASSUME NEW u \in producer_play(s),
             NEW v \in IF u.ps = "PLAYING" THEN StartConsumer(u) ELSE {consumer_stop(u)},
             t \in Publish(v, v.cs = "PLAYING" /\ s.cs = "STOPPED")
      PROVE  Settles(s, t) /\ Shows(s, t)
    <2>1. /\ Whole(u) /\ SameDevice(s, u) /\ Tells(s, u) /\ RingFits(u)
          /\ u.ps \in {"UNLOADED", "PLAYING"}
        BY ProducerPlayDone, Plays DEF Sound, Pairs
    <2>2. /\ Whole(v) /\ RingFits(v) /\ Tells(u, v) /\ v.failed = u.failed
          /\ <<v.ps, v.cs>> \in Pairs /\ (v.cs = "PLAYING" => v.ps = "PLAYING")
        <3>1. CASE u.ps = "PLAYING"
            BY <1>2, <2>1, <3>1, StartConsumerDone DEF Pairs
        <3>2. CASE u.ps = "UNLOADED"
            BY <1>2, <2>1, <3>2, ConsumerStopDone DEF Pairs, SameInput
        <3> QED
            BY <2>1, <3>1, <3>2
    <2>3. /\ Whole(t) /\ Tells(v, t) /\ RingFits(t)
          /\ t.ps = v.ps /\ t.cs = v.cs /\ t.shown = t.cs
          /\ PrebufferFits => t.failed = v.failed
        <3> DEFINE cond == v.cs = "PLAYING" /\ s.cs = "STOPPED"
        <3>1. cond \in BOOLEAN /\ (cond => v.ps = "PLAYING") /\ t \in Publish(v, cond)
            BY <1>2, <2>2
        <3> HIDE DEF cond
        <3> QED
            BY <2>2, <3>1, PublishDone
    <2>4. Tells(s, t) /\ (PrebufferFits => t.failed = s.failed)
        BY <2>1, <2>2, <2>3 DEF Tells, SameDevice
    <2> QED
        BY <2>2, <2>3, <2>4 DEF Settles, Sound, Shows
<1>3. \/ t = s
      \/ \E u \in producer_play(s) :
            \E v \in (IF u.ps = "PLAYING" THEN StartConsumer(u) ELSE {consumer_stop(u)}) :
                t \in Publish(v, v.cs = "PLAYING" /\ s.cs = "STOPPED")
    BY Zenon DEF player_play
<1> QED
    BY <1>1, <1>2, <1>3

\* player_pause, and player_pause_playback.
LEMMA PauseSettles ==
    ASSUME NEW s, Sound(s), NEW t \in player_pause(s)
    PROVE  Settles(s, t) /\ Shows(s, t)
<1>1. CASE s.cs = "STOPPED"
    <2>1. PICK u \in producer_play(s) :
             \E v \in (IF u.ps = "PLAYING" THEN StartConsumer(u) ELSE {u}) :
                 t \in Publish(v, v.cs = "PLAYING")
        BY <1>1, Zenon DEF player_pause
    <2>2. PICK v \in (IF u.ps = "PLAYING" THEN StartConsumer(u) ELSE {u}) :
              t \in Publish(v, v.cs = "PLAYING")
        BY <2>1
    <2>3. /\ Whole(u) /\ SameDevice(s, u) /\ Tells(s, u) /\ RingFits(u)
          /\ u.ps \in {"UNLOADED", "PLAYING"}
        BY ProducerPlayDone, Plays DEF Sound, Pairs
    <2>4. /\ Whole(v) /\ RingFits(v) /\ Tells(u, v) /\ v.failed = u.failed
          /\ <<v.ps, v.cs>> \in Pairs /\ (v.cs = "PLAYING" => v.ps = "PLAYING")
        <3>1. CASE u.ps = "PLAYING"
            BY <2>3, <3>1, StartConsumerDone DEF Pairs
        <3>2. CASE u.ps = "UNLOADED"
            BY <1>1, <2>3, <3>2 DEF Pairs, SameDevice, Tells
        <3> QED
            BY <2>3, <3>1, <3>2
    <2>5. /\ Whole(t) /\ Tells(v, t) /\ RingFits(t)
          /\ t.ps = v.ps /\ t.cs = v.cs /\ t.shown = t.cs
          /\ PrebufferFits => t.failed = v.failed
        <3> DEFINE cond == v.cs = "PLAYING"
        <3>1. cond \in BOOLEAN /\ (cond => v.ps = "PLAYING") /\ t \in Publish(v, cond)
            BY <2>2, <2>4
        <3> HIDE DEF cond
        <3> QED
            BY <2>4, <3>1, PublishDone
    <2>6. Tells(s, t) /\ (PrebufferFits => t.failed = s.failed)
        BY <2>3, <2>4, <2>5 DEF Tells, SameDevice
    <2> QED
        BY <2>4, <2>5, <2>6 DEF Settles, Sound, Shows
<1>2. CASE s.cs # "STOPPED"
    <2> DEFINE u == producer_pause(s)
               v == consumer_pause(u)
    <2>1. t = player_status_changed(v)
        BY <1>2 DEF player_pause
    <2>2. /\ Whole(u) /\ SameDevice(s, u) /\ Tells(s, u) /\ u.fmt = s.fmt
          /\ u.ps = CASE s.ps = "PLAYING" -> "PAUSED"
                      [] s.ps = "PAUSED"  -> "PLAYING"
                      [] OTHER            -> s.ps
        BY ProducerPauseDone DEF Sound
    <2> HIDE DEF u
    <2>3. RingFits(u)
        BY <2>2 DEF Sound, RingFits, SameDevice
    <2>4. /\ Whole(v) /\ SameInput(u, v) /\ RingFits(v) /\ Tells(u, v)
          /\ v.cs = CASE u.cs = "PLAYING" -> "PAUSED"
                      [] u.cs = "PAUSED"  -> "PLAYING"
                      [] OTHER            -> u.cs
        BY <2>2, <2>3, ConsumerPauseDone
    <2> HIDE DEF v
    <2>5. /\ Whole(t) /\ SameInput(v, t) /\ SameDevice(v, t) /\ Tells(v, t) /\ t.shown = t.cs
          /\ RingFits(t)
        BY <2>1, <2>4, ShownDone
    <2>6. <<s.ps, s.cs>> \in {<<"PLAYING", "PLAYING">>, <<"PAUSED", "PAUSED">>}
        BY <1>2 DEF Sound, Pairs
    <2>7. <<t.ps, t.cs>> \in Pairs
        BY <2>2, <2>4, <2>5, <2>6 DEF Pairs, SameDevice, SameInput
    <2>8. Tells(s, t) /\ t.failed = s.failed
        BY <2>2, <2>4, <2>5 DEF Tells, SameDevice, SameInput
    <2> QED
        BY <2>5, <2>7, <2>8 DEF Settles, Sound, Shows
<1> QED
    BY <1>1, <1>2

\* The common end of player_set_file and player_play_file.
LEMMA LoadedSettles ==
    ASSUME NEW s, Sound(s), NEW v, Whole(v), RingFits(v), Tells(s, v), v.failed = s.failed,
           <<v.ps, v.cs>> \in Pairs, NEW t \in Publish(v, v.ps = "PLAYING")
    PROVE  Settles(s, t) /\ Shows(s, t)
<1> DEFINE cond == v.ps = "PLAYING"
<1>1. cond \in BOOLEAN /\ (cond => v.ps = "PLAYING") /\ t \in Publish(v, cond)
    OBVIOUS
<1> HIDE DEF cond
<1>2. /\ Whole(t) /\ Tells(v, t) /\ RingFits(t)
      /\ t.ps = v.ps /\ t.cs = v.cs /\ t.shown = t.cs
      /\ PrebufferFits => t.failed = v.failed
    BY <1>1, PublishDone
<1>3. Tells(s, t) /\ (PrebufferFits => t.failed = s.failed)
    BY <1>2 DEF Tells
<1> QED
    BY <1>2, <1>3 DEF Settles, Sound, Shows

\* player_set_file.
LEMMA SetFileSettles ==
    ASSUME NEW s, Sound(s), NEW track \in Tracks, NEW t \in player_set_file(s, track)
    PROVE  Settles(s, t) /\ Shows(s, t)
<1> DEFINE loaded == producer_set_file(s, track)
<1>1. /\ Whole(loaded) /\ SameDevice(s, loaded) /\ Tells(s, loaded) /\ loaded.ps = "STOPPED"
    BY ProducerSetFileDone DEF Sound
<1>2. \E v \in (IF loaded.cs = "STOPPED" THEN {loaded}
                ELSE UNION {IF u.ps = "UNLOADED" THEN {consumer_stop(u)} ELSE change_sf(u) :
                            u \in producer_play(loaded)}) :
          t \in Publish(v, v.ps = "PLAYING")
    BY Zenon DEF player_set_file
<1> HIDE DEF loaded
<1>3. CASE loaded.cs = "STOPPED"
    <2>1. t \in Publish(loaded, loaded.ps = "PLAYING")
        BY <1>2, <1>3
    <2>2. RingFits(loaded) /\ loaded.failed = s.failed
        BY <1>1, <1>3 DEF Whole, ConsumerHalf, RingFits, SameDevice
    <2>3. <<loaded.ps, loaded.cs>> \in Pairs
        BY <1>1, <1>3 DEF Pairs
    <2> QED
        BY <1>1, <2>1, <2>2, <2>3, LoadedSettles
<1>4. CASE loaded.cs # "STOPPED"
    <2>1. PICK u \in producer_play(loaded) :
             \E v \in (IF u.ps = "UNLOADED" THEN {consumer_stop(u)} ELSE change_sf(u)) :
                 t \in Publish(v, v.ps = "PLAYING")
        BY <1>2, <1>4
    <2>2. PICK v \in (IF u.ps = "UNLOADED" THEN {consumer_stop(u)} ELSE change_sf(u)) :
              t \in Publish(v, v.ps = "PLAYING")
        BY <2>1
    <2>3. /\ Whole(u) /\ SameDevice(loaded, u) /\ Tells(loaded, u)
          /\ u.ps \in {"UNLOADED", "PLAYING"}
        BY <1>1, ProducerPlayDone
    <2>4. /\ Whole(v) /\ RingFits(v) /\ Tells(u, v) /\ v.failed = u.failed
          /\ <<v.ps, v.cs>> \in Pairs
        <3>1. CASE u.ps = "PLAYING"
            <4>1. u.cs # "STOPPED" /\ v \in change_sf(u)
                BY <1>4, <2>3, <3>1 DEF SameDevice
            <4> QED
                BY <2>3, <3>1, <4>1, ChangeSfDone DEF Pairs
        <3>2. CASE u.ps = "UNLOADED"
            BY <2>3, <3>2, ConsumerStopDone DEF Pairs, SameInput
        <3> QED
            BY <2>3, <3>1, <3>2
    <2>5. Tells(s, v) /\ v.failed = s.failed
        BY <1>1, <2>3, <2>4 DEF Tells, SameDevice
    <2> QED
        BY <2>2, <2>4, <2>5, LoadedSettles
<1> QED
    BY <1>3, <1>4

\* player_play_file.
LEMMA PlayFileSettles ==
    ASSUME NEW s, Sound(s), NEW track \in Tracks, NEW t \in player_play_file(s, track)
    PROVE  Settles(s, t) /\ Shows(s, t)
<1> DEFINE loaded == producer_set_file(s, track)
           Begun(u) == IF u.ps = "UNLOADED" THEN {consumer_stop(u)}
                       ELSE IF u.cs = "STOPPED" THEN StartConsumer(u)
                       ELSE change_sf(u)
<1>1. /\ Whole(loaded) /\ SameDevice(s, loaded) /\ Tells(s, loaded) /\ loaded.ps = "STOPPED"
    BY ProducerSetFileDone DEF Sound
<1>2. \E u \in producer_play(loaded) : \E v \in Begun(u) : t \in Publish(v, v.ps = "PLAYING")
    <2>1. t \in UNION {Publish(v, v.ps = "PLAYING") :
                          v \in UNION {Begun(u) : u \in producer_play(loaded)}}
        BY DEF player_play_file
    <2> HIDE DEF loaded, Begun
    <2> QED
        BY <2>1, Zenon
<1> HIDE DEF loaded
<1>3. PICK u \in producer_play(loaded) : \E v \in Begun(u) : t \in Publish(v, v.ps = "PLAYING")
    BY <1>2
<1>4. PICK v \in Begun(u) : t \in Publish(v, v.ps = "PLAYING")
    BY <1>3
<1>5. /\ Whole(u) /\ SameDevice(loaded, u) /\ Tells(loaded, u)
      /\ u.ps \in {"UNLOADED", "PLAYING"}
    BY <1>1, ProducerPlayDone
<1>6. /\ Whole(v) /\ RingFits(v) /\ Tells(u, v) /\ v.failed = u.failed
      /\ <<v.ps, v.cs>> \in Pairs
    <2>1. CASE u.ps = "UNLOADED"
        BY <1>4, <1>5, <2>1, ConsumerStopDone DEF Pairs, SameInput
    <2>2. CASE u.ps = "PLAYING" /\ u.cs = "STOPPED"
        <3>1. RingFits(u)
            BY <1>5, <2>2 DEF Whole, ConsumerHalf, RingFits
        <3>2. v \in StartConsumer(u)
            BY <1>4, <2>2
        <3> QED
            BY <1>5, <2>2, <3>1, <3>2, StartConsumerDone DEF Pairs
    <2>3. CASE u.ps = "PLAYING" /\ u.cs # "STOPPED"
        <3>1. v \in change_sf(u)
            BY <1>4, <2>3
        <3> QED
            BY <1>5, <2>3, <3>1, ChangeSfDone DEF Pairs
    <2> QED
        BY <1>5, <2>1, <2>2, <2>3
<1>7. Tells(s, v) /\ v.failed = s.failed
    BY <1>1, <1>5, <1>6 DEF Tells, SameDevice
<1> QED
    BY <1>4, <1>6, <1>7, LoadedSettles

\* player_seek starts a stopped player first.
LEMMA SeekStartSettles ==
    ASSUME NEW s, Sound(s), NEW t \in SeekStart(s)
    PROVE  /\ Sound(t) /\ Tells(s, t) /\ t.failed = s.failed /\ Shows(s, t)
           /\ s.cs # "STOPPED" => t = s
<1>1. CASE s.cs # "STOPPED"
    BY <1>1 DEF SeekStart, Tells, Shows
<1>2. CASE s.cs = "STOPPED"
    <2>1. PICK u \in producer_play(s) :
              t \in IF u.ps # "PLAYING" THEN {u}
                    ELSE {IF v.cs = "PLAYING" THEN player_status_changed(v)
                                              ELSE producer_stop(v) : v \in consumer_play(u)}
        BY <1>2, Zenon DEF SeekStart
    <2>2. /\ Whole(u) /\ SameDevice(s, u) /\ Tells(s, u) /\ RingFits(u)
          /\ u.ps \in {"UNLOADED", "PLAYING"} /\ u.shown \in {s.shown, s.cs}
        BY ProducerPlayDone, Plays DEF Sound, Pairs
    <2>3. CASE u.ps = "UNLOADED"
        BY <1>2, <2>1, <2>2, <2>3 DEF Sound, Pairs, SameDevice, Shows
    <2>4. CASE u.ps = "PLAYING"
        <3>1. PICK v \in consumer_play(u) :
                  t = IF v.cs = "PLAYING" THEN player_status_changed(v) ELSE producer_stop(v)
            BY <2>1, <2>4
        <3>2. /\ Whole(v) /\ SameInput(u, v) /\ Tells(u, v) /\ RingFits(v)
              /\ v.cs \in {"PLAYING", "STOPPED"}
              /\ v.shown = IF v.cs = "STOPPED" THEN v.cs ELSE u.shown
            BY <2>2, <2>4, ConsumerPlayDone
        <3>3. CASE v.cs = "PLAYING"
            <4>1. t = player_status_changed(v)
                BY <3>1, <3>3
            <4>2. /\ Whole(t) /\ SameInput(v, t) /\ SameDevice(v, t) /\ Tells(v, t)
                  /\ RingFits(t) /\ t.shown = t.cs
                BY <3>2, <4>1, ShownDone
            <4>3. <<t.ps, t.cs>> = <<"PLAYING", "PLAYING">>
                BY <2>4, <3>2, <3>3, <4>2 DEF SameInput, SameDevice
            <4>4. Tells(s, t) /\ t.failed = s.failed
                BY <2>2, <3>2, <4>2 DEF Tells, SameInput, SameDevice
            <4> QED
                BY <1>2, <4>2, <4>3, <4>4 DEF Sound, Pairs, Shows
        <3>4. CASE v.cs = "STOPPED"
            <4>1. t = producer_stop(v)
                BY <3>1, <3>4
            <4>2. /\ Whole(t) /\ SameDevice(v, t) /\ Tells(v, t) /\ t.fmt = v.fmt
                  /\ t.shown = v.shown /\ t.ps = "STOPPED"
                BY <2>4, <3>2, <4>1, ProducerStopDone DEF SameInput
            <4>3. <<t.ps, t.cs>> = <<"STOPPED", "STOPPED">> /\ t.shown = t.cs
                BY <3>2, <3>4, <4>2 DEF SameDevice
            <4>4. Tells(s, t) /\ t.failed = s.failed /\ RingFits(t)
                BY <2>2, <3>2, <4>2 DEF Tells, SameInput, SameDevice, RingFits
            <4> QED
                BY <1>2, <4>2, <4>3, <4>4 DEF Sound, Pairs, Shows
        <3> QED
            BY <3>2, <3>3, <3>4
    <2> QED
        BY <2>2, <2>3, <2>4
<1> QED
    BY <1>1, <1>2

\* A seek empties the ring, so that nothing in it is stale, and tells it.
LEMMA MovedDone ==
    ASSUME NEW s, Sound(s), s.cs # "STOPPED", NEW t, t = reset_buffer(SeekOk(s))
    PROVE  Sound(t) /\ Tells(s, t) /\ t.failed = s.failed /\ SameDevice(s, t) /\ t.shown = s.shown
<1>1. s \in PlayerStates
    BY DEF Sound, Whole
<1>2. t \in PlayerStates
    BY <1>1, InputTypes, HelperTypes
<1>3. s.ps \in {"PLAYING", "PAUSED"}
    BY DEF Sound, Pairs
<1>4. /\ ProducerHalf(t) /\ SameDevice(s, t) /\ Tells(s, t)
      /\ t.ps = s.ps /\ t.fmt = s.fmt /\ t.shown = s.shown
    BY <1>1, <1>3 DEF Sound, Whole, ProducerHalf, SameDevice, Tells, PlayerStates,
        reset_buffer, SeekOk, Moved
<1> QED
    BY <1>2, <1>4 DEF Sound, Whole, ConsumerHalf, RingFits, SameDevice

\* player_seek.
LEMMA SeekSettles ==
    ASSUME NEW s, Sound(s), NEW t \in player_seek(s)
    PROVE  Settles(s, t) /\ Shows(s, t)
<1> DEFINE wasStopped == s.cs = "STOPPED"
<1>1. PICK u \in SeekStart(s) : t \in SeekTo(u, wasStopped)
    BY DEF player_seek
<1>2. Sound(u) /\ Tells(s, u) /\ u.failed = s.failed /\ Shows(s, u)
    BY SeekStartSettles
<1> DEFINE moved == reset_buffer(SeekOk(u))
<1>3. \/ t = u
      \/ t = player_error(u)
      \/ u.cs # "STOPPED" /\ t = moved
      \/ u.cs # "STOPPED" /\ t = player_status_changed(consumer_pause(producer_pause(moved)))
    BY <1>1 DEF SeekTo
<1>4. CASE t = u
    BY <1>2, <1>4 DEF Settles
<1>5. CASE t = player_error(u)
    <2>1. /\ Whole(t) /\ SameInput(u, t) /\ SameDevice(u, t) /\ Tells(u, t)
          /\ RingFits(t) /\ t.shown = t.cs
        BY <1>2, <1>5, ShownDone DEF Sound
    <2>2. <<t.ps, t.cs>> \in Pairs
        BY <1>2, <2>1 DEF Sound, SameInput, SameDevice
    <2>3. Tells(s, t) /\ t.failed = s.failed
        BY <1>2, <2>1 DEF Tells, SameInput
    <2> QED
        BY <2>1, <2>2, <2>3 DEF Settles, Sound, Shows
<1>6. ASSUME u.cs # "STOPPED"
      PROVE  /\ Sound(moved) /\ Tells(u, moved) /\ moved.failed = u.failed
             /\ moved.cs = u.cs /\ moved.shown = u.shown
    BY <1>2, <1>6, MovedDone DEF SameDevice
<1> HIDE DEF moved
<1>7. CASE u.cs # "STOPPED" /\ t = moved
    <2>1. Tells(s, t) /\ t.failed = s.failed /\ Shows(s, t)
        BY <1>2, <1>6, <1>7 DEF Tells, Shows
    <2> QED
        BY <1>6, <1>7, <2>1 DEF Settles
<1>8. CASE u.cs # "STOPPED" /\ t = player_status_changed(consumer_pause(producer_pause(moved)))
    <2>1. t \in player_pause(moved)
        BY <1>6, <1>8 DEF player_pause
    <2>2. Settles(moved, t) /\ t.shown = t.cs
        <3>1. Settles(moved, t)
            BY <1>6, <1>8, <2>1, PauseSettles
        <3>2. t.shown = t.cs
            <4> DEFINE v == consumer_pause(producer_pause(moved))
            <4>1. Whole(producer_pause(moved)) /\ RingFits(producer_pause(moved))
                BY <1>6, <1>8, ProducerPauseDone DEF Sound, RingFits, SameDevice
            <4>2. Whole(v)
                BY <4>1, ConsumerPauseDone
            <4> QED
                BY <1>8, <4>2, ShownDone
        <3> QED
            BY <3>1, <3>2
    <2>3. Tells(s, t) /\ (PrebufferFits => t.failed = s.failed)
        BY <1>2, <1>6, <1>8, <2>2 DEF Settles, Tells
    <2> QED
        BY <2>2, <2>3 DEF Settles, Shows
<1> QED
    BY <1>3, <1>4, <1>5, <1>7, <1>8

\* player_seek past the end.
LEMMA SeekPastEndSettles ==
    ASSUME NEW s, Sound(s), NEW t \in SeekPastEnd(s)
    PROVE  Settles(s, t) /\ Shows(s, t)
<1>1. t \in SeekStart(s)
    BY DEF SeekPastEnd
<1> QED
    BY <1>1, SeekStartSettles DEF Settles

\* Giving up a device that could not be opened stops both threads.
LEMMA GivenUpSettles ==
    ASSUME NEW s, NEW v, NEW t,
           Whole(v), v.cs = "STOPPED", Tells(s, v), v.failed = s.failed,
           t = producer_stop(v)
    PROVE  Settles(s, t) /\ t.cs = "STOPPED" /\ t.shown = v.shown
<1>1. /\ Whole(t) /\ SameDevice(v, t) /\ Tells(v, t)
      /\ t.ps = (IF v.ps = "UNLOADED" THEN "UNLOADED" ELSE "STOPPED") /\ t.shown = v.shown
    BY ProducerStopDone
<1>2. Tells(s, t) /\ t.failed = s.failed /\ t.cs = "STOPPED"
    BY <1>1 DEF Tells, SameDevice
<1>3. RingFits(t) /\ <<t.ps, t.cs>> \in Pairs
    BY <1>1, <1>2 DEF Whole, ConsumerHalf, RingFits, Pairs
<1> QED
    BY <1>1, <1>2, <1>3 DEF Settles, Sound

\* player_set_op, when the plugin changes and when it cannot.
LEMMA SetOpSettles ==
    ASSUME NEW s, Sound(s), NEW t \in player_set_op(s)
    PROVE  Settles(s, t) /\ Shows(s, t)
<1> DEFINE wasOpen == s.cs # "STOPPED"
           closed == IF wasOpen THEN op_close(s) ELSE s
           given(v) == player_error(producer_stop(consumer_status_update(v, "STOPPED")))
           u == set_buffer_sf(closed)
           w == IF s.cs = "PAUSED" THEN [op_opened(u) EXCEPT !.dev = "paused"]
                                   ELSE op_opened(u)
<1>1. s \in PlayerStates
    BY DEF Sound, Whole
<1>2. /\ closed \in PlayerStates /\ SameInput(s, closed) /\ Tells(s, closed)
      /\ closed.cs = s.cs /\ closed.dev = "closed" /\ closed.bufsf = s.bufsf
      /\ closed.fast = s.fast /\ closed.shown = s.shown
    <2>1. closed \in PlayerStates
        BY <1>1, HelperTypes
    <2>2. CASE wasOpen
        BY <1>1, <2>1, <2>2 DEF SameInput, Tells, PlayerStates, op_close
    <2>3. CASE ~wasOpen
        BY <1>1, <2>1, <2>3 DEF Sound, Whole, ConsumerHalf, SameInput, Tells
    <2> QED
        BY <2>2, <2>3
<1>3. \/ t = given(closed)
      \/ wasOpen /\ t = given(u)
      \/ wasOpen /\ t = w
      \/ ~wasOpen /\ t = closed
    BY DEF player_set_op
<1> HIDE DEF closed
<1>4. wasOpen => u = [closed EXCEPT !.bufsf = s.fmt] /\ s.ps \in {"PLAYING", "PAUSED"}
    BY <1>2 DEF Sound, Whole, ProducerHalf, Pairs, SameInput, set_buffer_sf, BugOn
<1>5. u \in PlayerStates
    BY <1>2, HelperTypes
<1> HIDE DEF u
<1>6. ASSUME NEW v, v = closed \/ (wasOpen /\ v = u), t = given(v)
      PROVE  Settles(s, t) /\ Shows(s, t)
    <2> DEFINE x == consumer_status_update(v, "STOPPED")
               y == producer_stop(x)
    <2>1. x \in PlayerStates
        BY <1>2, <1>5, <1>6, HelperTypes DEF CStatus
    <2>2. SameInput(s, x) /\ Tells(s, x) /\ x.cs = "STOPPED" /\ x.dev = "closed"
        BY <1>2, <1>4, <1>6 DEF SameInput, Tells, PlayerStates, consumer_status_update
    <2>3. Whole(x) /\ x.failed = s.failed
        BY <2>1, <2>2 DEF Sound, Whole, ProducerHalf, ConsumerHalf, SameInput
    <2>4. t = player_error(y)
        BY <1>6
    <2> HIDE DEF x
    <2>5. Settles(s, y)
        BY <2>2, <2>3, GivenUpSettles
    <2> HIDE DEF y
    <2>6. Whole(t) /\ SameInput(y, t) /\ SameDevice(y, t) /\ Tells(y, t)
              /\ RingFits(t) /\ t.shown = t.cs
        BY <2>4, <2>5, ShownDone DEF Settles, Sound
    <2>7. /\ <<t.ps, t.cs>> \in Pairs /\ Tells(s, t)
          /\ PrebufferFits => t.failed = s.failed
        BY <2>5, <2>6 DEF Settles, Sound, Tells, SameInput, SameDevice
    <2> QED
        BY <2>6, <2>7 DEF Settles, Sound, Shows
<1>7. CASE wasOpen /\ t = w
    <2>1. op_opened(u) \in PlayerStates
        BY <1>5, HelperTypes
    <2>2. [op_opened(u) EXCEPT !.dev = "paused"] \in PlayerStates
        BY <2>1 DEF PlayerStates
    <2>3. t \in PlayerStates
        BY <1>7, <2>1, <2>2
    <2>4. /\ SameInput(s, t) /\ Tells(s, t) /\ t.cs = s.cs /\ t.shown = s.shown
          /\ t.devsf = <<t.bufsf, t.fast>> /\ t.bufsf = t.fmt
        BY <1>2, <1>4, <1>5, <1>7 DEF SameInput, Tells, PlayerStates, op_opened
    <2>5. t.dev = IF s.cs = "PAUSED" THEN "paused" ELSE "running"
        BY <1>5, <1>7 DEF PlayerStates, op_opened
    <2>6. ConsumerHalf(t)
        BY <1>1, <1>7, <2>4, <2>5 DEF ConsumerHalf, PlayerStates, CStatus
    <2> QED
        BY <2>3, <2>4, <2>6 DEF Settles, Shows, Sound, Whole, ProducerHalf, RingFits, SameInput
<1>8. CASE ~wasOpen /\ t = closed
    <2>1. t = s
        BY <1>8 DEF closed
    <2> QED
        BY <2>1 DEF Settles, Shows, Tells
<1> QED
    BY <1>3, <1>6, <1>7, <1>8

\* player_set_buffer_chunks: the ring is reset without a broadcast, but after both
\* threads were stopped.
LEMMA SetBufferChunksSettles ==
    ASSUME NEW s, Sound(s), NEW t \in player_set_buffer_chunks(s)
    PROVE  Settles(s, t) /\ Shows(s, t)
<1> DEFINE u == producer_stop(s)
           v == consumer_stop(u)
           w == ResetQuietly(v)
<1>1. /\ Whole(u) /\ SameDevice(s, u) /\ Tells(s, u) /\ u.ps \in {"UNLOADED", "STOPPED"}
    BY ProducerStopDone DEF Sound
<1>2. t = player_status_changed(w)
    BY DEF player_set_buffer_chunks
<1> HIDE DEF u
<1>3. Whole(v) /\ SameInput(u, v) /\ Tells(u, v) /\ v.cs = "STOPPED" /\ RingFits(v)
    BY <1>1, ConsumerStopDone
<1> HIDE DEF v
<1>4. v \in PlayerStates /\ v.n = 0 /\ ~v.part
    BY <1>1, <1>3 DEF Whole, ProducerHalf, SameInput
<1>5. w \in PlayerStates
    BY <1>4, HelperTypes
<1>6. w.eof = v.eof /\ w.failed = v.failed /\ w.n = 0 /\ ~w.part /\ ~w.stale
    BY <1>4 DEF PlayerStates, ResetQuietly
<1>7. /\ w.ps = v.ps /\ w.ip = v.ip /\ w.fmt = v.fmt /\ w.ti = v.ti /\ w.cs = v.cs
      /\ w.dev = v.dev /\ w.devsf = v.devsf /\ w.bufsf = v.bufsf /\ w.fast = v.fast
      /\ w.sigP = v.sigP /\ w.sigC = v.sigC
    BY <1>4 DEF PlayerStates, ResetQuietly
<1> HIDE DEF w
<1>8. Whole(w) /\ RingFits(w) /\ Tells(v, w)
    BY <1>3, <1>5, <1>6, <1>7 DEF Whole, ProducerHalf, ConsumerHalf, RingFits, Tells
<1>9. /\ Whole(t) /\ SameInput(w, t) /\ SameDevice(w, t) /\ Tells(w, t)
      /\ RingFits(t) /\ t.shown = t.cs
    BY <1>2, <1>8, ShownDone
<1>10. <<t.ps, t.cs>> \in Pairs
    BY <1>1, <1>3, <1>7, <1>9 DEF Pairs, SameInput, SameDevice
<1>11. Tells(s, t) /\ t.failed = s.failed
    BY <1>1, <1>3, <1>6, <1>8, <1>9 DEF Tells, SameInput, SameDevice
<1> QED
    BY <1>9, <1>10, <1>11 DEF Settles, Sound, Shows

\* A reopened device goes on in the status it had.
LEMMA ReopenCompleteDone ==
    ASSUME NEW s, NEW u, NEW t, NEW fast \in BOOLEAN, NEW wasPaused \in BOOLEAN,
           Sound(s), s.cs # "STOPPED", u \in PlayerStates,
           SameInput(s, u), Tells(s, u), u.bufsf = s.bufsf, u.fast = fast,
           t = player_reopen_complete(op_opened(u), wasPaused),
           wasPaused <=> s.cs = "PAUSED"
    PROVE  /\ Settles(s, t) /\ t.cs = s.cs /\ t.shown = u.shown
<1> DEFINE v == op_opened(u)
           w == [v EXCEPT !.dev = "paused"]
<1>1. v \in PlayerStates
    BY HelperTypes
<1>2. w \in PlayerStates
    BY <1>1 DEF PlayerStates
<1>3. /\ SameInput(s, v) /\ Tells(s, v) /\ v.dev = "running" /\ v.devsf = <<v.bufsf, v.fast>>
      /\ v.bufsf = s.bufsf /\ v.shown = u.shown
    BY DEF SameInput, Tells, PlayerStates, op_opened
<1> HIDE DEF v
<1>4. s.bufsf = s.fmt /\ s.cs \in {"PLAYING", "PAUSED"} /\ s.ps = s.cs
    BY DEF Sound, Whole, ConsumerHalf, RingFits, Pairs
<1>5. t = IF wasPaused THEN consumer_status_update(w, "PAUSED")
                       ELSE consumer_status_update(v, "PLAYING")
    BY DEF player_reopen_complete, v
<1>6. t \in PlayerStates
    BY <1>1, <1>2, <1>5, HelperTypes DEF CStatus
<1>7. /\ SameInput(s, t) /\ Tells(s, t) /\ t.cs = s.cs /\ t.shown = u.shown
      /\ t.devsf = <<t.bufsf, t.fast>> /\ t.bufsf = t.fmt
    BY <1>1, <1>3, <1>4, <1>5 DEF SameInput, Tells, PlayerStates, consumer_status_update
<1>8. ConsumerHalf(t)
    BY <1>1, <1>3, <1>4, <1>5, <1>7 DEF ConsumerHalf, PlayerStates, consumer_status_update
<1> QED
    BY <1>4, <1>6, <1>7, <1>8
    DEF Settles, Sound, Whole, ProducerHalf, RingFits, SameInput

\* player_set_speed settles, but a refused speed may leave the old status shown:
\* there is no Shows.
LEMMA SetSpeedSettles ==
    ASSUME NEW s, Sound(s), NEW speed \in BOOLEAN, NEW t \in player_set_speed(s, speed)
    PROVE  Settles(s, t)
<1>1. s \in PlayerStates
    BY DEF Sound, Whole
<1> DEFINE u == [s EXCEPT !.fast = speed]
           closed == op_close(u)
           back == [closed EXCEPT !.fast = s.fast]
           wasPaused == s.cs = "PAUSED"
<1>2. u \in PlayerStates /\ s.fast \in BOOLEAN
    BY <1>1 DEF PlayerStates
<1>3. closed \in PlayerStates
    BY <1>2, HelperTypes
<1>4. back \in PlayerStates
    <2> HIDE DEF closed
    <2> QED
        BY <1>2, <1>3 DEF PlayerStates
<1>5. \/ t = s
      \/ s.cs = "STOPPED" /\ t = u
      \/ s.cs # "STOPPED" /\ t = player_reopen_complete(op_opened(closed), wasPaused)
      \/ s.cs # "STOPPED" /\ t = player_error(player_reopen_complete(op_opened(back), wasPaused))
      \/ s.cs # "STOPPED" /\ t = producer_stop(consumer_status_update(player_error(back), "STOPPED"))
    BY DEF player_set_speed, SpeedRefused
<1>6. /\ SameInput(s, u) /\ Tells(s, u) /\ u.bufsf = s.bufsf /\ u.fast = speed
      /\ u.cs = s.cs /\ u.dev = s.dev
    BY <1>1 DEF SameInput, Tells, PlayerStates
<1> HIDE DEF u
<1>7. /\ SameInput(s, closed) /\ Tells(s, closed) /\ closed.bufsf = s.bufsf
      /\ closed.fast = speed /\ closed.dev = "closed"
    BY <1>2, <1>6 DEF SameInput, Tells, PlayerStates, op_close
<1> HIDE DEF closed
<1>8. /\ SameInput(s, back) /\ Tells(s, back) /\ back.bufsf = s.bufsf
      /\ back.fast = s.fast /\ back.dev = "closed"
    BY <1>3, <1>7 DEF SameInput, Tells, PlayerStates
<1> HIDE DEF back
<1>9. CASE t = s
    BY <1>9 DEF Settles, Tells
<1>10. CASE s.cs = "STOPPED" /\ t = u
    BY <1>2, <1>6, <1>10
    DEF Settles, Sound, Whole, ProducerHalf, ConsumerHalf, RingFits, SameInput
<1>11. CASE s.cs # "STOPPED" /\ t = player_reopen_complete(op_opened(closed), wasPaused)
    BY <1>3, <1>7, <1>11, ReopenCompleteDone
<1>12. CASE s.cs # "STOPPED" /\ t = player_error(player_reopen_complete(op_opened(back), wasPaused))
    <2> DEFINE v == player_reopen_complete(op_opened(back), wasPaused)
    <2>1. Settles(s, v)
        BY <1>2, <1>4, <1>8, <1>12, ReopenCompleteDone
    <2> HIDE DEF v
    <2>2. /\ Whole(t) /\ SameInput(v, t) /\ SameDevice(v, t) /\ Tells(v, t) /\ RingFits(t)
        BY <1>12, <2>1, ShownDone DEF Settles, Sound, v
    <2> QED
        BY <2>1, <2>2 DEF Settles, Sound, Tells, SameInput, SameDevice
<1>13. CASE s.cs # "STOPPED"
            /\ t = producer_stop(consumer_status_update(player_error(back), "STOPPED"))
    <2> DEFINE v == consumer_status_update(player_error(back), "STOPPED")
    <2>1. v \in PlayerStates
        BY <1>4, HelperTypes DEF CStatus
    <2>2. SameInput(s, v) /\ Tells(s, v) /\ v.cs = "STOPPED" /\ v.dev = "closed"
        BY <1>4, <1>8 DEF SameInput, Tells, PlayerStates, consumer_status_update, player_error
    <2> HIDE DEF v
    <2>3. Whole(v) /\ v.failed = s.failed
        BY <2>1, <2>2 DEF Sound, Whole, ProducerHalf, ConsumerHalf, SameInput
    <2>4. t = producer_stop(v)
        BY <1>13 DEF v
    <2> QED
        BY <2>2, <2>3, <2>4, GivenUpSettles
<1> QED
    BY <1>5, <1>9, <1>10, <1>11, <1>12, <1>13

-----------------------------------------------------------------------------

\* A round of producer_loop that reads data touches only the ring.
LEMMA ReadDataDone ==
    ASSUME NEW s, Sound(s), s.ps = "PLAYING", ~s.eof, s.n < NrChunks, NEW t \in ReadData(s)
    PROVE  /\ Sound(t) /\ SameButTheRing(s, t) /\ t.failed = s.failed /\ t.shown = s.shown
           /\ ~t.eof /\ t.n >= s.n
<1>1. s \in PlayerStates /\ s.ti /\ s.n \in 0 .. NrChunks
    BY DEF Sound, Whole, ProducerHalf, PlayerStates
<1>2. t = [s EXCEPT !.part = TRUE] \/ t = [s EXCEPT !.part = FALSE, !.n = s.n + 1]
    BY <1>1 DEF ReadData, BugOn
<1>3. s.n + 1 \in 0 .. NrChunks
    BY <1>1, NrChunksAssumption
<1>4. t \in PlayerStates
    <2>1. [s EXCEPT !.part = TRUE] \in PlayerStates
        BY <1>1 DEF PlayerStates
    <2>2. \A k \in 0 .. NrChunks : [s EXCEPT !.part = FALSE, !.n = k] \in PlayerStates
        BY <1>1 DEF PlayerStates
    <2> QED
        BY <1>2, <1>3, <2>1, <2>2
<1>5. /\ SameButTheRing(s, t) /\ t.failed = s.failed /\ t.shown = s.shown
      /\ ~t.eof
    BY <1>1, <1>2 DEF SameButTheRing, PlayerStates
<1>6. t.n >= s.n
    <2>1. t.n = s.n \/ t.n = s.n + 1
        BY <1>1, <1>2 DEF PlayerStates
    <2> QED
        BY <1>1, <2>1
<1> QED
    BY <1>4, <1>5, <1>6
    DEF Sound, Whole, ProducerHalf, ConsumerHalf, RingFits, SameButTheRing

\* A round of producer_loop that reads the end flushes the last chunk.
LEMMA ReadEofDone ==
    ASSUME NEW s, Sound(s), s.ps = "PLAYING", s.n < NrChunks, NEW t \in ReadEof(s)
    PROVE  /\ Sound(t) /\ SameButTheRing(s, t) /\ t.failed = s.failed
           /\ t.eof /\ t.n >= s.n
<1>1. s \in PlayerStates /\ s.ti /\ s.n \in 0 .. NrChunks
    BY DEF Sound, Whole, ProducerHalf, PlayerStates
<1> DEFINE k == IF s.part THEN s.n + 1 ELSE s.n
           Ended(m) == [s EXCEPT !.eof = TRUE, !.part = FALSE, !.n = m]
<1>2. t = Ended(k) \/ t = player_error(Ended(k))
    BY <1>1 DEF ReadEof, BugOn
<1>3. k \in 0 .. NrChunks /\ k >= s.n
    BY <1>1, NrChunksAssumption
<1> HIDE DEF k
<1>4. Ended(k) \in PlayerStates
    BY <1>1, <1>3 DEF PlayerStates
<1>5. t \in PlayerStates
    BY <1>2, <1>4, HelperTypes
<1>6. /\ SameButTheRing(s, t) /\ t.failed = s.failed
      /\ t.eof /\ ~t.part /\ t.n >= s.n
    <2> DEFINE e == Ended(k)
    <2>1. /\ SameButTheRing(s, e) /\ e.failed = s.failed /\ e.cs = s.cs
          /\ e.eof /\ ~e.part /\ e.n >= s.n
        BY <1>1, <1>3 DEF SameButTheRing, PlayerStates
    <2>2. e \in PlayerStates /\ (t = e \/ t = player_error(e))
        BY <1>2, <1>4
    <2> HIDE DEF e
    <2>3. CASE t = e
        BY <2>1, <2>3
    <2>4. CASE t = player_error(e)
        BY <2>1, <2>2, <2>4 DEF SameButTheRing, PlayerStates, player_error
    <2> QED
        BY <2>2, <2>3, <2>4
<1> QED
    BY <1>5, <1>6
    DEF Sound, Whole, ProducerHalf, ConsumerHalf, RingFits, SameButTheRing

\* A round of consumer_loop that writes touches only the ring.
LEMMA WriteConsumedDone ==
    ASSUME NEW s, Sound(s), s.ps = "PLAYING", s.n > 0, NEW t \in WriteConsumed(s)
    PROVE  /\ Sound(t) /\ SameButTheRing(s, t) /\ t.failed = s.failed /\ t.shown = s.shown
           /\ t.eof = s.eof /\ t.part = s.part
<1>1. s \in PlayerStates /\ s.n \in 0 .. NrChunks
    BY DEF Sound, Whole, PlayerStates
<1>2. t = s \/ t = [s EXCEPT !.n = s.n - 1]
    <2>1. s.n # 0
        BY <1>1
    <2> QED
        BY <2>1 DEF WriteConsumed
<1>3. s.n - 1 \in 0 .. NrChunks
    BY <1>1, NrChunksAssumption
<1>4. t \in PlayerStates
    <2>1. \A k \in 0 .. NrChunks : [s EXCEPT !.n = k] \in PlayerStates
        BY <1>1 DEF PlayerStates
    <2> QED
        BY <1>1, <1>2, <1>3, <2>1
<1>5. /\ SameButTheRing(s, t) /\ t.failed = s.failed /\ t.shown = s.shown
      /\ t.eof = s.eof /\ t.part = s.part
    BY <1>1, <1>2 DEF SameButTheRing, PlayerStates
<1> QED
    BY <1>4, <1>5
    DEF Sound, Whole, ProducerHalf, ConsumerHalf, RingFits, SameButTheRing

\* A lost device is opened again, or the consumer stops and the decoder goes on.
LEMMA ReopenDone ==
    ASSUME NEW s, Sound(s), s.cs = "PLAYING",
           NEW t, t \in ReopenDevice(s) \/ t \in WriteFailed(s)
    PROVE  Settles(s, t) /\ Shows(s, t) /\ SameInput(s, t)
<1>1. s \in PlayerStates /\ s.ps = "PLAYING"
    BY DEF Sound, Whole, Pairs
<1>2. PICK v \in {s, [s EXCEPT !.fast = FALSE]} :
          t \in consumer_play(consumer_status_update(op_close(v), "STOPPED"))
    BY DEF ReopenDevice, WriteFailed
<1>3. v \in PlayerStates /\ SameInput(s, v) /\ Tells(s, v) /\ v.shown = s.shown
    BY <1>1, <1>2 DEF SameInput, Tells, PlayerStates
<1> DEFINE u == consumer_status_update(op_close(v), "STOPPED")
<1>4. u \in PlayerStates
    BY <1>3, HelperTypes DEF CStatus
<1>5. /\ SameInput(s, u) /\ Tells(s, u) /\ u.cs = "STOPPED" /\ u.dev = "closed"
      /\ u.shown = s.shown
    BY <1>3 DEF SameInput, Tells, PlayerStates, consumer_status_update, op_close
<1>6. Whole(u) /\ RingFits(u) /\ u.ps = "PLAYING"
    BY <1>1, <1>4, <1>5 DEF Sound, Whole, ProducerHalf, ConsumerHalf, RingFits, SameInput
<1> HIDE DEF u
<1>7. /\ Whole(t) /\ SameInput(u, t) /\ Tells(u, t) /\ RingFits(t)
      /\ t.cs \in {"PLAYING", "STOPPED"}
      /\ t.shown = IF t.cs = "STOPPED" THEN t.cs ELSE u.shown
    <2>1. t \in consumer_play(u)
        BY <1>2 DEF u
    <2> QED
        BY <1>6, <2>1, ConsumerPlayDone
<1>8. SameInput(s, t) /\ Tells(s, t) /\ Shows(s, t) /\ <<t.ps, t.cs>> \in Pairs
    BY <1>1, <1>5, <1>7 DEF SameInput, Tells, Shows, Pairs
<1> QED
    BY <1>7, <1>8 DEF Settles, Sound, SameInput

-----------------------------------------------------------------------------

\* Both threads stopped at the end of the input.
LEMMA EofStopDone ==
    ASSUME NEW s, Sound(s), NEW t, t = consumer_stop(producer_stop(s))
    PROVE  Sound(t) /\ Tells(s, t) /\ t.failed = s.failed
<1> DEFINE u == producer_stop(s)
<1>1. /\ Whole(u) /\ SameDevice(s, u) /\ Tells(s, u) /\ u.ps \in {"UNLOADED", "STOPPED"}
    BY ProducerStopDone DEF Sound
<1> HIDE DEF u
<1>2. Whole(t) /\ SameInput(u, t) /\ Tells(u, t) /\ t.cs = "STOPPED" /\ RingFits(t)
    BY <1>1, ConsumerStopDone DEF u
<1>3. <<t.ps, t.cs>> \in Pairs
    BY <1>1, <1>2 DEF Pairs, SameInput
<1> QED
    BY <1>1, <1>2, <1>3 DEF Sound, Tells, SameDevice, SameInput

\* A sound state with its status published.
LEMMA PublishedSettles ==
    ASSUME NEW s, NEW v, Sound(v), Tells(s, v), PrebufferFits => v.failed = s.failed,
           NEW t, t = player_error(v) \/ t = player_status_changed(v)
    PROVE  Settles(s, t) /\ Shows(s, t)
<1>1. /\ Whole(t) /\ SameInput(v, t) /\ SameDevice(v, t) /\ Tells(v, t)
      /\ RingFits(t) /\ t.shown = t.cs
    BY ShownDone DEF Sound
<1>2. /\ <<t.ps, t.cs>> \in Pairs /\ Tells(s, t)
      /\ PrebufferFits => t.failed = s.failed
    BY <1>1 DEF Sound, Tells, SameInput, SameDevice
<1> QED
    BY <1>1, <1>2 DEF Settles, Sound, Shows

\* consumer_handle_eof of a stream and with repeat_current.
LEMMA EofWithoutRequestSettles ==
    ASSUME NEW s, Sound(s), s.cs = "PLAYING", NEW cont \in BOOLEAN,
           NEW t \in EofWithoutRequest(s, cont)
    PROVE  Settles(s, t) /\ Shows(s, t)
<1>1. s \in PlayerStates /\ s.ps = "PLAYING"
    BY DEF Sound, Whole, Pairs
<1>2. CASE s.remote
    <2> DEFINE u == consumer_stop(producer_stop(s))
    <2>1. Sound(u) /\ Tells(s, u) /\ u.failed = s.failed
        BY EofStopDone
    <2>2. t = player_error(u)
        BY <1>2 DEF EofWithoutRequest, EofLostConnection
    <2> HIDE DEF u
    <2> QED
        BY <2>1, <2>2, PublishedSettles
<1>3. CASE ~s.remote
    <2>1. PICK u \in EofRepeat(s, cont) : t = player_status_changed(u)
        BY <1>3 DEF EofWithoutRequest
    <2>2. Sound(u) /\ Tells(s, u) /\ u.failed = s.failed
        <3>1. CASE u = reset_buffer(s)
            <4>1. u \in PlayerStates
                BY <1>1, <3>1, HelperTypes
            <4>2. /\ ProducerHalf(u) /\ SameDevice(s, u) /\ Tells(s, u)
                  /\ u.ps = s.ps /\ u.fmt = s.fmt
                BY <1>1, <3>1 DEF Sound, Whole, ProducerHalf, SameDevice, Tells, PlayerStates,
                    reset_buffer
            <4> QED
                BY <4>1, <4>2 DEF Sound, Whole, ConsumerHalf, RingFits, SameDevice
        <3>2. CASE u = reset_buffer(SeekOk(s))
            BY <3>2, MovedDone
        <3>3. CASE u = consumer_stop(producer_stop(s))
            BY <3>3, EofStopDone
        <3> QED
            BY <2>1, <3>1, <3>2, <3>3 DEF EofRepeat
    <2> QED
        BY <2>1, <2>2, PublishedSettles
<1> QED
    BY <1>1, <1>2, <1>3 DEF PlayerStates

\* consumer_handle_eof when there is no next track.
LEMMA EofNoTrackSettles ==
    ASSUME NEW s, Sound(s), NEW t \in EofNoTrack(s)
    PROVE  Settles(s, t) /\ Shows(s, t)
<1> DEFINE u == producer_unload(s)
           v == consumer_stop(u)
           w == file_changed(v, FALSE)
<1>1. Whole(u) /\ SameDevice(s, u) /\ Tells(s, u) /\ u.ps = "UNLOADED"
    BY ProducerUnloadDone DEF Sound
<1> HIDE DEF u
<1>2. Whole(v) /\ SameInput(u, v) /\ Tells(u, v) /\ v.cs = "STOPPED" /\ RingFits(v)
    BY <1>1, ConsumerStopDone
<1> HIDE DEF v
<1>3. Whole(w) /\ SameDevice(v, w) /\ Tells(v, w) /\ RingFits(w) /\ w.ps = v.ps
    BY <1>1, <1>2, FileChangedDone DEF SameInput
<1>4. t = player_status_changed(w)
    BY DEF EofNoTrack, u, v
<1> HIDE DEF w
<1>5. Sound(w) /\ Tells(s, w) /\ w.failed = s.failed
    BY <1>1, <1>2, <1>3 DEF Sound, Pairs, Tells, SameInput, SameDevice
<1> QED
    BY <1>4, <1>5, PublishedSettles

\* consumer_handle_eof with the next track, followed or left stopped.
LEMMA EofNextTrackSettles ==
    ASSUME NEW s, Sound(s), s.cs = "PLAYING", NEW track \in Tracks, NEW goOn \in BOOLEAN,
           NEW t \in EofNextTrack(s, track, goOn)
    PROVE  Settles(s, t) /\ Shows(s, t)
<1>0. s.ps = "PLAYING" /\ s.ti
    BY DEF Sound, Whole, ProducerHalf, Pairs
<1> DEFINE bare == producer_unload(s)
           loaded == producer_status_update(ip_new(bare, track), "STOPPED")
           Follow(v) ==
               IF v.ps = "UNLOADED" THEN {file_changed(consumer_stop(v), FALSE)}
               ELSE UNION {IF u.ps = "PLAYING" THEN prebuffer(u) ELSE {u} :
                           u \in change_sf(file_changed(v, TRUE))}
           after == IF goOn THEN UNION {Follow(v) : v \in producer_play(loaded)}
                    ELSE {file_changed(consumer_stop(loaded), TRUE)}
<1>1. PICK w \in after : t = player_status_changed(w)
    <2>1. t \in {player_status_changed(w) : w \in after}
        BY DEF EofNextTrack
    <2> HIDE DEF after
    <2> QED
        BY <2>1
<1>2. /\ Whole(bare) /\ SameDevice(s, bare) /\ Tells(s, bare) /\ bare.ps = "UNLOADED"
      /\ bare.ti
    <2>1. /\ Whole(bare) /\ SameDevice(s, bare) /\ Tells(s, bare) /\ bare.ps = "UNLOADED"
        BY ProducerUnloadDone DEF Sound
    <2>2. bare.ti
        BY <1>0 DEF Sound, Whole, PlayerStates, producer_unload, producer_stop, reset_buffer,
            producer_status_update, ip_close, ip_delete, Moved
    <2> QED
        BY <2>1, <2>2
<1> HIDE DEF bare
<1>3. /\ Whole(loaded) /\ SameDevice(s, loaded) /\ Tells(s, loaded) /\ loaded.ps = "STOPPED"
    <2>1. loaded \in PlayerStates
        BY <1>2, InputTypes, HelperTypes DEF Whole, PStatus
    <2>2. /\ ProducerHalf(loaded) /\ SameDevice(s, loaded) /\ Tells(s, loaded)
          /\ loaded.ps = "STOPPED"
        BY <1>2 DEF Whole, ProducerHalf, SameDevice, Tells, PlayerStates,
            producer_status_update, ip_new, Tracks
    <2> QED
        BY <1>2, <2>1, <2>2 DEF Sound, Whole, ConsumerHalf, SameDevice
<1> HIDE DEF loaded
<1>4. CASE goOn
    <2>1. PICK v \in producer_play(loaded) : w \in Follow(v)
        <3>1. w \in UNION {Follow(v) : v \in producer_play(loaded)}
            BY <1>1, <1>4
        <3> HIDE DEF Follow
        <3> QED
            BY <3>1
    <2>2. /\ Whole(v) /\ SameDevice(loaded, v) /\ Tells(loaded, v)
          /\ v.ps \in {"UNLOADED", "PLAYING"}
        BY <1>3, ProducerPlayDone
    <2>3. Tells(s, v) /\ v.failed = s.failed /\ v.cs = "PLAYING"
        BY <1>3, <2>2 DEF Tells, SameDevice
    <2>4. CASE v.ps = "UNLOADED"
        <3> DEFINE x == consumer_stop(v)
        <3>1. Whole(x) /\ SameInput(v, x) /\ Tells(v, x) /\ x.cs = "STOPPED" /\ RingFits(x)
            BY <2>2, ConsumerStopDone
        <3>2. w = file_changed(x, FALSE)
            BY <2>1, <2>4
        <3> HIDE DEF x
        <3>3. Whole(w) /\ SameDevice(x, w) /\ Tells(x, w) /\ RingFits(w) /\ w.ps = x.ps
            BY <2>4, <3>1, <3>2, FileChangedDone DEF SameInput
        <3>4. Sound(w) /\ Tells(s, w) /\ w.failed = s.failed
            BY <2>3, <2>4, <3>1, <3>3 DEF Sound, Pairs, Tells, SameInput, SameDevice
        <3> QED
            BY <1>1, <3>4, PublishedSettles
    <2>5. CASE v.ps = "PLAYING"
        <3> DEFINE x == file_changed(v, TRUE)
        <3>1. /\ Whole(x) /\ SameDevice(v, x) /\ Tells(v, x) /\ x.ps = v.ps
            BY <2>2, FileChangedDone
        <3>2. PICK u \in change_sf(x) : w \in IF u.ps = "PLAYING" THEN prebuffer(u) ELSE {u}
            BY <2>1, <2>5
        <3> HIDE DEF x
        <3>3. /\ Whole(u) /\ Tells(x, u) /\ RingFits(u) /\ u.failed = x.failed
              /\ <<u.ps, u.cs>> \in Pairs
            BY <2>3, <2>5, <3>1, <3>2, ChangeSfDone DEF SameDevice, Pairs
        <3>4. /\ Whole(w) /\ Tells(u, w) /\ RingFits(w)
              /\ w.ps = u.ps /\ w.cs = u.cs
              /\ PrebufferFits => w.failed = u.failed
            <4>1. CASE u.ps = "PLAYING"
                BY <3>2, <3>3, <4>1, PrebufferDone
            <4>2. CASE u.ps # "PLAYING"
                BY <3>2, <3>3, <4>2 DEF Tells
            <4> QED
                BY <4>1, <4>2
        <3>5. Sound(w) /\ Tells(s, w) /\ (PrebufferFits => w.failed = s.failed)
            BY <2>3, <3>1, <3>3, <3>4 DEF Sound, Tells, SameDevice
        <3> QED
            BY <1>1, <3>5, PublishedSettles
    <2> QED
        BY <2>2, <2>4, <2>5
<1>5. CASE ~goOn
    <2> DEFINE x == consumer_stop(loaded)
    <2>1. Whole(x) /\ SameInput(loaded, x) /\ Tells(loaded, x) /\ x.cs = "STOPPED" /\ RingFits(x)
        BY <1>3, ConsumerStopDone
    <2>2. w = file_changed(x, TRUE)
        BY <1>1, <1>5
    <2> HIDE DEF x
    <2>3. Whole(w) /\ SameDevice(x, w) /\ Tells(x, w) /\ RingFits(w) /\ w.ps = x.ps
        BY <2>1, <2>2, FileChangedDone
    <2>4. Sound(w) /\ Tells(s, w) /\ w.failed = s.failed
        BY <1>3, <2>1, <2>3 DEF Sound, Pairs, Tells, SameInput, SameDevice
    <2> QED
        BY <1>1, <2>4, PublishedSettles
<1> QED
    BY <1>4, <1>5

-----------------------------------------------------------------------------
(* The three threads. *)

\* The consumer is between taking its lock and releasing it.
InRound == pcC \in {"rpos", "wantP", "await", "write"}

\* Who holds which lock, by what the threads are doing.
Locks ==
    /\ lockC = "main" <=> mpc = "wantP"
    /\ lockC = "consumer" <=> InRound
    /\ lockP # "main"
    /\ lockP = "producer" <=> pcP = "fill"
    /\ lockP = "consumer" <=> pcC = "await"

\* What the producer may rely on where it is.
ProducerAt ==
    /\ pcP = "fill" => running /\ pl.ps = "PLAYING" /\ ~pl.eof
    /\ pcP = "asleep" => running /\ NothingToDecode
    /\ pcP = "done" => ~running /\ pl.ps = "UNLOADED"

\* What the consumer may rely on where it is.
ConsumerAt ==
    /\ InRound => running /\ pl.cs = "PLAYING"
    /\ pcC = "write" => pl.n > 0
    /\ pcC = "await" => pl.n = 0 /\ ~pl.part
    /\ pcC = "asleep" => running /\ pl.cs # "PLAYING"
    /\ pcC = "done" => ~running /\ pl.cs = "STOPPED"

\* player_exit: both threads are told, then joined in turn.
Ending ==
    /\ running <=> mpc \notin {"joinC", "joinP", "exited"}
    /\ mpc \in {"joinP", "exited"} => pcC = "done"
    /\ mpc = "exited" => pcP = "done"

\* A request or an answer is on its way only to a consumer that waits for it.
Answers ==
    /\ request \/ answer # "none" => pcC = "await"
    /\ ~(request /\ answer # "none")

\* What the locks protect.
Protected ==
    /\ Whole(pl) /\ RingFits(pl)
    /\ running => <<pl.ps, pl.cs>> \in Pairs
    /\ PrebufferFits => pl.failed = ""

\* The inductive invariant.
IInv == TypeOK /\ Protected /\ Locks /\ ProducerAt /\ ConsumerAt /\ Ending /\ Answers

\* Storing a state keeps its parts and clears the signals.
LEMMA StoreDone ==
    ASSUME NEW s, Whole(s), Store(s)
    PROVE  /\ Whole(pl') /\ ~pl'.sigP /\ ~pl'.sigC
           /\ SameInput(s, pl') /\ SameDevice(s, pl') /\ pl'.shown = s.shown
           /\ RingFits(s) => RingFits(pl')
<1>1. s \in PlayerStates
    BY DEF Whole
<1>2. pl' \in PlayerStates
    BY <1>1 DEF Store, PlayerStates
<1>3. /\ ~pl'.sigP /\ ~pl'.sigC
      /\ SameInput(s, pl') /\ SameDevice(s, pl') /\ pl'.shown = s.shown
    BY <1>1 DEF Store, PlayerStates, SameInput, SameDevice
<1> QED
    BY <1>2, <1>3 DEF Whole, ProducerHalf, ConsumerHalf, RingFits, SameInput, SameDevice

\* The parts of the types, each by itself.
LEMMA TypesHold ==
    ASSUME pl' \in PlayerStates /\ ~pl'.sigP /\ ~pl'.sigC,
           /\ lockC' \in {"free", "main", "consumer"}
           /\ lockP' \in {"free", "main", "producer", "consumer"}
           /\ mpc' \in {"idle", "check", "wantC", "wantP", "joinC", "joinP", "exited"}
           /\ mop' \in AllCommands \cup {""}
           /\ pcP' \in {"top", "fill", "asleep", "done"}
           /\ pcC' \in {"top", "rpos", "wantP", "await", "write", "asleep", "done"}
           /\ answer' \in {"none", "noTrack", "track"},
           second' \in BOOLEAN /\ running' \in BOOLEAN /\ request' \in BOOLEAN
    PROVE  TypeOK'
BY Zenon DEF TypeOK

\* A command that settles, run with both locks.
LEMMA ExecutesKeeps ==
    ASSUME IInv, NEW c, NEW results, Executes(c, results),
           \A t \in results : Settles(pl, t),
           mpc' \in {"idle", "wantC"}, mop' \in AllCommands \cup {""}
    PROVE  IInv'
<1>1. /\ Alive /\ mpc = "wantP" /\ lockP = "free"
      /\ lockC' = "free" /\ lockP' = lockP /\ second' = second
      /\ running' = running /\ request' = request /\ answer' = answer
    BY DEF Executes, channel
<1>2. PICK t \in results : Store(t) /\ WakeProducer(t) /\ WakeConsumer(t)
    BY DEF Executes
<1>3. Sound(t) /\ Tells(pl, t) /\ (PrebufferFits => t.failed = pl.failed)
    BY DEF Settles
<1>4. running /\ pcP # "fill" /\ ~InRound /\ pcC # "await"
    BY <1>1 DEF IInv, Locks, Ending, InRound
<1>5. /\ Whole(pl') /\ RingFits(pl') /\ ~pl'.sigP /\ ~pl'.sigC
      /\ SameInput(t, pl') /\ SameDevice(t, pl')
    BY <1>2, <1>3, StoreDone DEF Sound
<1>6. /\ pcP' = IF t.sigP /\ pcP = "asleep" THEN "top" ELSE pcP
      /\ pcC' = IF t.sigC /\ pcC = "asleep" THEN "top" ELSE pcC
    BY <1>2 DEF WakeProducer, WakeConsumer, Woken
<1>7. TypeOK'
    <2>1. TypeOK
        BY DEF IInv
    <2>2. pl' \in PlayerStates /\ ~pl'.sigP /\ ~pl'.sigC
        BY <1>5 DEF Whole
    <2>3. /\ lockC' \in {"free", "main", "consumer"}
          /\ lockP' \in {"free", "main", "producer", "consumer"}
          /\ mpc' \in {"idle", "check", "wantC", "wantP", "joinC", "joinP", "exited"}
          /\ mop' \in AllCommands \cup {""}
          /\ pcP' \in {"top", "fill", "asleep", "done"}
          /\ pcC' \in {"top", "rpos", "wantP", "await", "write", "asleep", "done"}
          /\ answer' \in {"none", "noTrack", "track"}
        BY <1>1, <1>6, <2>1 DEF TypeOK
    <2>4. second' \in BOOLEAN /\ running' \in BOOLEAN /\ request' \in BOOLEAN
        BY <1>1, <2>1, Zenon DEF TypeOK
    <2> QED
        BY <2>2, <2>3, <2>4, TypesHold
<1>8. Protected'
    BY <1>3, <1>5 DEF IInv, Protected, Sound, SameInput, SameDevice
<1>9. Locks' /\ Ending' /\ Answers'
    BY <1>1, <1>4, <1>6 DEF IInv, Locks, Ending, Answers, InRound
<1>10. ProducerAt'
    BY <1>1, <1>3, <1>4, <1>5, <1>6
    DEF IInv, ProducerAt, NothingToDecode, Tells, SameInput
<1>11. ConsumerAt'
    BY <1>1, <1>3, <1>4, <1>5, <1>6
    DEF IInv, ConsumerAt, InRound, Tells, SameDevice
<1> QED
    BY <1>7, <1>8, <1>9, <1>10, <1>11 DEF IInv

\* Until player_exit the protected state is sound.
LEMMA SoundWhileRunning ==
    ASSUME IInv, running
    PROVE  Sound(pl)
BY DEF IInv, Protected, Sound

\* Every command of the main thread.
LEMMA CommandsKeep ==
    ASSUME IInv,
           \/ Stop \/ Play \/ Pause \/ PausePlayback \/ SetFile \/ PlayFile
           \/ Seek \/ SeekOver \/ SetOp \/ SetBufferChunks \/ SetSpeed
    PROVE  IInv'
<1>0. ASSUME NEW c, NEW results, Executes(c, results) PROVE Sound(pl)
    <2>1. mpc = "wantP"
        BY <1>0 DEF Executes
    <2> QED
        BY <2>1, SoundWhileRunning DEF IInv, Ending
<1>1. ASSUME Returns PROVE mpc' \in {"idle", "wantC"} /\ mop' \in AllCommands \cup {""}
    BY <1>1 DEF Returns
<1>2. CASE Stop
    BY <1>0, <1>1, <1>2, StopSettles, ExecutesKeeps DEF Stop
<1>3. CASE Play
    BY <1>0, <1>1, <1>3, PlaySettles, ExecutesKeeps DEF Play
<1>4. CASE Pause
    BY <1>0, <1>1, <1>4, PauseSettles, ExecutesKeeps DEF Pause
<1>5. CASE PausePlayback
    BY <1>0, <1>1, <1>5, PauseSettles, ExecutesKeeps DEF PausePlayback
<1>6. CASE SetFile
    <2> DEFINE results == UNION {player_set_file(pl, track) : track \in Tracks}
    <2>1. Executes("setFile", results) /\ Returns
        BY <1>6 DEF SetFile
    <2>2. Sound(pl)
        BY <1>0, <2>1
    <2>3. \A t \in results : Settles(pl, t)
        BY <2>2, SetFileSettles
    <2> HIDE DEF results
    <2> QED
        BY <1>1, <2>1, <2>3, ExecutesKeeps
<1>7. CASE PlayFile
    <2> DEFINE results == UNION {player_play_file(pl, track) : track \in Tracks}
    <2>1. Executes("playFile", results) /\ Returns
        BY <1>7 DEF PlayFile
    <2>2. Sound(pl)
        BY <1>0, <2>1
    <2>3. \A t \in results : Settles(pl, t)
        BY <2>2, PlayFileSettles
    <2> HIDE DEF results
    <2> QED
        BY <1>1, <2>1, <2>3, ExecutesKeeps
<1>8. CASE Seek
    BY <1>0, <1>1, <1>8, SeekSettles, ExecutesKeeps DEF Seek
<1>9. CASE SeekOver
    <2>1. mpc' \in {"idle", "wantC"} /\ mop' \in AllCommands \cup {""}
        BY <1>9 DEF SeekOver, AllCommands
    <2> QED
        BY <1>0, <1>9, <2>1, SeekPastEndSettles, ExecutesKeeps DEF SeekOver
<1>10. CASE SetOp
    BY <1>0, <1>1, <1>10, SetOpSettles, ExecutesKeeps DEF SetOp
<1>11. CASE SetBufferChunks
    BY <1>0, <1>1, <1>11, SetBufferChunksSettles, ExecutesKeeps DEF SetBufferChunks
<1>12. CASE SetSpeed
    <2> DEFINE results == UNION {player_set_speed(pl, v) : v \in BOOLEAN}
    <2>1. Executes("setSpeed", results) /\ Returns
        BY <1>12 DEF SetSpeed
    <2>2. Sound(pl)
        BY <1>0, <2>1
    <2>3. \A t \in results : Settles(pl, t)
        BY <2>2, SetSpeedSettles
    <2> HIDE DEF results
    <2> QED
        BY <1>1, <2>1, <2>3, ExecutesKeeps
<1> QED
    BY <1>2, <1>3, <1>4, <1>5, <1>6, <1>7, <1>8, <1>9, <1>10, <1>11, <1>12

\* The steps that leave the protected state alone: taking a lock, beginning a
\* command, joining a thread, answering a request, waking for no reason.
LEMMA OtherMainStepsKeep ==
    ASSUME IInv,
           \/ SpuriousWakeup \/ \E c \in Commands : BeginCommand(c)
           \/ CheckPlaying \/ MainLockConsumer
           \/ JoinConsumer \/ JoinProducer \/ ProvideNextTrack
    PROVE  IInv'
<1>0. ASSUME pl' = pl, running' = running PROVE Protected'
    BY <1>0 DEF IInv, Protected
<1>1. CASE SpuriousWakeup
    <2>0. /\ UNCHANGED <<pl, lockC, lockP, mpc, mop, second, running, request, answer>>
          /\ pcP' = pcP \/ (pcP = "asleep" /\ pcP' = "top")
          /\ pcC' = pcC \/ (pcC = "asleep" /\ pcC' = "top")
        BY <1>1 DEF SpuriousWakeup, locks, main, channel
    <2>1. TypeOK'
        <3>1. TypeOK
            BY DEF IInv
        <3>2. pl' \in PlayerStates /\ ~pl'.sigP /\ ~pl'.sigC
            BY <2>0, <3>1 DEF TypeOK
        <3>3. /\ UNCHANGED <<lockC, lockP, mpc, mop, answer>>
              /\ pcP' \in {pcP, "top"} /\ pcC' \in {pcC, "top"}
            BY <2>0
        <3>4. /\ lockC' \in {"free", "main", "consumer"}
              /\ lockP' \in {"free", "main", "producer", "consumer"}
              /\ mpc' \in {"idle", "check", "wantC", "wantP", "joinC", "joinP", "exited"}
              /\ mop' \in AllCommands \cup {""}
              /\ pcP' \in {"top", "fill", "asleep", "done"}
              /\ pcC' \in {"top", "rpos", "wantP", "await", "write", "asleep", "done"}
              /\ answer' \in {"none", "noTrack", "track"}
            BY <3>1, <3>3 DEF TypeOK
        <3>5. second' \in BOOLEAN /\ running' \in BOOLEAN /\ request' \in BOOLEAN
            BY <2>0, <3>1, Zenon DEF TypeOK
        <3> QED
            BY <3>2, <3>4, <3>5, TypesHold
    <2> USE <2>0
    <2>2. Locks' /\ Ending' /\ Answers'
        BY DEF IInv, Locks, Ending, Answers, InRound
    <2>3. ProducerAt' /\ ConsumerAt'
        BY DEF IInv, ProducerAt, ConsumerAt, InRound, NothingToDecode
    <2> QED
        BY <1>0, <2>1, <2>2, <2>3 DEF IInv
<1>2. ASSUME UNCHANGED <<pl, lockP, pcP, second, pcC, running, channel>>,
             \/ lockC' = lockC /\ mpc # "wantP" /\ mpc' # "wantP"
             \/ lockC = "free" /\ lockC' = "main" /\ mpc # "wantP" /\ mpc' = "wantP",
             mpc' \in {"idle", "check", "wantC", "wantP", "joinC", "joinP", "exited"},
             mop' \in AllCommands \cup {""},
             mpc \in {"joinC", "joinP", "exited"} <=> mpc' \in {"joinC", "joinP", "exited"},
             mpc' \in {"joinP", "exited"} => pcC = "done",
             mpc' = "exited" => pcP = "done"
      PROVE  IInv'
    <2>1. TypeOK'
        <3>1. TypeOK
            BY DEF IInv
        <3>2. pl' \in PlayerStates /\ ~pl'.sigP /\ ~pl'.sigC
            BY <1>2, <3>1 DEF TypeOK, channel
        <3>3. /\ lockC' \in {"free", "main", "consumer"}
              /\ lockP' \in {"free", "main", "producer", "consumer"}
              /\ mpc' \in {"idle", "check", "wantC", "wantP", "joinC", "joinP", "exited"}
              /\ mop' \in AllCommands \cup {""}
              /\ pcP' \in {"top", "fill", "asleep", "done"}
              /\ pcC' \in {"top", "rpos", "wantP", "await", "write", "asleep", "done"}
              /\ answer' \in {"none", "noTrack", "track"}
            BY <1>2, <3>1 DEF TypeOK, channel
        <3>4. second' \in BOOLEAN /\ running' \in BOOLEAN /\ request' \in BOOLEAN
            BY <1>2, <3>1, Zenon DEF TypeOK, channel
        <3> QED
            BY <3>2, <3>3, <3>4, TypesHold
    <2> USE <1>2 DEF channel
    <2>2. Locks' /\ Answers'
        BY DEF IInv, Locks, Answers, InRound
    <2>3. Ending'
        BY DEF IInv, Ending
    <2>4. ProducerAt' /\ ConsumerAt'
        BY DEF IInv, ProducerAt, ConsumerAt, InRound, NothingToDecode
    <2> QED
        BY <1>0, <2>1, <2>2, <2>3, <2>4 DEF IInv
<1>3. ASSUME NEW c \in Commands, BeginCommand(c) PROVE IInv'
    <2>1. c \in AllCommands
        BY CommandsAssumption
    <2>2. mpc = "idle" /\ UNCHANGED <<pl, lockC, lockP, pcP, second, pcC, running, channel>>
        BY <1>3 DEF BeginCommand, locks
    <2>3. mpc' \in {"check", "wantC"} /\ mop' \in AllCommands \cup {""}
        BY <1>3, <2>1 DEF BeginCommand, BeginPause, BeginPausePlayback, AllCommands
    <2> QED
        BY <1>2, <2>2, <2>3
<1>4. CASE CheckPlaying
    <2>1. /\ mpc = "check" /\ mpc' = "wantC" /\ mop' \in AllCommands \cup {""}
          /\ UNCHANGED <<pl, lockC, lockP, pcP, second, pcC, running, channel>>
        BY <1>4 DEF IInv, TypeOK, CheckPlaying, AllCommands, locks
    <2> QED
        BY <1>2, <2>1
<1>5. CASE MainLockConsumer
    <2>1. /\ mpc = "wantC" /\ mpc' = "wantP" /\ lockC = "free" /\ lockC' = "main"
          /\ UNCHANGED <<pl, lockP, mop, pcP, second, pcC, running, channel>>
        BY <1>5 DEF MainLockConsumer
    <2>2. mop' \in AllCommands \cup {""}
        BY <2>1 DEF IInv, TypeOK
    <2> QED
        BY <1>2, <2>1, <2>2
<1>6. CASE JoinConsumer
    <2>1. /\ mpc = "joinC" /\ mpc' = "joinP" /\ pcC = "done"
          /\ UNCHANGED <<pl, lockC, lockP, mop, pcP, second, pcC, running, channel>>
        BY <1>6 DEF JoinConsumer, locks
    <2>2. mop' \in AllCommands \cup {""}
        BY <2>1 DEF IInv, TypeOK
    <2> QED
        BY <1>2, <2>1, <2>2
<1>7. CASE JoinProducer
    <2>1. /\ mpc = "joinP" /\ mpc' = "exited" /\ pcP = "done"
          /\ UNCHANGED <<pl, lockC, lockP, mop, pcP, second, pcC, running, channel>>
        BY <1>7 DEF JoinProducer, locks
    <2>2. mop' \in AllCommands \cup {""} /\ pcC = "done"
        BY <2>1 DEF IInv, TypeOK, Ending
    <2> QED
        BY <1>2, <2>1, <2>2
<1>8. CASE ProvideNextTrack
    <2>0. /\ UNCHANGED <<pl, lockC, lockP, mpc, mop, pcP, second, pcC, running>>
          /\ request /\ request' = FALSE /\ answer' \in {"noTrack", "track"}
        BY <1>8 DEF ProvideNextTrack, locks, main
    <2>1. TypeOK'
        <3>1. TypeOK
            BY DEF IInv
        <3>2. pl' \in PlayerStates /\ ~pl'.sigP /\ ~pl'.sigC
            BY <2>0, <3>1 DEF TypeOK
        <3>3. /\ lockC' \in {"free", "main", "consumer"}
              /\ lockP' \in {"free", "main", "producer", "consumer"}
              /\ mpc' \in {"idle", "check", "wantC", "wantP", "joinC", "joinP", "exited"}
              /\ mop' \in AllCommands \cup {""}
              /\ pcP' \in {"top", "fill", "asleep", "done"}
              /\ pcC' \in {"top", "rpos", "wantP", "await", "write", "asleep", "done"}
              /\ answer' \in {"none", "noTrack", "track"}
            <4>1. /\ lockC \in {"free", "main", "consumer"}
                  /\ lockP \in {"free", "main", "producer", "consumer"}
                  /\ mpc \in {"idle", "check", "wantC", "wantP", "joinC", "joinP", "exited"}
                  /\ mop \in AllCommands \cup {""}
                  /\ pcP \in {"top", "fill", "asleep", "done"}
                  /\ pcC \in {"top", "rpos", "wantP", "await", "write", "asleep", "done"}
                BY <3>1, Zenon DEF TypeOK
            <4>2. lockC' = lockC /\ lockP' = lockP /\ mpc' = mpc /\ mop' = mop /\ pcP' = pcP /\ pcC' = pcC
                BY <2>0
            <4>3. answer' \in {"none", "noTrack", "track"}
                BY <2>0
            <4>4. /\ lockC' \in {"free", "main", "consumer"}
                  /\ lockP' \in {"free", "main", "producer", "consumer"}
                BY <4>1, <4>2
            <4>5. /\ mpc' \in {"idle", "check", "wantC", "wantP", "joinC", "joinP", "exited"}
                  /\ mop' \in AllCommands \cup {""}
                BY <4>1, <4>2
            <4>6. /\ pcP' \in {"top", "fill", "asleep", "done"}
                  /\ pcC' \in {"top", "rpos", "wantP", "await", "write", "asleep", "done"}
                BY <4>1, <4>2
            <4> QED
                BY <4>3, <4>4, <4>5, <4>6, Zenon
        <3>4. second' \in BOOLEAN /\ running' \in BOOLEAN /\ request' \in BOOLEAN
            BY <2>0, <3>1, Zenon DEF TypeOK
        <3> QED
            BY <3>2, <3>3, <3>4, TypesHold
    <2> USE <2>0
    <2>2. Locks' /\ Ending' /\ Answers'
        BY DEF IInv, Locks, Ending, Answers, InRound
    <2>3. ProducerAt' /\ ConsumerAt'
        BY DEF IInv, ProducerAt, ConsumerAt, InRound, NothingToDecode
    <2> QED
        BY <1>0, <2>1, <2>2, <2>3 DEF IInv
<1> QED
    BY <1>1, <1>3, <1>4, <1>5, <1>6, <1>7, <1>8

\* player_exit wakes both threads, neither of which is in a round.
LEMMA ExitKeeps ==
    ASSUME IInv, Exit
    PROVE  IInv'
<1> DEFINE s == ExitSignalled(pl)
<1>1. /\ mpc = "wantP" /\ lockP = "free" /\ running' = FALSE /\ lockC' = "free"
      /\ mpc' = "joinC" /\ lockP' = lockP /\ mop' = mop /\ second' = second
      /\ request' = request /\ answer' = answer
      /\ Store(s) /\ WakeProducer(s) /\ WakeConsumer(s)
    BY DEF Exit, channel
<1>2. pl \in PlayerStates
    BY DEF IInv, TypeOK
<1>3. s \in PlayerStates /\ s.sigP /\ s.sigC /\ SameInput(pl, s) /\ SameDevice(pl, s)
    BY <1>2 DEF ExitSignalled, PlayerStates, SameInput, SameDevice
<1> HIDE DEF s
<1>4. Whole(s) /\ RingFits(s)
    BY <1>3 DEF IInv, Protected, Whole, ProducerHalf, ConsumerHalf, RingFits, SameInput, SameDevice
<1>5. /\ Whole(pl') /\ RingFits(pl') /\ ~pl'.sigP /\ ~pl'.sigC
      /\ SameInput(s, pl') /\ SameDevice(s, pl')
    BY <1>1, <1>4, StoreDone
<1>6. /\ pcP' = IF pcP = "asleep" THEN "top" ELSE pcP
      /\ pcC' = IF pcC = "asleep" THEN "top" ELSE pcC
    BY <1>1, <1>3 DEF WakeProducer, WakeConsumer, Woken
<1>7. pcP # "fill" /\ ~InRound /\ pcC # "await" /\ running
    BY <1>1 DEF IInv, Locks, Ending, InRound
<1>8. TypeOK'
    BY <1>1, <1>5, <1>6 DEF IInv, TypeOK, Whole
<1>9. Protected'
    BY <1>1, <1>3, <1>5 DEF IInv, Protected, SameInput
<1>10. Locks' /\ Ending' /\ Answers'
    BY <1>1, <1>6, <1>7 DEF IInv, Locks, Ending, Answers, InRound
<1>11. ProducerAt' /\ ConsumerAt'
    BY <1>1, <1>6, <1>7 DEF IInv, ProducerAt, ConsumerAt, InRound
<1> QED
    BY <1>8, <1>9, <1>10, <1>11 DEF IInv

\* producer_loop takes its lock: it ends, sleeps or begins to decode.
LEMMA ProducerEnterKeeps ==
    ASSUME IInv, NEW pc, NEW lock, NEW s, ProducerEnter(pc, lock, s),
           Whole(s), RingFits(s), SameDevice(pl, s), Tells(pl, s),
           running => s.ps = pl.ps /\ s.eof = pl.eof,
           \/ pc = "done" /\ lock = "free" /\ ~running /\ s.ps = "UNLOADED"
           \/ pc = "asleep" /\ lock = "free" /\ running /\ NothingToDecode /\ s = pl
           \/ pc = "fill" /\ lock = "producer" /\ running /\ ~NothingToDecode /\ s = pl
    PROVE  IInv'
<1>1. /\ pcP = "top" /\ lockP = "free" /\ pcP' = pc /\ lockP' = lock /\ second' = FALSE
      /\ Store(s) /\ WakeConsumer(s)
      /\ lockC' = lockC /\ mpc' = mpc /\ mop' = mop
      /\ running' = running /\ request' = request /\ answer' = answer
    BY DEF ProducerEnter, main, channel
<1>2. /\ Whole(pl') /\ RingFits(pl') /\ ~pl'.sigP /\ ~pl'.sigC
      /\ SameInput(s, pl') /\ SameDevice(s, pl')
    BY <1>1, StoreDone
<1>3. pcC' = IF s.sigC /\ pcC = "asleep" THEN "top" ELSE pcC
    BY <1>1 DEF WakeConsumer, Woken
<1>4. pcC # "await" /\ pcP # "fill"
    BY <1>1 DEF IInv, Locks
<1>5. TypeOK'
    <2>1. TypeOK
        BY DEF IInv
    <2>2. pl' \in PlayerStates /\ ~pl'.sigP /\ ~pl'.sigC
        BY <1>2 DEF Whole
    <2>3. /\ lockC' \in {"free", "main", "consumer"}
          /\ lockP' \in {"free", "main", "producer", "consumer"}
          /\ mpc' \in {"idle", "check", "wantC", "wantP", "joinC", "joinP", "exited"}
          /\ mop' \in AllCommands \cup {""}
          /\ pcP' \in {"top", "fill", "asleep", "done"}
          /\ pcC' \in {"top", "rpos", "wantP", "await", "write", "asleep", "done"}
          /\ answer' \in {"none", "noTrack", "track"}
        BY <1>1, <1>3, <2>1 DEF TypeOK
    <2>4. second' \in BOOLEAN /\ running' \in BOOLEAN /\ request' \in BOOLEAN
        BY <1>1, <2>1, Zenon DEF TypeOK
    <2> QED
        BY <2>2, <2>3, <2>4, TypesHold
<1>6. Protected'
    BY <1>1, <1>2 DEF IInv, Protected, SameInput, SameDevice
<1>7. Locks' /\ Ending' /\ Answers'
    BY <1>1, <1>3, <1>4 DEF IInv, Locks, Ending, Answers, InRound
<1>8. ProducerAt'
    BY <1>1, <1>2 DEF IInv, ProducerAt, NothingToDecode, SameInput
<1>9. ConsumerAt'
    <2>1. InRound => running
        BY DEF IInv, ConsumerAt
    <2>2. pcC = "write" => s.n > 0
        BY <2>1 DEF IInv, ConsumerAt, InRound
    <2> QED
        BY <1>1, <1>2, <1>3, <1>4, <2>1, <2>2
        DEF IInv, ConsumerAt, InRound, SameInput, SameDevice
<1> QED
    BY <1>5, <1>6, <1>7, <1>8, <1>9 DEF IInv

\* A round of the inner loop of producer_loop, while the consumer may be in a
\* round of its own.
LEMMA ProducerRoundKeeps ==
    ASSUME IInv, NEW results, NEW goOn \in BOOLEAN, ProducerRound(results, goOn),
           \A t \in results : /\ Sound(t) /\ SameButTheRing(pl, t) /\ t.failed = pl.failed
                              /\ t.n >= pl.n /\ (goOn => ~t.eof)
    PROVE  IInv'
<1>1. /\ pcP = "fill" /\ pcP' = (IF goOn THEN "fill" ELSE "top")
      /\ lockP' = (IF goOn THEN "producer" ELSE "free") /\ second' = goOn
      /\ lockC' = lockC /\ mpc' = mpc /\ mop' = mop
      /\ running' = running /\ request' = request /\ answer' = answer
    BY DEF ProducerRound, main, channel
<1>2. PICK t \in results : Store(t) /\ WakeConsumer(t)
    BY DEF ProducerRound
<1>3. /\ Whole(t) /\ RingFits(t) /\ <<t.ps, t.cs>> \in Pairs /\ SameButTheRing(pl, t)
      /\ t.failed = pl.failed /\ t.n >= pl.n /\ (goOn => ~t.eof)
    BY <1>2 DEF Sound
<1>4. /\ Whole(pl') /\ RingFits(pl') /\ ~pl'.sigP /\ ~pl'.sigC
      /\ SameInput(t, pl') /\ SameDevice(t, pl')
    BY <1>2, <1>3, StoreDone
<1>5. pcC' = pcC
    BY <1>2, <1>3 DEF IInv, TypeOK, SameButTheRing, WakeConsumer, Woken
<1>6. lockP = "producer" /\ pcC # "await" /\ running /\ pl.ps = "PLAYING"
    BY <1>1 DEF IInv, Locks, ProducerAt
<1>7. TypeOK'
    <2>1. TypeOK
        BY DEF IInv
    <2>2. pl' \in PlayerStates /\ ~pl'.sigP /\ ~pl'.sigC
        BY <1>4 DEF Whole
    <2>3. /\ lockC' \in {"free", "main", "consumer"}
          /\ lockP' \in {"free", "main", "producer", "consumer"}
          /\ mpc' \in {"idle", "check", "wantC", "wantP", "joinC", "joinP", "exited"}
          /\ mop' \in AllCommands \cup {""}
          /\ pcP' \in {"top", "fill", "asleep", "done"}
          /\ pcC' \in {"top", "rpos", "wantP", "await", "write", "asleep", "done"}
          /\ answer' \in {"none", "noTrack", "track"}
        BY <1>1, <1>5, <2>1 DEF TypeOK
    <2>4. second' \in BOOLEAN /\ running' \in BOOLEAN /\ request' \in BOOLEAN
        BY <1>1, <2>1, Zenon DEF TypeOK
    <2> QED
        BY <2>2, <2>3, <2>4, TypesHold
<1>8. Protected'
    BY <1>1, <1>3, <1>4 DEF IInv, Protected, SameInput, SameDevice
<1>9. Locks' /\ Ending' /\ Answers'
    BY <1>1, <1>5, <1>6 DEF IInv, Locks, Ending, Answers, InRound
<1>10. ProducerAt'
    BY <1>1, <1>3, <1>4, <1>6 DEF IInv, ProducerAt, SameInput, SameButTheRing
<1>11. ConsumerAt'
    <2>0. t.n \in Nat /\ pl.n \in Nat
        BY <1>3, ChunksAreCounted DEF IInv, TypeOK, Whole
    <2>1. pcC = "write" => t.n > 0
        BY <1>3, <2>0 DEF IInv, ConsumerAt
    <2> QED
        BY <1>1, <1>3, <1>4, <1>5, <1>6, <2>1
        DEF IInv, ConsumerAt, InRound, SameInput, SameDevice, SameButTheRing
<1> QED
    BY <1>7, <1>8, <1>9, <1>10, <1>11 DEF IInv

\* Every step of the producer thread.
LEMMA ProducerKeeps ==
    ASSUME IInv, ProducerSteps
    PROVE  IInv'
<1>0. Whole(pl) /\ RingFits(pl) /\ (running => Sound(pl))
    BY SoundWhileRunning DEF IInv, Protected
<1>1. CASE ProducerExit
    <2> DEFINE s == producer_unload(pl)
    <2>1. /\ Whole(s) /\ SameDevice(pl, s) /\ Tells(pl, s) /\ s.ps = "UNLOADED" /\ s.fmt = pl.fmt
        BY <1>0, ProducerUnloadDone
    <2>2. ~running /\ ProducerEnter("done", "free", s)
        BY <1>1 DEF ProducerExit
    <2> HIDE DEF s
    <2>3. RingFits(s)
        BY <1>0, <2>1 DEF RingFits, SameDevice
    <2> QED
        BY <2>1, <2>2, <2>3, ProducerEnterKeeps
<1>2. SameDevice(pl, pl) /\ Tells(pl, pl)
    BY DEF SameDevice, Tells
<1>3. CASE ProducerSleep
    <2>1. running /\ NothingToDecode /\ ProducerEnter("asleep", "free", pl)
        BY <1>3 DEF ProducerSleep
    <2> QED
        BY <1>0, <1>2, <2>1, ProducerEnterKeeps
<1>4. CASE ProducerWork
    <2>1. running /\ ~NothingToDecode
        BY <1>4 DEF ProducerWork
    <2>2. pl.ip = "open"
        BY <1>0, <2>1 DEF NothingToDecode, Whole, ProducerHalf
    <2>3. BugOn(pl.ip # "open", pl, "ip_eof: !open") = pl
        BY <2>2 DEF BugOn
    <2>4. ProducerEnter("fill", "producer", pl)
        BY <1>4, <2>3 DEF ProducerWork
    <2> QED
        BY <1>0, <1>2, <2>1, <2>4, ProducerEnterKeeps
<1>5. ASSUME pcP = "fill"
      PROVE  /\ Sound(pl) /\ pl.ps = "PLAYING" /\ ~pl.eof /\ pl.n \in Nat
             /\ SameButTheRing(pl, pl) /\ pl.n >= pl.n
    <2>1. running /\ pl.ps = "PLAYING" /\ ~pl.eof
        BY <1>5 DEF IInv, ProducerAt
    <2>2. pl.n \in Nat
        BY ChunksAreCounted DEF IInv, TypeOK
    <2> QED
        BY <1>0, <2>1, <2>2 DEF SameButTheRing
<1>6. CASE ProducerFull \/ ProducerAgain
    <2> DEFINE results == {pl}
    <2>1. ProducerRound(results, FALSE) /\ pcP = "fill"
        BY <1>6 DEF ProducerFull, ProducerAgain, ProducerRound
    <2>2. \A t \in results : /\ Sound(t) /\ SameButTheRing(pl, t) /\ t.failed = pl.failed
                              /\ t.n >= pl.n
        BY <1>5, <2>1
    <2> HIDE DEF results
    <2> QED
        BY <2>1, <2>2, ProducerRoundKeeps
<1>7. CASE ProducerReadData
    <2>1. pl.n < NrChunks /\ ProducerRound(ReadData(pl), ~second) /\ pcP = "fill"
        BY <1>7 DEF ProducerReadData, ProducerRound
    <2>2. \A t \in ReadData(pl) : /\ Sound(t) /\ SameButTheRing(pl, t) /\ t.failed = pl.failed
                                  /\ t.n >= pl.n /\ ~t.eof
        BY <1>5, <2>1, ReadDataDone
    <2>3. (~second) \in BOOLEAN
        BY DEF IInv, TypeOK
    <2> QED
        BY <2>1, <2>2, <2>3, ProducerRoundKeeps
<1>8. CASE ProducerReadEof
    <2>1. pl.n < NrChunks /\ ProducerRound(ReadEof(pl), FALSE) /\ pcP = "fill"
        BY <1>8 DEF ProducerReadEof, ProducerRound
    <2>2. \A t \in ReadEof(pl) : /\ Sound(t) /\ SameButTheRing(pl, t) /\ t.failed = pl.failed
                                 /\ t.n >= pl.n
        BY <1>5, <2>1, ReadEofDone
    <2> QED
        BY <2>1, <2>2, ProducerRoundKeeps
<1> QED
    BY <1>1, <1>3, <1>4, <1>6, <1>7, <1>8 DEF ProducerSteps

\* consumer_loop takes its lock: it ends, sleeps, reopens the device or begins.
LEMMA ConsumerEnterKeeps ==
    ASSUME IInv, NEW pc, NEW lock, NEW results, ConsumerEnter(pc, lock, results),
           \A t \in results : /\ Whole(t) /\ RingFits(t) /\ Tells(pl, t) /\ SameInput(pl, t)
                              /\ running => Sound(t),
           \/ pc = "done" /\ lock = "free" /\ ~running /\ \A t \in results : t.cs = "STOPPED"
           \/ pc = "asleep" /\ lock = "free" /\ running
              /\ \A t \in results : t.cs # "PLAYING"
           \/ pc = "rpos" /\ lock = "consumer" /\ running
              /\ \A t \in results : t.cs = "PLAYING"
           \/ pc = "top" /\ lock = "free"
    PROVE  IInv'
<1>1. /\ pcC = "top" /\ lockC = "free" /\ pcC' = pc /\ lockC' = lock
      /\ lockP' = lockP /\ mpc' = mpc /\ mop' = mop /\ second' = second
      /\ running' = running /\ request' = request /\ answer' = answer
    BY DEF ConsumerEnter, main, channel
<1>2. PICK t \in results : Store(t) /\ WakeProducer(t)
    BY DEF ConsumerEnter
<1>3. /\ Whole(t) /\ RingFits(t) /\ Tells(pl, t) /\ SameInput(pl, t)
      /\ running => <<t.ps, t.cs>> \in Pairs
    BY <1>2 DEF Sound
<1>4. /\ Whole(pl') /\ RingFits(pl') /\ ~pl'.sigP /\ ~pl'.sigC
      /\ SameInput(t, pl') /\ SameDevice(t, pl')
    BY <1>2, <1>3, StoreDone
<1>5. pcP' = IF t.sigP /\ pcP = "asleep" THEN "top" ELSE pcP
    BY <1>2 DEF WakeProducer, Woken
<1>6. mpc # "wantP" /\ ~InRound
    BY <1>1 DEF IInv, Locks, InRound
<1>7. pc \in {"done", "asleep", "rpos", "top"} /\ lock \in {"free", "consumer"}
    OBVIOUS
<1>8. TypeOK'
    <2>1. TypeOK
        BY DEF IInv
    <2>2. pl' \in PlayerStates /\ ~pl'.sigP /\ ~pl'.sigC
        BY <1>4 DEF Whole
    <2>3. /\ lockC' \in {"free", "main", "consumer"}
          /\ lockP' \in {"free", "main", "producer", "consumer"}
          /\ mpc' \in {"idle", "check", "wantC", "wantP", "joinC", "joinP", "exited"}
          /\ mop' \in AllCommands \cup {""}
          /\ pcP' \in {"top", "fill", "asleep", "done"}
          /\ pcC' \in {"top", "rpos", "wantP", "await", "write", "asleep", "done"}
          /\ answer' \in {"none", "noTrack", "track"}
        BY <1>1, <1>5, <1>7, <2>1 DEF TypeOK
    <2>4. second' \in BOOLEAN /\ running' \in BOOLEAN /\ request' \in BOOLEAN
        BY <1>1, <2>1, Zenon DEF TypeOK
    <2> QED
        BY <2>2, <2>3, <2>4, TypesHold
<1>9. Protected'
    BY <1>1, <1>3, <1>4 DEF IInv, Protected, SameInput, SameDevice
<1>10. Locks' /\ Ending' /\ Answers'
    BY <1>1, <1>5, <1>6 DEF IInv, Locks, Ending, Answers, InRound
<1>11. ProducerAt'
    BY <1>1, <1>3, <1>4, <1>5 DEF IInv, ProducerAt, NothingToDecode, SameInput
<1>12. ConsumerAt'
    BY <1>1, <1>2, <1>4 DEF IInv, ConsumerAt, InRound, SameDevice
<1> QED
    BY <1>8, <1>9, <1>10, <1>11, <1>12 DEF IInv

\* A step of a round of consumer_loop.  While the producer decodes it leaves
\* producer_status and the end of the input alone.
LEMMA ConsumerRoundKeeps ==
    ASSUME IInv, NEW pc, NEW next, NEW results, ConsumerRound(pc, next, results),
           pc \in {"rpos", "wantP", "await", "write"},
           next \in {"top", "rpos", "wantP", "await", "write"},
           \A t \in results :
               /\ Settles(pl, t)
               /\ lockP \in {"free", "consumer"} \/ (t.ps = pl.ps /\ t.eof = pl.eof)
               /\ next # "top" => t.cs = "PLAYING"
               /\ next = "write" => t.n > 0
               /\ next = "await" => t.n = 0 /\ ~t.part,
           lockP' = IF next = "await" THEN "consumer" ELSE IF pc = "await" THEN "free" ELSE lockP,
           next = "await" => lockP = "free",
           pc # "await" => answer' = answer,
           next # "await" => request' = (request /\ pc # "await"),
           pc = "await" => next = "top" /\ answer' = "none" /\ answer # "none",
           request' \in BOOLEAN
    PROVE  IInv'
<1>1. /\ pcC = pc /\ pcC' = next /\ lockC' = IF next = "top" THEN "free" ELSE lockC
      /\ mpc' = mpc /\ mop' = mop /\ second' = second /\ running' = running
    BY DEF ConsumerRound, main
<1>2. PICK t \in results : Store(t) /\ WakeProducer(t)
    BY DEF ConsumerRound
<1>3. /\ Whole(t) /\ RingFits(t) /\ Tells(pl, t) /\ <<t.ps, t.cs>> \in Pairs
      /\ PrebufferFits => t.failed = pl.failed
    BY <1>2 DEF Settles, Sound
<1>4. /\ Whole(pl') /\ RingFits(pl') /\ ~pl'.sigP /\ ~pl'.sigC
      /\ SameInput(t, pl') /\ SameDevice(t, pl')
    BY <1>2, <1>3, StoreDone
<1>5. pcP' = IF t.sigP /\ pcP = "asleep" THEN "top" ELSE pcP
    BY <1>2 DEF WakeProducer, Woken
<1>6. InRound /\ lockC = "consumer" /\ running /\ mpc # "wantP"
    BY <1>1 DEF IInv, Locks, ConsumerAt, InRound
<1>7. TypeOK'
    <2>1. TypeOK
        BY DEF IInv
    <2>2. pl' \in PlayerStates /\ ~pl'.sigP /\ ~pl'.sigC
        BY <1>4 DEF Whole
    <2>3. /\ lockC' \in {"free", "main", "consumer"}
          /\ lockP' \in {"free", "main", "producer", "consumer"}
          /\ mpc' \in {"idle", "check", "wantC", "wantP", "joinC", "joinP", "exited"}
          /\ mop' \in AllCommands \cup {""}
          /\ pcP' \in {"top", "fill", "asleep", "done"}
          /\ pcC' \in {"top", "rpos", "wantP", "await", "write", "asleep", "done"}
          /\ answer' \in {"none", "noTrack", "track"}
        BY <1>1, <1>5, <2>1 DEF TypeOK
    <2>4. second' \in BOOLEAN /\ running' \in BOOLEAN /\ request' \in BOOLEAN
        BY <1>1, <2>1, Zenon DEF TypeOK
    <2> QED
        BY <2>2, <2>3, <2>4, TypesHold
<1>8. Protected'
    BY <1>1, <1>3, <1>4 DEF IInv, Protected, SameInput, SameDevice
<1>9. Locks'
    BY <1>1, <1>5, <1>6 DEF IInv, Locks, InRound
<1>10. Ending' /\ Answers'
    BY <1>1, <1>5, <1>6 DEF IInv, Ending, Answers
<1>11. ProducerAt'
    <2>1. pcP = "fill" => t.ps = pl.ps /\ t.eof = pl.eof
        BY <1>2 DEF IInv, Locks
    <2> QED
        BY <1>1, <1>3, <1>4, <1>5, <1>6, <2>1
        DEF IInv, ProducerAt, NothingToDecode, Tells, SameInput
<1>12. ConsumerAt'
    BY <1>1, <1>2, <1>4, <1>6 DEF IInv, ConsumerAt, InRound, SameInput, SameDevice
<1> QED
    BY <1>7, <1>8, <1>9, <1>10, <1>11, <1>12 DEF IInv

\* The steps that begin at the top of consumer_loop.
LEMMA ConsumerTopKeeps ==
    ASSUME IInv, ConsumerExit \/ ConsumerSleep \/ ConsumerReopen \/ ConsumerWork
    PROVE  IInv'
<1>0. /\ Whole(pl) /\ RingFits(pl) /\ (running => Sound(pl))
      /\ Tells(pl, pl) /\ SameInput(pl, pl) /\ pl.cs \in CStatus
    BY SoundWhileRunning DEF IInv, Protected, Tells, SameInput, TypeOK, PlayerStates
<1>1. CASE ConsumerExit
    <2> DEFINE s == consumer_stop(pl)
               results == {s}
    <2>1. Whole(s) /\ SameInput(pl, s) /\ Tells(pl, s) /\ s.cs = "STOPPED" /\ RingFits(s)
        BY <1>0, ConsumerStopDone
    <2>2. ~running /\ ConsumerEnter("done", "free", results)
        BY <1>1 DEF ConsumerExit
    <2> HIDE DEF s
    <2>3. \A t \in results : /\ Whole(t) /\ RingFits(t) /\ Tells(pl, t) /\ SameInput(pl, t)
                             /\ t.cs = "STOPPED"
        BY <2>1
    <2> HIDE DEF results
    <2> QED
        BY <2>2, <2>3, ConsumerEnterKeeps
<1>2. ASSUME NEW pc, NEW lock, NEW results, results = {pl},
             ConsumerEnter(pc, lock, results), running,
             \/ pc = "asleep" /\ lock = "free" /\ pl.cs # "PLAYING"
             \/ pc = "rpos" /\ lock = "consumer" /\ pl.cs = "PLAYING"
      PROVE  IInv'
    <2>1. \A t \in results : /\ Whole(t) /\ RingFits(t) /\ Tells(pl, t) /\ SameInput(pl, t)
                             /\ (running => Sound(t)) /\ t.cs = pl.cs
        BY <1>0, <1>2
    <2> QED
        BY <1>2, <2>1, ConsumerEnterKeeps
<1>3. CASE ConsumerSleep
    BY <1>2, <1>3 DEF ConsumerSleep
<1>4. CASE ConsumerWork
    BY <1>2, <1>4 DEF ConsumerWork
<1>5. CASE ConsumerReopen
    <2>1. running /\ pl.cs = "PLAYING" /\ ConsumerEnter("top", "free", ReopenDevice(pl))
        BY <1>5 DEF ConsumerReopen
    <2>2. \A t \in ReopenDevice(pl) : Settles(pl, t) /\ SameInput(pl, t)
        BY <1>0, <2>1, ReopenDone
    <2>3. \A t \in ReopenDevice(pl) : /\ Whole(t) /\ RingFits(t) /\ Tells(pl, t)
                                      /\ SameInput(pl, t) /\ Sound(t)
        BY <2>2 DEF Settles, Sound
    <2> QED
        BY <2>1, <2>3, ConsumerEnterKeeps
<1> QED
    BY <1>1, <1>3, <1>4, <1>5

\* The steps within a round of consumer_loop.
LEMMA ConsumerInRoundKeeps ==
    ASSUME IInv,
           \/ ConsumerFull \/ ConsumerRead \/ RecheckFilled \/ RecheckUnderrun
           \/ HandleEof \/ RequestNextTrack \/ TakeNextTrack
           \/ ConsumerWrite \/ ConsumerWriteFails
    PROVE  IInv'
<1>1. ASSUME InRound
      PROVE  Sound(pl) /\ Settles(pl, pl) /\ pl.ps = "PLAYING" /\ pl.cs = "PLAYING"
    <2>1. Sound(pl) /\ pl.cs = "PLAYING"
        BY <1>1, SoundWhileRunning DEF IInv, ConsumerAt
    <2> QED
        BY <2>1 DEF Settles, Tells, Sound, Pairs
<1>2. /\ request \in BOOLEAN /\ pl.n \in Nat
      /\ pcC # "await" => ~request /\ answer = "none"
      /\ pcC = "await" => lockP = "consumer"
    BY ChunksAreCounted DEF IInv, TypeOK, Answers, Locks
\* a round that leaves the state as it is
<1>3. ASSUME NEW pc \in {"rpos", "wantP"}, NEW next \in {"top", "rpos", "wantP", "await", "write"},
             ConsumerRound(pc, next, {pl}), lockP' = (IF next = "await" THEN "consumer" ELSE lockP),
             next = "write" => pl.n > 0,
             next = "await" => pl.n = 0 /\ ~pl.part /\ lockP = "free",
             answer' = answer, request' = (request \/ next = "await")
      PROVE  IInv'
    <2> DEFINE results == {pl}
    <2>1. ConsumerRound(pc, next, results) /\ pcC = pc
        BY <1>3 DEF ConsumerRound
    <2>2. \A t \in results : Settles(pl, t) /\ t = pl
        BY <1>1, <2>1 DEF InRound
    <2>3. pl.cs = "PLAYING" /\ (next # "await" => request' = (request /\ pc # "await"))
             /\ request' \in BOOLEAN
        BY <1>1, <1>2, <1>3, <2>1 DEF InRound
    <2> HIDE DEF results
    <2> QED
        BY <1>3, <2>1, <2>2, <2>3, ConsumerRoundKeeps
<1>4. CASE ConsumerFull
    BY <1>2, <1>3, <1>4 DEF ConsumerFull, channel
<1>5. CASE ConsumerRead
    <2>1. ConsumerRound("rpos", IF pl.n > 0 THEN "write" ELSE "wantP", {pl})
              /\ lockP' = lockP /\ request' = request /\ answer' = answer
        BY <1>5 DEF ConsumerRead, channel
    <2>2. CASE pl.n > 0
        BY <1>2, <1>3, <2>1, <2>2
    <2>3. CASE ~(pl.n > 0)
        BY <1>2, <1>3, <2>1, <2>3
    <2> QED
        BY <2>2, <2>3
<1>6. CASE RecheckFilled
    BY <1>2, <1>3, <1>6 DEF RecheckFilled, Recheck, channel
<1>7. CASE RecheckUnderrun
    <2>1. pcC = "wantP"
        BY <1>7 DEF RecheckUnderrun, Recheck, ConsumerRound
    <2>2. NotPlayingOrEmpty(pl) = pl
        BY <1>1, <2>1 DEF NotPlayingOrEmpty, BugOn, InRound, Sound, Whole, ProducerHalf
    <2> QED
        BY <1>2, <1>3, <1>7, <2>2 DEF RecheckUnderrun, Recheck, channel
<1>8. CASE RequestNextTrack
    <2>1. pl.eof /\ pl.n = 0 /\ lockP = "free" /\ ConsumerRound("wantP", "await", {pl})
              /\ lockP' = "consumer" /\ request' = TRUE /\ answer' = answer
        BY <1>8 DEF RequestNextTrack, Recheck, AtEof
    <2>2. ~pl.part
        BY <2>1 DEF IInv, Protected, Whole, ProducerHalf
    <2> QED
        BY <1>3, <2>1, <2>2
<1>9. CASE HandleEof
    <2>1. PICK cont \in Continue : Recheck("top", EofWithoutRequest(pl, cont))
        BY <1>9 DEF HandleEof
    <2>2. /\ lockP = "free" /\ ConsumerRound("wantP", "top", EofWithoutRequest(pl, cont))
          /\ lockP' = lockP /\ request' = request /\ answer' = answer
        BY <1>9, <2>1 DEF HandleEof, Recheck, channel
    <2>3. pcC = "wantP" /\ cont \in BOOLEAN
        BY <2>2, OptionsAssumption DEF ConsumerRound
    <2>4. \A t \in EofWithoutRequest(pl, cont) : Settles(pl, t)
        BY <1>1, <2>3, EofWithoutRequestSettles DEF InRound
    <2> QED
        BY <1>2, <2>2, <2>3, <2>4, ConsumerRoundKeeps
<1>10. CASE TakeNextTrack
    <2> DEFINE results ==
            IF answer = "noTrack" THEN EofNoTrack(pl)
            ELSE UNION {UNION {EofNextTrack(pl, t, on) : on \in {FALSE} \cup Continue} :
                            t \in Tracks}
    <2>1. /\ answer # "none" /\ ConsumerRound("await", "top", results)
          /\ lockP' = "free" /\ answer' = "none" /\ request' = request
        BY <1>10 DEF TakeNextTrack
    <2>2. pcC = "await"
        BY <2>1 DEF ConsumerRound
    <2>3. \A t \in results : Settles(pl, t)
        <3>1. \A t \in EofNoTrack(pl) : Settles(pl, t)
            BY <1>1, <2>2, EofNoTrackSettles DEF InRound
        <3>2. \A track \in Tracks, on \in BOOLEAN : \A t \in EofNextTrack(pl, track, on) :
                  Settles(pl, t)
            BY <1>1, <2>2, EofNextTrackSettles DEF InRound
        <3>3. {FALSE} \cup Continue \subseteq BOOLEAN
            BY OptionsAssumption
        <3>4. \A t \in UNION {UNION {EofNextTrack(pl, track, on) : on \in {FALSE} \cup Continue} :
                              track \in Tracks} : Settles(pl, t)
            <4>1. ASSUME NEW track \in Tracks
                  PROVE  \A t \in UNION {EofNextTrack(pl, track, on) : on \in {FALSE} \cup Continue} :
                             Settles(pl, t)
                BY <3>2, <3>3
            <4> QED
                BY <4>1
        <3>5. CASE answer = "noTrack"
            BY <3>1, <3>5
        <3>6. CASE answer # "noTrack"
            BY <3>4, <3>6
        <3> QED
            BY <3>5, <3>6
    <2> HIDE DEF results
    <2>4. ~request
        BY <2>1, <2>2 DEF IInv, TypeOK, Answers
    <2> QED
        BY <1>2, <2>1, <2>2, <2>3, <2>4, ConsumerRoundKeeps
<1>11. CASE ConsumerWrite
    <2>1. /\ ConsumerRound("write", "rpos", WriteConsumed(pl))
          /\ lockP' = lockP /\ request' = request /\ answer' = answer
        BY <1>11 DEF ConsumerWrite, channel
    <2>2. pcC = "write"
        BY <2>1 DEF ConsumerRound
    <2>3. pl.n > 0
        BY <2>2 DEF IInv, ConsumerAt
    <2>4. \A t \in WriteConsumed(pl) :
              Settles(pl, t) /\ t.ps = pl.ps /\ t.eof = pl.eof /\ t.cs = "PLAYING"
        <3>1. ASSUME NEW t \in WriteConsumed(pl)
              PROVE  /\ Sound(t) /\ SameButTheRing(pl, t) /\ t.failed = pl.failed
                     /\ t.eof = pl.eof
            BY <1>1, <2>2, <2>3, WriteConsumedDone DEF InRound
        <3> QED
            BY <1>1, <2>2, <3>1 DEF InRound, Settles, Tells, SameButTheRing
    <2> QED
        BY <1>2, <2>1, <2>2, <2>4, ConsumerRoundKeeps
<1>12. CASE ConsumerWriteFails
    <2>1. /\ ConsumerRound("write", "top", WriteFailed(pl))
          /\ lockP' = lockP /\ request' = request /\ answer' = answer
        BY <1>12 DEF ConsumerWriteFails, channel
    <2>2. pcC = "write"
        BY <2>1 DEF ConsumerRound
    <2>3. \A t \in WriteFailed(pl) : Settles(pl, t) /\ t.ps = pl.ps /\ t.eof = pl.eof
        BY <1>1, <2>2, ReopenDone DEF InRound, SameInput
    <2> QED
        BY <1>2, <2>1, <2>2, <2>3, ConsumerRoundKeeps
<1> QED
    BY <1>4, <1>5, <1>6, <1>7, <1>8, <1>9, <1>10, <1>11, <1>12

\* The invariant holds in every reachable state.
LEMMA IInvHolds == Spec => []IInv
<1>1. Init => IInv
    <2> SUFFICES ASSUME Init PROVE IInv
        OBVIOUS
    <2>1. 0 \in 0 .. NrChunks
        BY NrChunksAssumption
    <2>2. /\ pl.ps = "UNLOADED" /\ pl.cs = "STOPPED" /\ pl.ip = "none" /\ ~pl.eof /\ pl.n = 0
          /\ ~pl.part /\ ~pl.stale /\ pl.dev = "closed" /\ pl.failed = "" /\ ~pl.sigP /\ ~pl.sigC
        BY DEF Init
    <2>3. pl \in PlayerStates
        BY <2>1 DEF Init, PlayerStates, PStatus, CStatus, Bugs
    <2>4. TypeOK
        BY <2>2, <2>3 DEF Init, TypeOK, AllCommands
    <2>5. Protected
        BY <2>2, <2>3 DEF Protected, Whole, ProducerHalf, ConsumerHalf, RingFits, Pairs
    <2>6. Locks /\ ProducerAt /\ ConsumerAt /\ Ending /\ Answers
        BY DEF Init, Locks, ProducerAt, ConsumerAt, Ending, Answers, InRound
    <2> QED
        BY <2>4, <2>5, <2>6 DEF IInv
<1>2. IInv /\ [Next]_vars => IInv'
    <2> SUFFICES ASSUME IInv, [Next]_vars PROVE IInv'
        OBVIOUS
    <2>1. CASE Next
        BY <2>1, CommandsKeep, OtherMainStepsKeep, ExitKeeps, ProducerKeeps, ConsumerTopKeeps,
           ConsumerInRoundKeeps DEF Next, MainSteps, ConsumerSteps
    <2>2. CASE UNCHANGED vars
        <3>1. /\ pl' = pl /\ lockC' = lockC /\ lockP' = lockP /\ mpc' = mpc /\ mop' = mop
              /\ pcP' = pcP /\ second' = second /\ pcC' = pcC /\ running' = running
              /\ request' = request /\ answer' = answer
            BY <2>2 DEF vars, locks, main, channel
        <3>2. TypeOK'
            <4>1. /\ TypeOK /\ mpc' = mpc /\ pcP' = pcP /\ pcC' = pcC /\ answer' = answer
                  /\ pcP' \in {"top", "fill", "asleep", "done"}
                  /\ pcC' \in {"top", "rpos", "wantP", "await", "write", "asleep", "done"}
                BY <3>1 DEF IInv, TypeOK
            <4> QED
                BY <3>1, <4>1 DEF TypeOK
        <3>3. Protected'
            BY <3>1 DEF IInv, Protected
        <3>4. Locks' /\ Ending' /\ Answers'
            BY <3>1 DEF IInv, Locks, Ending, Answers, InRound
        <3>5. ProducerAt' /\ ConsumerAt'
            BY <3>1 DEF IInv, ProducerAt, ConsumerAt, InRound, NothingToDecode
        <3> QED
            BY <3>2, <3>3, <3>4, <3>5 DEF IInv
    <2> QED
        BY <2>1, <2>2
<1> QED
    BY <1>1, <1>2, PTL DEF Spec

\* The two halves of the player's state fit together whenever the locks are free,
\* and no BUG_ON of player.c, input.c and buffer.c fires, if 250 ms of every
\* format fit in the ring.
THEOREM PlayerConsistent ==
    ASSUME PrebufferFits
    PROVE  Spec => []PlayerIsConsistent
<1>1. IInv => PlayerIsConsistent
    BY DEF IInv, Protected, Whole, ProducerHalf, ConsumerHalf, Pairs, TypeOK,
        PlayerIsConsistent, StatusConsistent, NoAssertionFails
<1> QED
    BY <1>1, IInvHolds, PTL

\* The statuses, the input and the device fit together for every size of the ring.
THEOREM StatusConsistency == Spec => [](TypeOK /\ StatusConsistent)
<1>1. IInv => TypeOK /\ StatusConsistent
    BY DEF IInv, Protected, Whole, ProducerHalf, ConsumerHalf, Pairs, StatusConsistent
<1> QED
    BY <1>1, IInvHolds, PTL

\* What is heard is the current track at its position, rate and speed: neither old
\* bytes of the ring nor an old format of the device outlive a change.
THEOREM AudioCurrent == Spec => []AudioIsCurrent
<1>1. IInv => AudioIsCurrent
    BY DEF IInv, Protected, Whole, ProducerHalf, ConsumerHalf, RingFits,
        AudioIsCurrent, NoStaleAudio, DeviceRunsAtTrackRate
<1> QED
    BY <1>1, IInvHolds, PTL

\* The consumer asks for the next track only when every byte decoded from this one
\* was given to the device.
THEOREM TailPlayed == Spec => []NoTailLost
<1>1. IInv => NoTailLost
    BY DEF IInv, Protected, ConsumerAt, InRound, Pairs, NoTailLost
<1> QED
    BY <1>1, IInvHolds, PTL

\* A thread sleeps on its condition variable only while there is nothing to do.
THEOREM WakeupsArrive == Spec => []NoLostWakeup
<1>1. IInv => NoLostWakeup
    BY DEF IInv, ProducerAt, ConsumerAt, NoLostWakeup
<1> QED
    BY <1>1, IInvHolds, PTL

\* After player_exit the device is closed, the input deleted, and nobody holds a
\* lock or waits for a track.
THEOREM ExitIsClean == Spec => []CleanExit
<1>1. ASSUME IInv, mpc = "exited"
      PROVE  /\ pl.dev = "closed" /\ pl.ip \in {"none", "freed"} /\ pl.n = 0
             /\ lockC = "free" /\ lockP = "free" /\ ~request
    <2>1. pcC = "done" /\ pcP = "done"
        BY <1>1 DEF IInv, Ending
    <2>2. pl.cs = "STOPPED" /\ pl.ps = "UNLOADED"
        BY <1>1, <2>1 DEF IInv, ProducerAt, ConsumerAt
    <2>3. pl.dev = "closed" /\ pl.ip \in {"none", "freed"} /\ pl.n = 0
        BY <1>1, <2>2 DEF IInv, Protected, Whole, ProducerHalf, ConsumerHalf, PlayerStates
    <2>4. lockC = "free" /\ lockP = "free"
        BY <1>1, <2>1 DEF IInv, TypeOK, Locks, InRound
    <2>5. ~request
        BY <1>1, <2>1 DEF IInv, TypeOK, Answers
    <2> QED
        BY <2>3, <2>4, <2>5
<1>2. IInv => CleanExit
    BY <1>1 DEF CleanExit
<1> QED
    BY <1>2, IInvHolds, PTL

-----------------------------------------------------------------------------

\* The status is shown as it is, in every step and not only when the lock is free,
\* and no setSpeed is in hand.
Published ==
    /\ running => pl.shown = pl.cs
    /\ mop \in Commands \cup {"", "stop", "setFile"}

\* A stored result that shows its status.
LEMMA ResultPublished ==
    ASSUME running => pl.shown = pl.cs, NEW results, NEW t \in results,
           \A u \in results : Whole(u) /\ (running => Shows(pl, u)),
           Store(t), running' => running
    PROVE  running' => pl'.shown = pl'.cs
<1>1. Whole(t) /\ (running => Shows(pl, t))
    OBVIOUS
<1>2. pl'.shown = t.shown /\ pl'.cs = t.cs
    BY <1>1, StoreDone DEF SameDevice
<1> QED
    BY <1>1, <1>2 DEF Shows

\* Without setSpeed, whose failure shows the wrong status, it is always published.
LEMMA PublishedHolds ==
    ASSUME "setSpeed" \notin Commands
    PROVE  Spec => []Published
<1>1. Init => Published
    <2> SUFFICES ASSUME Init
                 PROVE  Published
        OBVIOUS
    <2>1. pl.shown = "STOPPED" /\ pl.cs = "STOPPED"
        BY DEF Init
    <2>2. mop = ""
        BY DEF Init
    <2> QED
        BY <2>1, <2>2 DEF Published
<1>2. ASSUME IInv, Published, [Next]_vars PROVE Published'
    <2>0. /\ running => pl.shown = pl.cs
          /\ mop \in Commands \cup {"", "stop", "setFile"}
          /\ Whole(pl) /\ RingFits(pl) /\ (running => Sound(pl))
        BY <1>2, SoundWhileRunning DEF Published, IInv, Protected
    <2>1. ASSUME pl' = pl, running' = running, mop' \in Commands \cup {"", "stop", "setFile"}
          PROVE  Published'
        BY <2>0, <2>1 DEF Published
    <2>2. ASSUME NEW c, NEW results, Executes(c, results), c # "setSpeed",
                 Sound(pl) => \A t \in results : Settles(pl, t) /\ Shows(pl, t),
                 mop' \in {"", "setFile"}
          PROVE  Published'
        <3>1. running' = running /\ mpc = "wantP"
            BY <2>2 DEF Executes
        <3>2. PICK t \in results : Store(t) /\ WakeProducer(t) /\ WakeConsumer(t)
            BY <2>2 DEF Executes
        <3>3. \A u \in results : Whole(u) /\ (running => Shows(pl, u))
            <4>1. Sound(pl)
                BY <1>2, <2>0, <3>1 DEF IInv, Ending
            <4> QED
                BY <2>2, <4>1 DEF Settles, Sound
        <3>4. running' => pl'.shown = pl'.cs
            BY <2>0, <3>1, <3>2, <3>3, ResultPublished
        <3> QED
            BY <2>2, <3>4 DEF Published
    <2>3. ASSUME NEW c, NEW results, Executes(c, results), Returns, c # "setSpeed",
                 Sound(pl) => \A t \in results : Settles(pl, t) /\ Shows(pl, t)
          PROVE  Published'
        BY <2>2, <2>3 DEF Returns
    <2>4. ASSUME Stop \/ Play \/ Pause \/ PausePlayback \/ Seek \/ SetOp \/ SetBufferChunks
          PROVE  Published'
        <3>1. CASE Stop
            BY <2>3, <3>1, StopSettles DEF Stop
        <3>2. CASE Play
            BY <2>3, <3>2, PlaySettles DEF Play
        <3>3. CASE Pause
            BY <2>3, <3>3, PauseSettles DEF Pause
        <3>4. CASE PausePlayback
            BY <2>3, <3>4, PauseSettles DEF PausePlayback
        <3>5. CASE Seek
            BY <2>3, <3>5, SeekSettles DEF Seek
        <3>6. CASE SetOp
            BY <2>3, <3>6, SetOpSettles DEF SetOp
        <3>7. CASE SetBufferChunks
            BY <2>3, <3>7, SetBufferChunksSettles DEF SetBufferChunks
        <3> QED
            BY <2>4, <3>1, <3>2, <3>3, <3>4, <3>5, <3>6, <3>7
    <2>5. ASSUME SetFile PROVE Published'
        <3> DEFINE results == UNION {player_set_file(pl, track) : track \in Tracks}
        <3>1. Executes("setFile", results) /\ Returns
            BY <2>5 DEF SetFile
        <3>2. Sound(pl) => \A t \in results : Settles(pl, t) /\ Shows(pl, t)
            BY SetFileSettles
        <3> HIDE DEF results
        <3> QED
            BY <2>3, <3>1, <3>2
    <2>6. ASSUME PlayFile PROVE Published'
        <3> DEFINE results == UNION {player_play_file(pl, track) : track \in Tracks}
        <3>1. Executes("playFile", results) /\ Returns
            BY <2>6 DEF PlayFile
        <3>2. Sound(pl) => \A t \in results : Settles(pl, t) /\ Shows(pl, t)
            BY PlayFileSettles
        <3> HIDE DEF results
        <3> QED
            BY <2>3, <3>1, <3>2
    <2>7. ASSUME SeekOver PROVE Published'
        <3>1. Executes("seek", SeekPastEnd(pl)) /\ mop' = "setFile"
            BY <2>7 DEF SeekOver
        <3>2. Sound(pl) => \A t \in SeekPastEnd(pl) : Settles(pl, t) /\ Shows(pl, t)
            BY SeekPastEndSettles
        <3> QED
            BY <2>2, <3>1, <3>2
    <2>8. ~SetSpeed
        BY <2>0 DEF SetSpeed, Executes
    <2>9. ASSUME Exit PROVE Published'
        BY <2>0, <2>9 DEF Exit, Published
    <2>10. ASSUME \/ SpuriousWakeup \/ \E c \in Commands : BeginCommand(c)
                  \/ CheckPlaying \/ MainLockConsumer
                  \/ JoinConsumer \/ JoinProducer \/ ProvideNextTrack
           PROVE  Published'
        <3>1. pl' = pl /\ running' = running
            BY <2>10 DEF SpuriousWakeup, BeginCommand, CheckPlaying, MainLockConsumer, JoinConsumer,
                JoinProducer, ProvideNextTrack
        <3>2. mop' = mop \/ mop' \in Commands \cup {"stop"}
            BY <2>10 DEF SpuriousWakeup, BeginCommand, BeginPause, BeginPausePlayback, CheckPlaying,
                MainLockConsumer, JoinConsumer, JoinProducer, ProvideNextTrack, main
        <3> QED
            BY <2>0, <2>1, <3>1, <3>2
    <2>11. ASSUME ProducerSteps PROVE Published'
        <3>1. ASSUME NEW t, Store(t), Whole(t), running' = running, mop' = mop,
                     running => t.cs = pl.cs /\ t.shown \in {pl.shown, pl.cs}
              PROVE  Published'
            <4>1. pl'.shown = t.shown /\ pl'.cs = t.cs
                BY <3>1, StoreDone DEF SameDevice
            <4> QED
                BY <2>0, <3>1, <4>1 DEF Published
        <3>2. CASE ProducerExit
            BY <2>0, <3>2 DEF ProducerExit, ProducerEnter, Published, main
        <3>3. CASE ProducerSleep
            BY <2>0, <3>1, <3>3 DEF ProducerSleep, ProducerEnter, main
        <3>4. CASE ProducerWork
            <4>1. running /\ pl.ip = "open"
                BY <2>0, <3>4 DEF ProducerWork, NothingToDecode, Whole, ProducerHalf
            <4>2. BugOn(pl.ip # "open", pl, "ip_eof: !open") = pl
                BY <4>1 DEF BugOn
            <4> QED
                BY <2>0, <3>1, <3>4, <4>2 DEF ProducerWork, ProducerEnter, main
        <3>5. ASSUME NEW results, NEW goOn, ProducerRound(results, goOn),
                     \A t \in results : Whole(t) /\ t.cs = pl.cs /\ t.shown \in {pl.shown, pl.cs}
              PROVE  Published'
            <4>1. PICK t \in results : Store(t) /\ WakeConsumer(t)
                BY <3>5 DEF ProducerRound
            <4>2. running' = running /\ mop' = mop
                BY <3>5 DEF ProducerRound, main
            <4> QED
                BY <3>1, <3>5, <4>1, <4>2
        <3>6. ASSUME pcP = "fill" PROVE Sound(pl) /\ pl.ps = "PLAYING" /\ ~pl.eof
            BY <1>2, <2>0, <3>6 DEF IInv, ProducerAt
        <3>7. CASE ProducerFull \/ ProducerAgain
            <4> DEFINE results == {pl}
            <4>1. ProducerRound(results, FALSE)
                BY <3>7 DEF ProducerFull, ProducerAgain
            <4>2. \A t \in results : Whole(t) /\ t.cs = pl.cs /\ t.shown \in {pl.shown, pl.cs}
                BY <2>0
            <4> HIDE DEF results
            <4> QED
                BY <3>5, <4>1, <4>2
        <3>8. CASE ProducerReadData
            <4>1. pl.n < NrChunks /\ ProducerRound(ReadData(pl), ~second) /\ pcP = "fill"
                BY <3>8 DEF ProducerReadData, ProducerRound
            <4>2. \A t \in ReadData(pl) : Sound(t) /\ SameButTheRing(pl, t)
                BY <3>6, <4>1, ReadDataDone
            <4>3. \A t \in ReadData(pl) : Whole(t) /\ t.cs = pl.cs /\ t.shown \in {pl.shown, pl.cs}
                BY <4>2 DEF Sound, SameButTheRing
            <4> QED
                BY <3>5, <4>1, <4>3
        <3>9. CASE ProducerReadEof
            <4>1. pl.n < NrChunks /\ ProducerRound(ReadEof(pl), FALSE) /\ pcP = "fill"
                BY <3>9 DEF ProducerReadEof, ProducerRound
            <4>2. \A t \in ReadEof(pl) : Sound(t) /\ SameButTheRing(pl, t)
                BY <3>6, <4>1, ReadEofDone
            <4>3. \A t \in ReadEof(pl) : Whole(t) /\ t.cs = pl.cs /\ t.shown \in {pl.shown, pl.cs}
                BY <4>2 DEF Sound, SameButTheRing
            <4> QED
                BY <3>5, <4>1, <4>3
        <3> QED
            BY <2>11, <3>2, <3>3, <3>4, <3>7, <3>8, <3>9 DEF ProducerSteps
    <2>12. ASSUME ConsumerSteps PROVE Published'
        <3>1. ASSUME NEW results, NEW t \in results, Store(t), running' = running, mop' = mop,
                     \A u \in results : Whole(u) /\ (running => Shows(pl, u))
              PROVE  Published'
            BY <2>0, <3>1, ResultPublished DEF Published
        <3>2. ASSUME NEW pc, NEW next, NEW results, ConsumerRound(pc, next, results),
                     \A u \in results : Whole(u) /\ Shows(pl, u)
              PROVE  Published'
            <4>1. PICK t \in results : Store(t) /\ WakeProducer(t)
                BY <3>2 DEF ConsumerRound
            <4>2. running' = running /\ mop' = mop
                BY <3>2 DEF ConsumerRound, main
            <4> QED
                BY <3>1, <3>2, <4>1, <4>2
        <3>3. ASSUME NEW pc, NEW lock, NEW results, ConsumerEnter(pc, lock, results),
                     \A u \in results : Whole(u) /\ (running => Shows(pl, u))
              PROVE  Published'
            <4>1. PICK t \in results : Store(t) /\ WakeProducer(t)
                BY <3>3 DEF ConsumerEnter
            <4>2. running' = running /\ mop' = mop
                BY <3>3 DEF ConsumerEnter, main
            <4> QED
                BY <3>1, <3>3, <4>1, <4>2
        <3>4. ASSUME pcC \in {"rpos", "wantP", "await", "write"}
              PROVE  Sound(pl) /\ pl.cs = "PLAYING" /\ pl.ps = "PLAYING"
            BY <1>2, <2>0, <3>4 DEF IInv, ConsumerAt, InRound, Sound, Pairs
        <3>5. CASE ConsumerExit
            BY <2>0, <3>5 DEF ConsumerExit, ConsumerEnter, Published, main
        <3> DEFINE same == {pl}
        <3>6. \A u \in same : Whole(u) /\ Shows(pl, u)
            BY <2>0 DEF Shows
        <3>7. CASE ConsumerSleep \/ ConsumerWork
            <4>1. \E pc, lock : ConsumerEnter(pc, lock, same)
                BY <3>7 DEF ConsumerSleep, ConsumerWork
            <4> HIDE DEF same
            <4> QED
                BY <3>3, <3>6, <4>1
        <3>8. CASE ConsumerReopen
            <4>1. running /\ pl.cs = "PLAYING" /\ ConsumerEnter("top", "free", ReopenDevice(pl))
                BY <3>8 DEF ConsumerReopen
            <4>2. \A u \in ReopenDevice(pl) : Settles(pl, u) /\ Shows(pl, u)
                BY <2>0, <4>1, ReopenDone
            <4> QED
                BY <3>3, <4>1, <4>2 DEF Settles, Sound
        <3>9. CASE ConsumerFull \/ ConsumerRead \/ RecheckFilled \/ RequestNextTrack
            <4>1. \E pc, next : ConsumerRound(pc, next, same)
                BY <3>9 DEF ConsumerFull, ConsumerRead, RecheckFilled, RequestNextTrack, Recheck
            <4> HIDE DEF same
            <4> QED
                BY <3>2, <3>6, <4>1
        <3>10. CASE RecheckUnderrun
            <4>1. ConsumerRound("wantP", "top", {NotPlayingOrEmpty(pl)}) /\ pcC = "wantP"
                BY <3>10 DEF RecheckUnderrun, Recheck, ConsumerRound
            <4>2. NotPlayingOrEmpty(pl) = pl
                BY <3>4, <4>1 DEF NotPlayingOrEmpty, BugOn, Sound, Whole, ProducerHalf
            <4>3. ConsumerRound("wantP", "top", same)
                BY <4>1, <4>2
            <4> HIDE DEF same
            <4> QED
                BY <3>2, <3>6, <4>3
        <3>11. CASE HandleEof
            <4>1. PICK cont \in Continue : Recheck("top", EofWithoutRequest(pl, cont))
                BY <3>11 DEF HandleEof
            <4>2. ConsumerRound("wantP", "top", EofWithoutRequest(pl, cont)) /\ pcC = "wantP"
                BY <4>1 DEF Recheck, ConsumerRound
            <4>3. cont \in BOOLEAN
                BY OptionsAssumption
            <4>4. \A u \in EofWithoutRequest(pl, cont) : Settles(pl, u) /\ Shows(pl, u)
                BY <3>4, <4>2, <4>3, EofWithoutRequestSettles
            <4> QED
                BY <3>2, <4>2, <4>4 DEF Settles, Sound
        <3>12. CASE TakeNextTrack
            <4> DEFINE followed == UNION {UNION {EofNextTrack(pl, t, on) : on \in {FALSE} \cup Continue} :
                                              t \in Tracks}
                       results == IF answer = "noTrack" THEN EofNoTrack(pl) ELSE followed
            <4>1. ConsumerRound("await", "top", results) /\ pcC = "await"
                BY <3>12 DEF TakeNextTrack, ConsumerRound
            <4>2. \A u \in EofNoTrack(pl) : Settles(pl, u) /\ Shows(pl, u)
                BY <3>4, <4>1, EofNoTrackSettles
            <4>3. \A u \in followed : Settles(pl, u) /\ Shows(pl, u)
                <5>1. {FALSE} \cup Continue \subseteq BOOLEAN
                    BY OptionsAssumption
                <5>2. ASSUME NEW track \in Tracks, NEW on \in {FALSE} \cup Continue,
                             NEW u \in EofNextTrack(pl, track, on)
                      PROVE  Settles(pl, u) /\ Shows(pl, u)
                    <6>1. on \in BOOLEAN /\ Sound(pl) /\ pl.cs = "PLAYING"
                        BY <3>4, <4>1, <5>1
                    <6> QED
                        BY <6>1, EofNextTrackSettles
                <5>3. ASSUME NEW u \in followed PROVE Settles(pl, u) /\ Shows(pl, u)
                    <6>1. PICK track \in Tracks :
                              u \in UNION {EofNextTrack(pl, track, on) : on \in {FALSE} \cup Continue}
                        BY <5>3, Zenon
                    <6>2. PICK on \in {FALSE} \cup Continue : u \in EofNextTrack(pl, track, on)
                        BY <6>1, Zenon
                    <6> QED
                        BY <5>2, <6>2
                <5> QED
                    BY <5>3
            <4> HIDE DEF followed
            <4>4. \A u \in results : Whole(u) /\ Shows(pl, u)
                BY <4>2, <4>3 DEF Settles, Sound
            <4> HIDE DEF results
            <4> QED
                BY <3>2, <4>1, <4>4
        <3>13. CASE ConsumerWrite
            <4>1. ConsumerRound("write", "rpos", WriteConsumed(pl)) /\ pcC = "write"
                BY <3>13 DEF ConsumerWrite, ConsumerRound
            <4>2. pl.n > 0
                BY <1>2, <4>1 DEF IInv, ConsumerAt
            <4>3. ASSUME NEW u \in WriteConsumed(pl)
                  PROVE  Sound(u) /\ SameButTheRing(pl, u) /\ u.shown = pl.shown
                BY <3>4, <4>1, <4>2, WriteConsumedDone
            <4>4. \A u \in WriteConsumed(pl) : Whole(u) /\ Shows(pl, u)
                BY <4>3 DEF Sound, SameButTheRing, Shows
            <4> QED
                BY <3>2, <4>1, <4>4
        <3>14. CASE ConsumerWriteFails
            <4>1. ConsumerRound("write", "top", WriteFailed(pl)) /\ pcC = "write"
                BY <3>14 DEF ConsumerWriteFails, ConsumerRound
            <4>2. \A u \in WriteFailed(pl) : Settles(pl, u) /\ Shows(pl, u)
                BY <3>4, <4>1, ReopenDone
            <4> QED
                BY <3>2, <4>1, <4>2 DEF Settles, Sound
        <3> QED
            BY <2>12, <3>5, <3>7, <3>8, <3>9, <3>10, <3>11, <3>12, <3>13, <3>14 DEF ConsumerSteps
    <2>13. CASE UNCHANGED vars
        BY <2>0, <2>13 DEF vars, main, Published
    <2> QED
        BY <1>2, <2>4, <2>5, <2>6, <2>7, <2>8, <2>9, <2>10, <2>11, <2>12, <2>13 DEF Next, MainSteps
<1> QED
    BY <1>1, <1>2, IInvHolds, PTL DEF Spec

\* The status the user interface shows is the consumer's, in every program in which
\* the user does not change the speed.
THEOREM StatusIsShown ==
    ASSUME "setSpeed" \notin Commands
    PROVE  Spec => []StatusShown
<1>1. Published => StatusShown
    BY DEF Published, StatusShown
<1> QED
    BY <1>1, PublishedHolds, PTL
=============================================================================
