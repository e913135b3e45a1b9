------------------------------ MODULE PcmBuffer ------------------------------
(***************************************************************************)
(* core/buffer.c: the ring of PCM chunks between the producer thread       *)
(* (decoder) and the consumer thread (output device), with the calls those *)
(* two threads and the main thread make on it in the order player.c makes  *)
(* them.                                                                   *)
(*                                                                         *)
(*   producer: buffer_get_wpos, ip_read into the chunk, buffer_fill;       *)
(*             buffer_wait_drain when the ring is full                     *)
(*   consumer: buffer_get_rpos, op_write from the chunk, buffer_consume;   *)
(*             buffer_wait_fill when the ring is empty                     *)
(*   others:   buffer_reset, and buffer_init for a new buffer_seconds      *)
(*                                                                         *)
(* Every buffer function runs under buffer_mutex and is one step here; the *)
(* decoder and the device touch the chunk's bytes between two such steps,  *)
(* without the mutex.  The callers of buffer_reset and buffer_init hold    *)
(* the player locks, so neither thread is then between taking a position   *)
(* and giving it back (module Player shows this); but a thread may be in   *)
(* buffer_wait_*, which runs without those locks.                          *)
(*                                                                         *)
(* The bytes of the stream are numbered since the last reset: the byte     *)
(* written at offset j of chunk i is remembered in data[i][j] as its       *)
(* number, until the chunk is emptied.                                     *)
(*                                                                         *)
(* Definitions marked "faulty" are not part of the model: each is a bug    *)
(* the code next to it could have, and that a property below would catch.  *)
(***************************************************************************)
EXTENDS Integers, FiniteSets

CONSTANTS
    MaxChunks,  \* bound on buffer_nr_chunks
    ChunkSize,  \* CHUNK_SIZE, in units of the decoder's writes
    MinRoom,    \* the 1024 bytes below which a chunk counts as full
    MaxBytes    \* bound on the bytes written between two resets

ASSUME MaxChunksAssumption == MaxChunks \in Nat \ {0}
ASSUME ChunkSizeAssumption == ChunkSize \in Nat \ {0}
ASSUME MinRoomAssumption == MinRoom \in 1 .. ChunkSize
ASSUME MaxBytesAssumption == MaxBytes \in Nat

VARIABLES
    nr,         \* buffer_nr_chunks
    l, h,       \* per chunk: first filled byte, last filled byte + 1
    filled,     \* per chunk: only the consumer may access it
    data,       \* per chunk and offset: number of the byte stored there
    ridx, widx, \* buffer_ridx, buffer_widx
    ready,      \* FALSE from free() in buffer_init until its buffer_reset
    ppc,        \* producer: idle, write, fill, full, asleep
    wpos,       \* what buffer_get_wpos returned: [chunk, off, size]
    nr_read,    \* what ip_read returned
    cpc,        \* consumer: idle, read, consume, empty, asleep
    rpos,       \* what buffer_get_rpos returned: [chunk, off, size]
    rc,         \* what op_write returned
    written, consumed, \* history: bytes filled and bytes consumed so far
    delivered   \* history: the bytes in the op_write being accounted for

ring == <<l, h, filled, ridx, widx>>
producer == <<ppc, wpos, nr_read>>
consumer == <<cpc, rpos, rc>>
history == <<written, consumed, delivered>>
vars == <<nr, ring, data, ready, producer, consumer, history>>

Chunks == 0 .. nr - 1
Offsets == 0 .. ChunkSize - 1
NoPos == [chunk |-> 0, off |-> 0, size |-> 0]
NoByte == -1
Blank == [j \in Offsets |-> NoByte]
NoBytes == [k \in 0 .. -1 |-> NoByte]

\* idx++; idx %= buffer_nr_chunks
SuccNoWrap(i) == i + 1  \* faulty
Succ(i) == IF i + 1 = nr THEN 0 ELSE i + 1

EmptyRing(n) ==
    /\ data' = [i \in 0 .. n - 1 |-> Blank]
    /\ l' = [i \in 0 .. n - 1 |-> 0]
    /\ h' = [i \in 0 .. n - 1 |-> 0]
    /\ filled' = [i \in 0 .. n - 1 |-> FALSE]
    /\ ridx' = 0
    /\ widx' = 0

Init ==
    /\ nr \in 1 .. MaxChunks
    /\ l = [i \in Chunks |-> 0]
    /\ h = [i \in Chunks |-> 0]
    /\ filled = [i \in Chunks |-> FALSE]
    /\ data = [i \in Chunks |-> Blank]
    /\ ridx = 0 /\ widx = 0
    /\ ready = TRUE
    /\ ppc = "idle" /\ wpos = NoPos /\ nr_read = 0
    /\ cpc = "idle" /\ rpos = NoPos /\ rc = 0
    /\ written = 0
    /\ consumed = 0
    /\ delivered = NoBytes

-----------------------------------------------------------------------------
(* The producer thread. *)

WritableBytesAnyChunk == ChunkSize - h[widx]  \* faulty
WritableBytes == IF filled[widx] THEN 0 ELSE ChunkSize - h[widx]

\* buffer_get_wpos; no room means that the ring is full.
GetWpos ==
    /\ ready
    /\ ppc = "idle"
    /\ IF WritableBytes = 0
          THEN ppc' = "full" /\ UNCHANGED wpos
          ELSE /\ ppc' = "write"
               /\ wpos' = [chunk |-> widx, off |-> h[widx], size |-> WritableBytes]
    /\ UNCHANGED <<nr, ring, data, ready, nr_read, consumer, history>>

\* ip_read: n bytes land at the position, no lock held on the buffer.
Decode(n) ==
    /\ ppc = "write"
    /\ n \in 0 .. wpos.size
    /\ written + n <= MaxBytes
    /\ data' = [data EXCEPT ![wpos.chunk] =
                   [j \in Offsets |-> IF j \in wpos.off .. wpos.off + n - 1
                                      THEN written + (j - wpos.off)
                                      ELSE @[j]]]
    /\ nr_read' = n
    /\ ppc' = "fill"
    /\ UNCHANGED <<nr, ring, ready, wpos, consumer, history>>

\* The input has nothing yet (EAGAIN): no buffer_fill follows.
DecodeLater ==
    /\ ppc = "write"
    /\ ppc' = "idle"
    /\ wpos' = NoPos
    /\ UNCHANGED <<nr, ring, data, ready, nr_read, consumer, history>>

\* "chunk is marked filled if free bytes < 1024 or count == 0"
\* Faulty: only a chunk full to the last byte is marked.
MarksFilledWhenExact(newh) == newh = ChunkSize \/ (nr_read = 0 /\ newh > 0)
MarksFilled(newh) == ChunkSize - newh < MinRoom \/ (nr_read = 0 /\ newh > 0)

WakeConsumerNever == UNCHANGED cpc  \* faulty
WakeConsumer == cpc' = IF cpc = "asleep" THEN "idle" ELSE cpc

\* buffer_fill(nr_read)
Fill ==
    /\ ppc = "fill"
    /\ LET newh == h[widx] + nr_read
       IN  /\ h' = [h EXCEPT ![widx] = newh]
           /\ IF MarksFilled(newh)
                 THEN /\ filled' = [filled EXCEPT ![widx] = TRUE]
                      /\ widx' = Succ(widx)
                      /\ WakeConsumer
                 ELSE UNCHANGED <<filled, widx, cpc>>
    /\ written' = written + nr_read
    /\ ppc' = "idle"
    /\ wpos' = NoPos
    /\ nr_read' = 0
    /\ UNCHANGED <<nr, l, data, ridx, ready, rpos, rc, consumed, delivered>>

\* buffer_wait_drain; the chunks are garbage while buffer_init replaces them.
WaitDrain ==
    /\ ppc = "full"
    /\ ppc' \in (IF ready THEN {IF filled[widx] THEN "asleep" ELSE "idle"}
                          ELSE {"asleep", "idle"})
    /\ UNCHANGED <<nr, ring, data, ready, wpos, nr_read, consumer, history>>

\* The 50 ms of the timed wait are over.
DrainTimeout ==
    /\ ppc = "asleep"
    /\ ppc' = "idle"
    /\ UNCHANGED <<nr, ring, data, ready, wpos, nr_read, consumer, history>>

-----------------------------------------------------------------------------
(* The consumer thread. *)

ReadableBytesAnyChunk == h[ridx] - l[ridx]  \* faulty
ReadableBytes == IF filled[ridx] THEN h[ridx] - l[ridx] ELSE 0

\* buffer_get_rpos
GetRpos ==
    /\ ready
    /\ cpc = "idle"
    /\ IF ReadableBytes = 0
          THEN cpc' = "empty" /\ UNCHANGED rpos
          ELSE /\ cpc' = "read"
               /\ rpos' = [chunk |-> ridx, off |-> l[ridx], size |-> ReadableBytes]
    /\ UNCHANGED <<nr, ring, data, ready, rc, producer, history>>

\* op_write accepts n of the bytes at the position.
Output(n) ==
    /\ cpc = "read"
    /\ n \in 0 .. rpos.size
    /\ delivered' = [k \in 0 .. n - 1 |-> data[rpos.chunk][rpos.off + k]]
    /\ rc' = n
    /\ cpc' = "consume"
    /\ UNCHANGED <<nr, ring, data, ready, rpos, producer, written, consumed>>

\* op_write failed: the device is reopened and nothing is consumed.
OutputError ==
    /\ cpc = "read"
    /\ cpc' = "idle"
    /\ rpos' = NoPos
    /\ UNCHANGED <<nr, ring, data, ready, rc, producer, history>>

WakeProducer == ppc' = IF ppc = "asleep" THEN "idle" ELSE ppc

\* What becomes of an emptied chunk: l = h = 0, given back to the producer.
FreedKeepingLow(newl) == [l EXCEPT ![ridx] = newl]  \* faulty
FreedLow(newl) == [l EXCEPT ![ridx] = 0]

\* buffer_consume(rc)
Consume ==
    /\ cpc = "consume"
    /\ LET newl == l[ridx] + rc
       IN  IF newl = h[ridx]
              THEN /\ l' = FreedLow(newl)
                   /\ h' = [h EXCEPT ![ridx] = 0]
                   /\ filled' = [filled EXCEPT ![ridx] = FALSE]
                   /\ data' = [data EXCEPT ![ridx] = Blank]
                   /\ ridx' = Succ(ridx)
                   /\ WakeProducer
              ELSE /\ l' = [l EXCEPT ![ridx] = newl]
                   /\ UNCHANGED <<h, filled, data, ridx, ppc>>
    /\ consumed' = consumed + rc
    /\ delivered' = NoBytes
    /\ cpc' = "idle"
    /\ rpos' = NoPos
    /\ rc' = 0
    /\ UNCHANGED <<nr, widx, ready, wpos, nr_read, written>>

\* buffer_wait_fill
WaitFill ==
    /\ cpc = "empty"
    /\ cpc' \in (IF ready THEN {IF filled[ridx] THEN "idle" ELSE "asleep"}
                          ELSE {"asleep", "idle"})
    /\ UNCHANGED <<nr, ring, data, ready, rpos, rc, producer, history>>

\* The player is not playing, or at the end of its input: no buffer_wait_fill.
SkipWait ==
    /\ cpc = "empty"
    /\ cpc' = "idle"
    /\ UNCHANGED <<nr, ring, data, ready, rpos, rc, producer, history>>

FillTimeout ==
    /\ cpc = "asleep"
    /\ cpc' = "idle"
    /\ UNCHANGED <<nr, ring, data, ready, rpos, rc, producer, history>>

-----------------------------------------------------------------------------
(* The holder of the player locks: main thread, or the consumer at the end *)
(* of a track.                                                             *)

NoAccess == ppc \in {"idle", "full", "asleep"} /\ cpc \in {"idle", "empty", "asleep"}

\* buffer_reset
Reset ==
    /\ NoAccess
    /\ EmptyRing(nr)
    /\ ready' = TRUE
    /\ WakeProducer
    /\ WakeConsumer
    /\ written' = 0
    /\ consumed' = 0
    /\ UNCHANGED <<nr, wpos, nr_read, rpos, rc, delivered>>

\* player_set_buffer_chunks: buffer_nr_chunks = n, then buffer_init frees and
\* allocates the chunks without buffer_mutex; its buffer_reset follows.  Only
\* the threads in buffer_wait_* can look at the chunks in between, and what
\* they see is left open there.
Resize(n) ==
    /\ ready
    /\ NoAccess
    /\ n \in 1 .. MaxChunks
    /\ nr' = n
    /\ EmptyRing(n)
    /\ ready' = FALSE
    /\ written' = 0
    /\ consumed' = 0
    /\ UNCHANGED <<producer, consumer, delivered>>

-----------------------------------------------------------------------------

ProducerNext ==
    GetWpos \/ DecodeLater \/ Fill \/ WaitDrain \/ DrainTimeout \/ \E n \in 0 .. ChunkSize : Decode(n)

ConsumerNext ==
    GetRpos \/ OutputError \/ Consume \/ WaitFill \/ SkipWait \/ FillTimeout
        \/ \E n \in 0 .. ChunkSize : Output(n)

Next ==
    \/ ProducerNext
    \/ ConsumerNext
    \/ Reset
    \/ \E n \in 1 .. MaxChunks : Resize(n)

Spec == Init /\ [][Next]_vars

-----------------------------------------------------------------------------
(* buffer_get_filled_chunks, from the three cases of its drawings. *)
\* Faulty: the wrap-around is forgotten.
FilledChunksNoWrap == IF ridx = widx /\ filled[ridx] THEN nr
                      ELSE IF ridx < widx THEN widx - ridx ELSE ridx - widx
FilledChunks ==
    IF ridx < widx THEN widx - ridx
    ELSE IF ridx > widx THEN nr - ridx + widx
    ELSE IF filled[ridx] THEN nr ELSE 0

-----------------------------------------------------------------------------
(* Properties. *)

Pos == [chunk : 0 .. MaxChunks - 1, off : 0 .. ChunkSize, size : 0 .. ChunkSize]

\* The types of the variables; the indices stay inside the ring and the bytes
\* of a chunk between its start and its end, whatever the ring was resized to.
TypeOK ==
    /\ nr \in 1 .. MaxChunks
    /\ l \in [Chunks -> 0 .. ChunkSize]
    /\ h \in [Chunks -> 0 .. ChunkSize]
    /\ filled \in [Chunks -> BOOLEAN]
    /\ data \in [Chunks -> [Offsets -> Nat \cup {NoByte}]]
    /\ ridx \in Chunks /\ widx \in Chunks
    /\ ready \in BOOLEAN
    /\ ppc \in {"idle", "write", "fill", "full", "asleep"}
    /\ cpc \in {"idle", "read", "consume", "empty", "asleep"}
    /\ wpos \in Pos /\ rpos \in Pos
    /\ nr_read \in 0 .. ChunkSize /\ rc \in 0 .. ChunkSize
    /\ written \in Nat /\ consumed \in Nat

\* BUG_ON(c->filled) of buffer_fill and BUG_ON(!c->filled) of buffer_consume
\* never fire, although the index and the mark they test were read in an
\* earlier critical section (buffer_get_wpos, buffer_get_rpos).
AssertionsHold ==
    /\ ppc \in {"write", "fill"} => ~filled[widx]
    /\ cpc \in {"read", "consume"} => filled[ridx]

\* The comment on struct chunk: a chunk can be accessed by either the consumer
\* or the producer, not both at the same time.  The decoder never writes into
\* the chunk the device is reading from.
ExclusiveChunk ==
    ppc \in {"write", "fill"} /\ cpc \in {"read", "consume"}
        => wpos.chunk # rpos.chunk

\* buffer_get_wpos: "If the return value is non-zero it is guaranteed to be
\* >= 1024."  The position it gives is also the one buffer_fill will credit.
WritableIsEnough ==
    ppc \in {"write", "fill"} =>
        /\ wpos.size >= MinRoom
        /\ wpos.chunk = widx
        /\ wpos.off = h[widx]

\* buffer_get_filled_chunks derives from the two indices alone how many chunks
\* carry the mark.
FilledChunksCounts == FilledChunks = Cardinality({i \in Chunks : filled[i]})

\* What the decoder, the device and the interface believe of the ring, each from an
\* index, a mark or a size it read earlier, agrees with the ring: no BUG_ON fires,
\* there is room where some was promised, and the chunks shown as filled are.
AccountsAgree == AssertionsHold /\ WritableIsEnough /\ FilledChunksCounts

\* No wakeup is lost: a thread sleeps in buffer_wait_* only while what it waits
\* for has not happened, so the 50 ms timeout is never what ends a wait.
NoMissedWakeup ==
    ready =>
        /\ cpc = "asleep" => ~filled[ridx]
        /\ ppc = "asleep" => filled[widx]

\* Producer and consumer never wait for each other.
NotBothAsleep == ready => ~(ppc = "asleep" /\ cpc = "asleep")

\* Bytes reach the device in the order they were decoded, none twice, none
\* skipped, across chunk borders, wrap-around, flushes of a partial chunk at
\* the end of a file, resets and resizes.
Stream == INSTANCE PcmStream WITH
    consumed <- consumed + (IF cpc = "consume" THEN rc ELSE 0)

ImplementsStream == Stream!StreamSpec
==============================================================================
