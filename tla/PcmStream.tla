------------------------------ MODULE PcmStream ------------------------------
(***************************************************************************)
(* What core/buffer.c promises to the decoder and to the output device: a  *)
(* first-in first-out stream of PCM bytes.  The bytes written since the    *)
(* last reset are numbered from 0; a read delivers the next unread         *)
(* numbers, in order, each of them once.  Nothing is said here of chunks,  *)
(* of the ring or of who waits for whom.                                   *)
(***************************************************************************)
EXTENDS Integers

VARIABLES
    written,   \* bytes written since the last reset
    consumed,  \* bytes read since the last reset
    delivered  \* the numbers of the bytes a read has just handed out, in order

svars == <<written, consumed, delivered>>

StreamInit ==
    /\ written = 0
    /\ consumed = 0
    /\ delivered = [k \in 0 .. -1 |-> 0]

Write ==
    /\ written' > written
    /\ UNCHANGED <<consumed, delivered>>

\* The reader takes the next bytes, none of them unwritten.
Read ==
    /\ consumed' >= consumed
    /\ consumed' <= written
    /\ delivered' = [k \in 0 .. consumed' - consumed - 1 |-> consumed + k]
    /\ UNCHANGED written

\* The bytes handed out are forgotten.
Settle ==
    /\ delivered' = [k \in 0 .. -1 |-> 0]
    /\ UNCHANGED <<written, consumed>>

\* A seek, a stop, a new file or a new buffer size drops what was not read.
Discard ==
    /\ written' = 0
    /\ consumed' = 0
    /\ UNCHANGED delivered

StreamNext == Write \/ Read \/ Settle \/ Discard

StreamSpec == StreamInit /\ [][StreamNext]_svars
==============================================================================
