-------------------------- MODULE PcmBufferProofs --------------------------
(***************************************************************************)
(* Theorems about module PcmBuffer, for every number of chunks, chunk size *)
(* and margin: its assertions and invariants, and that it is a PcmStream.  *)
(*                                                                         *)
(* The indices alone say which chunks are filled (RingShape), what the     *)
(* fields of a chunk can be follows from its mark and its place            *)
(* (ChunkShape), a position a thread holds is still the one it was given   *)
(* (Access), and the numbers of the bytes run on from chunk to chunk       *)
(* (Numbering).  Together with the types and NoMissedWakeup they are       *)
(* inductive.                                                              *)
(***************************************************************************)
EXTENDS PcmBuffer, FiniteSetTheorems, TLAPS

\* The filled chunks are those from ridx up to widx, around the end; with equal
\* indices it is all of them or none.
RingShape ==
    /\ ridx < widx => \A i \in Chunks : filled[i] <=> (ridx <= i /\ i < widx)
    /\ ridx > widx => \A i \in Chunks : filled[i] <=> (ridx <= i \/ i < widx)
    /\ ridx = widx => \A i, j \in Chunks : filled[i] <=> filled[j]

\* A filled chunk holds unread bytes; only the one being read has been read
\* from, and only the one being written is neither filled nor empty.
ChunkShape ==
    \A i \in Chunks :
        /\ l[i] <= h[i]
        /\ filled[i] => l[i] < h[i]
        /\ ~filled[i] => l[i] = 0 /\ ChunkSize - h[i] >= MinRoom
        /\ i # ridx => l[i] = 0
        /\ ~filled[i] /\ i # widx => h[i] = 0

\* What buffer_get_wpos and buffer_get_rpos returned stays true until buffer_fill
\* and buffer_consume.
Access ==
    /\ ppc \in {"write", "fill"} =>
           /\ ready
           /\ ~filled[widx]
           /\ wpos = [chunk |-> widx, off |-> h[widx], size |-> ChunkSize - h[widx]]
    /\ ppc = "fill" => nr_read <= ChunkSize - h[widx]
    /\ cpc \in {"read", "consume"} =>
           /\ ready
           /\ filled[ridx]
           /\ rpos = [chunk |-> ridx, off |-> l[ridx], size |-> h[ridx] - l[ridx]]
    /\ cpc = "consume" => rc <= h[ridx] - l[ridx]

\* The bytes of a chunk are numbered in sequence, from one chunk to the next, from
\* the next byte to read up to the next byte to write.
WithinChunks ==
    \A i \in Chunks : \A j \in Offsets : j < h[i] => data[i][j] = data[i][0] + j
FirstUnread ==
    /\ h[ridx] > 0 => data[ridx][0] + l[ridx] = consumed
    /\ h[ridx] = 0 => written = consumed
AcrossChunks ==
    \A i \in Chunks :
        filled[i] /\ h[Succ(i)] > 0 /\ Succ(i) # ridx => data[Succ(i)][0] = data[i][0] + h[i]
NextWritten ==
    /\ \A i \in Chunks :
           filled[i] /\ Succ(i) = widx /\ (h[widx] = 0 \/ filled[widx])
               => data[i][0] + h[i] = written
    /\ ~filled[widx] /\ h[widx] > 0 => data[widx][0] + h[widx] = written
AllWritten ==
    \A i \in Chunks : h[i] > 0 => data[i][0] + h[i] <= written
Decoded ==
    ppc = "fill" =>
        \A j \in Offsets : h[widx] <= j /\ j < h[widx] + nr_read
                               => data[widx][j] = written + (j - h[widx])

Numbering ==
    WithinChunks /\ FirstUnread /\ AcrossChunks /\ NextWritten /\ AllWritten /\ Decoded

Shape == TypeOK /\ RingShape /\ ChunkShape /\ Access /\ NoMissedWakeup
IndInv == Shape /\ Numbering

-----------------------------------------------------------------------------

\* The successor of a chunk is a chunk, and no two have the same.
LEMMA SuccFacts ==
    ASSUME nr \in Nat \ {0}
    PROVE  /\ \A i \in Chunks : Succ(i) \in Chunks
           /\ \A i, j \in Chunks : Succ(i) = Succ(j) => i = j
           /\ \A i \in Chunks : Succ(i) = i => nr = 1
BY DEF Succ, Chunks

\* Taking the chunk at ridx off the filled ones and moving on to the next chunk
\* keeps the indices in step with the marks (buffer_consume).
LEMMA ConsumeRing ==
    ASSUME nr \in Nat \ {0}, ridx \in Chunks, widx \in Chunks,
           filled \in [Chunks -> BOOLEAN], filled[ridx], RingShape,
           nr' = nr, widx' = widx, ridx' = Succ(ridx),
           filled' = [filled EXCEPT ![ridx] = FALSE]
    PROVE  RingShape'
<1>1. /\ nr \in Nat /\ ridx \in Int /\ 0 <= ridx /\ ridx < nr
      /\ widx \in Int /\ 0 <= widx /\ widx < nr
      /\ Chunks' = Chunks /\ \A i \in Chunks : i \in Int /\ 0 <= i /\ i < nr
    BY DEF Chunks
<1>2. \A i \in Chunks : filled'[i] <=> filled[i] /\ i # ridx
    OBVIOUS
<1>3. ridx' = IF ridx + 1 = nr THEN 0 ELSE ridx + 1
    BY DEF Succ
<1>4. CASE ridx < widx
    <2>1. \A i \in Chunks : filled'[i] <=> (ridx + 1 <= i /\ i < widx)
        BY <1>1, <1>2, <1>4 DEF RingShape
    <2>2. ridx' = ridx + 1
        BY <1>1, <1>3, <1>4
    <2> QED BY <1>1, <1>4, <2>1, <2>2 DEF RingShape
<1>5. CASE ridx > widx
    <2>1. \A i \in Chunks : filled'[i] <=> (ridx + 1 <= i \/ i < widx)
        BY <1>1, <1>2, <1>5 DEF RingShape
    <2> QED BY <1>1, <1>3, <1>5, <2>1 DEF RingShape
<1>6. CASE ridx = widx
    <2>1. \A i \in Chunks : filled'[i] <=> i # ridx
        BY <1>1, <1>2, <1>6 DEF RingShape
    <2> QED BY <1>1, <1>3, <1>6, <2>1 DEF RingShape
<1> QED BY <1>1, <1>4, <1>5, <1>6

\* The same for marking the chunk at widx and moving on (buffer_fill).
LEMMA FillRing ==
    ASSUME nr \in Nat \ {0}, ridx \in Chunks, widx \in Chunks,
           filled \in [Chunks -> BOOLEAN], ~filled[widx], RingShape,
           nr' = nr, ridx' = ridx, widx' = Succ(widx),
           filled' = [filled EXCEPT ![widx] = TRUE]
    PROVE  RingShape'
<1>1. /\ nr \in Nat /\ ridx \in Int /\ 0 <= ridx /\ ridx < nr
      /\ widx \in Int /\ 0 <= widx /\ widx < nr
      /\ Chunks' = Chunks /\ \A i \in Chunks : i \in Int /\ 0 <= i /\ i < nr
    BY DEF Chunks
<1>2. \A i \in Chunks : filled'[i] <=> filled[i] \/ i = widx
    OBVIOUS
<1>3. widx' = IF widx + 1 = nr THEN 0 ELSE widx + 1
    BY DEF Succ
<1>4. CASE ridx < widx
    <2>1. \A i \in Chunks : filled'[i] <=> (ridx <= i /\ i < widx + 1)
        BY <1>1, <1>2, <1>4 DEF RingShape
    <2> QED BY <1>1, <1>3, <1>4, <2>1 DEF RingShape
<1>5. CASE ridx > widx
    <2>1. \A i \in Chunks : filled'[i] <=> (ridx <= i \/ i < widx + 1)
        BY <1>1, <1>2, <1>5 DEF RingShape
    <2>2. widx' = widx + 1
        BY <1>1, <1>3, <1>5
    <2> QED BY <1>1, <1>5, <2>1, <2>2 DEF RingShape
<1>6. CASE ridx = widx
    <2>1. \A i \in Chunks : filled'[i] <=> i = widx
        BY <1>1, <1>2, <1>6 DEF RingShape
    <2> QED BY <1>1, <1>3, <1>6, <2>1 DEF RingShape
<1> QED BY <1>1, <1>4, <1>5, <1>6

\* The position a thread holds when it has none is a position.
LEMMA NoPosType == NoPos \in Pos
BY MaxChunksAssumption, ChunkSizeAssumption DEF NoPos, Pos

\* buffer_init leaves a ring of the required shape.
LEMMA InitShape == Init => Shape
<1> SUFFICES ASSUME Init PROVE Shape
    OBVIOUS
<1> USE MaxChunksAssumption, ChunkSizeAssumption, MinRoomAssumption, MaxBytesAssumption
<1>1. TypeOK
    BY DEF Init, TypeOK, Chunks, Offsets, Blank, NoByte, NoPos, Pos
<1>2. RingShape /\ ChunkShape
    BY DEF Init, RingShape, ChunkShape, Chunks
<1>3. Access /\ NoMissedWakeup
    BY DEF Init, Access, NoMissedWakeup
<1> QED BY <1>1, <1>2, <1>3 DEF Shape

\* Steps that only move a thread on, or hand it a position.
LEMMA QuietShape ==
    ASSUME Shape,
           \/ GetWpos \/ DecodeLater \/ WaitDrain \/ DrainTimeout
           \/ GetRpos \/ OutputError \/ WaitFill \/ SkipWait \/ FillTimeout
           \/ UNCHANGED vars
    PROVE  Shape'
<1> USE MaxChunksAssumption, ChunkSizeAssumption, MinRoomAssumption
<1> USE DEF Shape
<1>1. UNCHANGED <<nr, ring, data, ready, written, consumed>>
    BY DEF GetWpos, DecodeLater, WaitDrain, DrainTimeout, GetRpos, OutputError,
           WaitFill, SkipWait, FillTimeout, vars, history
<1>2. RingShape' /\ ChunkShape'
    BY <1>1 DEF RingShape, ChunkShape, ring, Chunks
<1>3. TypeOK'
    <2>1. wpos' \in Pos
        <3>1. WritableBytes \in 0 .. ChunkSize /\ widx \in 0 .. MaxChunks - 1
              /\ h[widx] \in 0 .. ChunkSize
            BY DEF TypeOK, Chunks, WritableBytes
        <3>2. NoPos \in Pos /\ wpos \in Pos
            BY DEF NoPos, Pos, TypeOK
        <3>3. \/ wpos' = NoPos \/ wpos' = wpos
              \/ wpos' = [chunk |-> widx, off |-> h[widx], size |-> WritableBytes]
            BY DEF GetWpos, DecodeLater, WaitDrain, DrainTimeout, GetRpos, OutputError,
               WaitFill, SkipWait, FillTimeout, vars, producer
        <3> QED BY <3>1, <3>2, <3>3 DEF Pos
    <2>2. rpos' \in Pos
        <3>1. ReadableBytes \in 0 .. ChunkSize /\ ridx \in 0 .. MaxChunks - 1
              /\ l[ridx] \in 0 .. ChunkSize
            BY DEF TypeOK, Chunks, ReadableBytes, ChunkShape
        <3>2. NoPos \in Pos /\ rpos \in Pos
            BY DEF NoPos, Pos, TypeOK
        <3>3. \/ rpos' = NoPos \/ rpos' = rpos
              \/ rpos' = [chunk |-> ridx, off |-> l[ridx], size |-> ReadableBytes]
            BY DEF GetWpos, DecodeLater, WaitDrain, DrainTimeout, GetRpos, OutputError,
               WaitFill, SkipWait, FillTimeout, vars, consumer
        <3> QED BY <3>1, <3>2, <3>3 DEF Pos
    <2>3. /\ ppc' \in {"idle", "write", "fill", "full", "asleep"}
          /\ cpc' \in {"idle", "read", "consume", "empty", "asleep"}
          /\ nr_read' \in 0 .. ChunkSize /\ rc' \in 0 .. ChunkSize
        BY DEF TypeOK, GetWpos, DecodeLater, WaitDrain, DrainTimeout, GetRpos,
           OutputError, WaitFill, SkipWait, FillTimeout, vars, producer, consumer
    <2> QED BY <1>1, <2>1, <2>2, <2>3 DEF TypeOK, ring, Chunks, Offsets, Pos
<1>4. Access'
    BY <1>1 DEF Access, ring, GetWpos, DecodeLater, WaitDrain, DrainTimeout, GetRpos,
       OutputError, WaitFill, SkipWait, FillTimeout, vars, WritableBytes, ReadableBytes,
       producer, consumer
<1>5. NoMissedWakeup'
    BY <1>1 DEF NoMissedWakeup, ring, GetWpos, DecodeLater, WaitDrain, DrainTimeout,
       GetRpos, OutputError, WaitFill, SkipWait, FillTimeout, vars, producer, consumer
<1> QED BY <1>2, <1>3, <1>4, <1>5

\* The decoder and the device touch bytes, no index and no mark.
LEMMA DecodeShape ==
    ASSUME Shape, NEW n \in 0 .. ChunkSize, Decode(n)
    PROVE  Shape'
<1> USE ChunkSizeAssumption, MinRoomAssumption
<1> USE DEF Shape
<1>1. RingShape' /\ ChunkShape' /\ NoMissedWakeup'
    <2>1. /\ UNCHANGED <<nr, l, h, filled, ridx, widx, ready, cpc>>
          /\ ppc' = "fill"
        BY DEF Decode, ring, consumer
    <2>2. RingShape /\ ChunkShape /\ NoMissedWakeup
        OBVIOUS
    <2>3. Chunks' = Chunks
        BY <2>1 DEF Chunks
    <2> HIDE DEF Shape
    <2>4. RingShape'
        BY <2>1, <2>2, <2>3 DEF RingShape
    <2>5. ChunkShape'
        BY <2>1, <2>2, <2>3 DEF ChunkShape
    <2>6. NoMissedWakeup'
        BY <2>1, <2>2 DEF NoMissedWakeup
    <2> QED BY <2>4, <2>5, <2>6
<1>2. Access'
    BY DEF Access, Decode, ring, consumer
<1>3. wpos.chunk \in Chunks /\ wpos.off \in 0 .. ChunkSize
    BY DEF Access, Decode, TypeOK
<1>4. data' \in [Chunks' -> [Offsets -> Nat \cup {NoByte}]]
    <2> DEFINE new(j) == IF j \in wpos.off .. wpos.off + n - 1
                         THEN written + (j - wpos.off) ELSE data[wpos.chunk][j]
    <2>1. \A j \in Offsets : new(j) \in Nat \cup {NoByte}
        <3>1. /\ data[wpos.chunk] \in [Offsets -> Nat \cup {NoByte}]
              /\ written \in Nat
            BY <1>3 DEF TypeOK
        <3>2. wpos.off \in Int
            BY <1>3
        <3> HIDE DEF Shape
        <3> SUFFICES ASSUME NEW j \in Offsets PROVE new(j) \in Nat \cup {NoByte}
            OBVIOUS
        <3>3. CASE j \in wpos.off .. wpos.off + n - 1
            BY <3>1, <3>2, <3>3
        <3>4. CASE j \notin wpos.off .. wpos.off + n - 1
            BY <3>1, <3>4
        <3> QED BY <3>3, <3>4
    <2>2. [j \in Offsets |-> new(j)] \in [Offsets -> Nat \cup {NoByte}]
        BY <2>1
    <2>3. data' = [data EXCEPT ![wpos.chunk] = [j \in Offsets |-> new(j)]]
        BY <1>3 DEF Decode, TypeOK
    <2>4. nr' = nr /\ Chunks' = Chunks
        BY DEF Decode, Chunks
    <2> HIDE DEF new
    <2> QED BY <1>3, <2>2, <2>3, <2>4 DEF TypeOK
<1>5. TypeOK'
    BY <1>4 DEF TypeOK, Decode, Chunks, Offsets, ring, consumer, history, Access, Pos
<1> QED BY <1>1, <1>2, <1>5

\* op_write reads the bytes of the chunk: the position it was given stays valid.
LEMMA OutputShape ==
    ASSUME Shape, NEW n \in 0 .. ChunkSize, Output(n)
    PROVE  Shape'
<1> USE ChunkSizeAssumption, MinRoomAssumption
<1> USE DEF Shape
<1>1. RingShape' /\ ChunkShape' /\ NoMissedWakeup'
    BY DEF RingShape, ChunkShape, NoMissedWakeup, Output, ring, Chunks, producer
<1>2. Access'
    BY DEF Access, Output, ring, producer
<1>3. TypeOK'
    BY DEF TypeOK, Output, Chunks, Offsets, ring, producer, Access
<1> QED BY <1>1, <1>2, <1>3

\* An empty ring of n chunks.
LEMMA EmptyRingShape ==
    ASSUME NEW n \in 1 .. MaxChunks, EmptyRing(n), nr' = n
    PROVE  RingShape' /\ ChunkShape'
BY MaxChunksAssumption, MinRoomAssumption, ChunkSizeAssumption
   DEF EmptyRing, RingShape, ChunkShape, Chunks

\* buffer_reset and buffer_init: no thread holds a position, so an empty ring
\* invalidates none.
LEMMA ResetShape ==
    ASSUME Shape, Reset \/ \E n \in 1 .. MaxChunks : Resize(n)
    PROVE  Shape'
<1> USE MaxChunksAssumption, ChunkSizeAssumption, MinRoomAssumption
<1> USE DEF Shape
<1>1. PICK n \in 1 .. MaxChunks :
          /\ EmptyRing(n) /\ nr' = n /\ NoAccess
          /\ written' = 0 /\ consumed' = 0
          /\ UNCHANGED <<wpos, nr_read, rpos, rc>>
          /\ \/ ready' = TRUE /\ WakeProducer /\ WakeConsumer
             \/ ready' = FALSE /\ ppc' = ppc /\ cpc' = cpc
    <2>1. CASE Reset
        BY <2>1 DEF Reset, TypeOK
    <2>2. CASE \E n \in 1 .. MaxChunks : Resize(n)
        BY <2>2 DEF Resize, producer, consumer
    <2> QED BY <2>1, <2>2
<1>2. RingShape' /\ ChunkShape'
    BY <1>1, EmptyRingShape
<1>3. TypeOK'
    <2>1. /\ Chunks' = 0 .. n - 1
          /\ data' \in [0 .. n - 1 -> [Offsets -> Nat \cup {NoByte}]]
        BY <1>1 DEF EmptyRing, Chunks, Blank
    <2>2. /\ nr' \in 1 .. MaxChunks
          /\ l' \in [Chunks' -> 0 .. ChunkSize] /\ h' \in [Chunks' -> 0 .. ChunkSize]
          /\ filled' \in [Chunks' -> BOOLEAN]
          /\ ridx' \in Chunks' /\ widx' \in Chunks'
        BY <1>1, <2>1 DEF EmptyRing
    <2>3. /\ ready' \in BOOLEAN
          /\ ppc' \in {"idle", "write", "fill", "full", "asleep"}
          /\ cpc' \in {"idle", "read", "consume", "empty", "asleep"}
          /\ written' \in Nat /\ consumed' \in Nat
        BY <1>1 DEF TypeOK, WakeProducer, WakeConsumer
    <2>4. /\ wpos' \in Pos /\ rpos' \in Pos
          /\ nr_read' \in 0 .. ChunkSize /\ rc' \in 0 .. ChunkSize
        BY <1>1 DEF TypeOK
    <2> QED BY <2>1, <2>2, <2>3, <2>4 DEF TypeOK, Offsets, Pos
<1>4. Access'
    BY <1>1 DEF Access, NoAccess, WakeProducer, WakeConsumer
<1>5. NoMissedWakeup'
    BY <1>1 DEF NoMissedWakeup, NoAccess, WakeProducer, WakeConsumer
<1> QED BY <1>2, <1>3, <1>4, <1>5

-----------------------------------------------------------------------------
\* buffer_fill: the chunk being written grows, and is marked when it is full
\* enough or the input has no more.
LEMMA FillShape ==
    ASSUME Shape, Fill
    PROVE  Shape'
<1> USE MaxChunksAssumption, ChunkSizeAssumption, MinRoomAssumption
<1> USE DEF Shape
<1> DEFINE newh == h[widx] + nr_read
<1>1. /\ widx \in Chunks /\ ~filled[widx] /\ ready
      /\ newh \in 0 .. ChunkSize /\ nr_read \in 0 .. ChunkSize
      /\ l[widx] = 0
      /\ nr \in Nat \ {0} /\ Succ(widx) \in Chunks
    <2>1. widx \in Chunks /\ nr \in Nat \ {0}
        BY DEF TypeOK
    <2> QED BY <2>1, SuccFacts DEF Fill, Access, ChunkShape, TypeOK
<1>2. /\ nr' = nr /\ l' = l /\ ridx' = ridx /\ ready' = ready /\ data' = data
      /\ rpos' = rpos /\ rc' = rc /\ ppc' = "idle" /\ wpos' = NoPos /\ nr_read' = 0
      /\ h' = [h EXCEPT ![widx] = newh]
      /\ consumed' = consumed /\ written' = written + nr_read
    BY DEF Fill
<1>3. CASE MarksFilled(newh)
    <2>1. /\ filled' = [filled EXCEPT ![widx] = TRUE]
          /\ widx' = Succ(widx)
          /\ cpc' = IF cpc = "asleep" THEN "idle" ELSE cpc
        BY <1>3 DEF Fill, WakeConsumer
    <2>2. newh > 0
        BY <1>1, <1>3 DEF MarksFilled
    <2>3. RingShape'
        <3>1. ridx \in Chunks /\ filled \in [Chunks -> BOOLEAN]
            BY DEF TypeOK
        <3> HIDE DEF Shape
        <3>2. RingShape
            BY DEF Shape
        <3> QED BY <1>1, <1>2, <2>1, <3>1, <3>2, FillRing
    <2>4. ChunkShape'
        BY <1>1, <1>2, <2>1, <2>2 DEF ChunkShape, TypeOK, Chunks
    <2>5. Access'
        BY <1>1, <1>2, <2>1 DEF Access, TypeOK
    <2>6. NoMissedWakeup'
        BY <1>1, <1>2, <2>1 DEF NoMissedWakeup, TypeOK
    <2>7. TypeOK'
        <3>1. Chunks' = Chunks /\ Pos' = Pos /\ Offsets' = Offsets
            BY <1>2 DEF Chunks, Pos, Offsets
        <3>2. /\ l' \in [Chunks -> 0 .. ChunkSize] /\ h' \in [Chunks -> 0 .. ChunkSize]
              /\ filled' \in [Chunks -> BOOLEAN]
              /\ ridx' \in Chunks /\ widx' \in Chunks
            BY <1>1, <1>2, <2>1 DEF TypeOK
        <3>3. data' \in [Chunks -> [Offsets -> Nat \cup {NoByte}]]
            BY <1>2, <2>1 DEF TypeOK
        <3>4. /\ nr' \in 1 .. MaxChunks /\ ready' \in BOOLEAN
              /\ ppc' \in {"idle", "write", "fill", "full", "asleep"}
              /\ cpc' \in {"idle", "read", "consume", "empty", "asleep"}
              /\ nr_read' \in 0 .. ChunkSize /\ rc' \in 0 .. ChunkSize
              /\ written' \in Nat /\ consumed' \in Nat
            BY <1>1, <1>2, <2>1 DEF TypeOK
        <3>5. wpos' \in Pos /\ rpos' \in Pos
            BY <1>2, NoPosType DEF TypeOK
        <3> QED BY <3>1, <3>2, <3>3, <3>4, <3>5 DEF TypeOK
    <2> QED BY <2>3, <2>4, <2>5, <2>6, <2>7
<1>4. CASE ~MarksFilled(newh)
    <2>1. filled' = filled /\ widx' = widx /\ cpc' = cpc
        BY <1>4 DEF Fill
    <2>2. ChunkSize - newh >= MinRoom
        BY <1>1, <1>4 DEF MarksFilled
    <2>3. RingShape'
        BY <1>2, <2>1 DEF RingShape, Chunks
    <2>4. ChunkShape'
        BY <1>1, <1>2, <2>1, <2>2 DEF ChunkShape, TypeOK, Chunks
    <2>5. Access'
        BY <1>1, <1>2, <2>1 DEF Access, TypeOK
    <2>6. NoMissedWakeup'
        BY <1>1, <1>2, <2>1 DEF NoMissedWakeup, TypeOK
    <2>7. TypeOK'
        <3>1. Chunks' = Chunks /\ Pos' = Pos /\ Offsets' = Offsets
            BY <1>2 DEF Chunks, Pos, Offsets
        <3>2. /\ l' \in [Chunks -> 0 .. ChunkSize] /\ h' \in [Chunks -> 0 .. ChunkSize]
              /\ filled' \in [Chunks -> BOOLEAN]
              /\ ridx' \in Chunks /\ widx' \in Chunks
            BY <1>1, <1>2, <2>1 DEF TypeOK
        <3>3. data' \in [Chunks -> [Offsets -> Nat \cup {NoByte}]]
            BY <1>2, <2>1 DEF TypeOK
        <3>4. /\ nr' \in 1 .. MaxChunks /\ ready' \in BOOLEAN
              /\ ppc' \in {"idle", "write", "fill", "full", "asleep"}
              /\ cpc' \in {"idle", "read", "consume", "empty", "asleep"}
              /\ nr_read' \in 0 .. ChunkSize /\ rc' \in 0 .. ChunkSize
              /\ written' \in Nat /\ consumed' \in Nat
            BY <1>1, <1>2, <2>1 DEF TypeOK
        <3>5. wpos' \in Pos /\ rpos' \in Pos
            BY <1>2, NoPosType DEF TypeOK
        <3> QED BY <3>1, <3>2, <3>3, <3>4, <3>5 DEF TypeOK
    <2> QED BY <2>3, <2>4, <2>5, <2>6, <2>7
<1> QED BY <1>3, <1>4

\* buffer_consume: the chunk being read shrinks; an empty one goes back to the
\* producer.
LEMMA ConsumeShape ==
    ASSUME Shape, Consume
    PROVE  Shape'
<1> USE MaxChunksAssumption, ChunkSizeAssumption, MinRoomAssumption
<1> USE DEF Shape
<1> DEFINE newl == l[ridx] + rc
<1>1. /\ ridx \in Chunks /\ filled[ridx] /\ ready
      /\ newl \in 0 .. h[ridx] /\ l[ridx] \in 0 .. ChunkSize /\ h[ridx] \in 0 .. ChunkSize
      /\ rc \in 0 .. ChunkSize
      /\ nr \in Nat \ {0} /\ Succ(ridx) \in Chunks
    <2>1. ridx \in Chunks /\ nr \in Nat \ {0}
        BY DEF TypeOK
    <2> QED BY <2>1, SuccFacts DEF Consume, Access, ChunkShape, TypeOK
<1>2. /\ nr' = nr /\ widx' = widx /\ ready' = ready
      /\ wpos' = wpos /\ nr_read' = nr_read /\ cpc' = "idle" /\ rpos' = NoPos /\ rc' = 0
      /\ consumed' = consumed + rc /\ written' = written
    BY DEF Consume
<1>3. CASE newl = h[ridx]
    <2>1. /\ l' = [l EXCEPT ![ridx] = 0] /\ h' = [h EXCEPT ![ridx] = 0]
          /\ filled' = [filled EXCEPT ![ridx] = FALSE]
          /\ data' = [data EXCEPT ![ridx] = Blank]
          /\ ridx' = Succ(ridx)
          /\ ppc' = IF ppc = "asleep" THEN "idle" ELSE ppc
        BY <1>3 DEF Consume, FreedLow, WakeProducer
    <2>3. RingShape'
        <3>1. widx \in Chunks /\ filled \in [Chunks -> BOOLEAN]
            BY DEF TypeOK
        <3> HIDE DEF Shape
        <3>2. RingShape
            BY DEF Shape
        <3> QED BY <1>1, <1>2, <2>1, <3>1, <3>2, ConsumeRing
    <2>4. ChunkShape'
        BY <1>1, <1>2, <2>1 DEF ChunkShape, TypeOK, Chunks
    <2>5. Access'
        BY <1>1, <1>2, <2>1 DEF Access, TypeOK
    <2>6. NoMissedWakeup'
        BY <1>1, <1>2, <2>1 DEF NoMissedWakeup, TypeOK
    <2>7. TypeOK'
        <3>1. Chunks' = Chunks /\ Pos' = Pos /\ Offsets' = Offsets
            BY <1>2 DEF Chunks, Pos, Offsets
        <3>2. /\ l' \in [Chunks -> 0 .. ChunkSize] /\ h' \in [Chunks -> 0 .. ChunkSize]
              /\ filled' \in [Chunks -> BOOLEAN]
              /\ ridx' \in Chunks /\ widx' \in Chunks
            BY <1>1, <1>2, <2>1 DEF TypeOK
        <3>3. data' \in [Chunks -> [Offsets -> Nat \cup {NoByte}]]
            <4>1. Blank \in [Offsets -> Nat \cup {NoByte}]
                BY DEF Blank
            <4> QED BY <1>1, <2>1, <4>1 DEF TypeOK
        <3>4. /\ nr' \in 1 .. MaxChunks /\ ready' \in BOOLEAN
              /\ ppc' \in {"idle", "write", "fill", "full", "asleep"}
              /\ cpc' \in {"idle", "read", "consume", "empty", "asleep"}
              /\ nr_read' \in 0 .. ChunkSize /\ rc' \in 0 .. ChunkSize
              /\ written' \in Nat /\ consumed' \in Nat
            BY <1>1, <1>2, <2>1 DEF TypeOK
        <3>5. wpos' \in Pos /\ rpos' \in Pos
            BY <1>2, NoPosType DEF TypeOK
        <3> QED BY <3>1, <3>2, <3>3, <3>4, <3>5 DEF TypeOK
    <2> QED BY <2>3, <2>4, <2>5, <2>6, <2>7
<1>4. CASE newl # h[ridx]
    <2>1. /\ l' = [l EXCEPT ![ridx] = newl]
          /\ h' = h /\ filled' = filled /\ data' = data /\ ridx' = ridx /\ ppc' = ppc
        BY <1>4 DEF Consume
    <2>3. RingShape'
        BY <1>2, <2>1 DEF RingShape, Chunks
    <2>4. ChunkShape'
        BY <1>1, <1>2, <1>4, <2>1 DEF ChunkShape, TypeOK, Chunks
    <2>5. Access'
        BY <1>1, <1>2, <2>1 DEF Access, TypeOK
    <2>6. NoMissedWakeup'
        BY <1>1, <1>2, <2>1 DEF NoMissedWakeup, TypeOK
    <2>7. TypeOK'
        <3>1. Chunks' = Chunks /\ Pos' = Pos /\ Offsets' = Offsets
            BY <1>2 DEF Chunks, Pos, Offsets
        <3>2. /\ l' \in [Chunks -> 0 .. ChunkSize] /\ h' \in [Chunks -> 0 .. ChunkSize]
              /\ filled' \in [Chunks -> BOOLEAN]
              /\ ridx' \in Chunks /\ widx' \in Chunks
            BY <1>1, <1>2, <2>1 DEF TypeOK
        <3>3. data' \in [Chunks -> [Offsets -> Nat \cup {NoByte}]]
            BY <1>2, <2>1 DEF TypeOK
        <3>4. /\ nr' \in 1 .. MaxChunks /\ ready' \in BOOLEAN
              /\ ppc' \in {"idle", "write", "fill", "full", "asleep"}
              /\ cpc' \in {"idle", "read", "consume", "empty", "asleep"}
              /\ nr_read' \in 0 .. ChunkSize /\ rc' \in 0 .. ChunkSize
              /\ written' \in Nat /\ consumed' \in Nat
            BY <1>1, <1>2, <2>1 DEF TypeOK
        <3>5. wpos' \in Pos /\ rpos' \in Pos
            BY <1>2, NoPosType DEF TypeOK
        <3> QED BY <3>1, <3>2, <3>3, <3>4, <3>5 DEF TypeOK
    <2> QED BY <2>3, <2>4, <2>5, <2>6, <2>7
<1> QED BY <1>3, <1>4

\* Every step of the ring keeps its shape.
LEMMA NextShape == Shape /\ [Next]_vars => Shape'
<1> SUFFICES ASSUME Shape, [Next]_vars PROVE Shape'
    OBVIOUS
<1>1. CASE \/ GetWpos \/ DecodeLater \/ WaitDrain \/ DrainTimeout \/ GetRpos
           \/ OutputError \/ WaitFill \/ SkipWait \/ FillTimeout \/ UNCHANGED vars
    BY <1>1, QuietShape
<1>2. ASSUME NEW n \in 0 .. ChunkSize, Decode(n) PROVE Shape'
    BY <1>2, DecodeShape
<1>3. ASSUME NEW n \in 0 .. ChunkSize, Output(n) PROVE Shape'
    BY <1>3, OutputShape
<1>4. CASE Fill
    BY <1>4, FillShape
<1>5. CASE Consume
    BY <1>5, ConsumeShape
<1>6. CASE Reset \/ \E n \in 1 .. MaxChunks : Resize(n)
    BY <1>6, ResetShape
<1> QED BY <1>1, <1>2, <1>3, <1>4, <1>5, <1>6 DEF Next, ProducerNext, ConsumerNext

\* The shape holds in every reachable state.
LEMMA ShapeInvariant == Spec => []Shape
<1>1. Init => Shape
    BY InitShape
<1>2. Shape /\ [Next]_vars => Shape'
    BY NextShape
<1> QED BY <1>1, <1>2, PTL DEF Spec

-----------------------------------------------------------------------------
(* The safety properties. *)

\* The types of the variables hold in every reachable state.
THEOREM TypeInvariant == Spec => []TypeOK
BY ShapeInvariant, PTL DEF Shape

\* BUG_ON(c->filled) of buffer_fill and BUG_ON(!c->filled) of buffer_consume never
\* fire.
THEOREM Assertions == Spec => []AssertionsHold
<1>1. Shape => AssertionsHold
    BY DEF Shape, Access, AssertionsHold
<1> QED BY <1>1, ShapeInvariant, PTL

\* The decoder never writes into the chunk the device is reading from.
THEOREM Exclusion == Spec => []ExclusiveChunk
<1>1. Shape => ExclusiveChunk
    BY DEF Shape, Access, ExclusiveChunk
<1> QED BY <1>1, ShapeInvariant, PTL

\* buffer_get_wpos gives no room or at least MinRoom, at a position that buffer_fill
\* will credit.
THEOREM EnoughRoom == Spec => []WritableIsEnough
<1>1. Shape => WritableIsEnough
    BY ChunkSizeAssumption, MinRoomAssumption
    DEF Shape, TypeOK, Access, ChunkShape, WritableIsEnough
<1> QED BY <1>1, ShapeInvariant, PTL

\* buffer_wait_fill and buffer_wait_drain sleep only while there is a reason to, and
\* so never both.
THEOREM Wakeups == Spec => [](NoMissedWakeup /\ NotBothAsleep)
<1>1. Shape => NoMissedWakeup /\ NotBothAsleep
    <2> SUFFICES ASSUME Shape PROVE NotBothAsleep
        BY DEF Shape
    <2>1. ~filled[ridx] => ridx = widx
        BY DEF Shape, TypeOK, RingShape, Chunks
    <2> QED BY <2>1 DEF Shape, NoMissedWakeup, NotBothAsleep
<1> QED BY <1>1, ShapeInvariant, PTL

\* The filled chunks, as intervals.
LEMMA FilledSet ==
    ASSUME Shape
    PROVE  {i \in Chunks : filled[i]} =
               IF ridx < widx THEN ridx .. widx - 1
               ELSE IF ridx > widx THEN (ridx .. nr - 1) \cup (0 .. widx - 1)
               ELSE IF filled[ridx] THEN 0 .. nr - 1 ELSE {}
<1> DEFINE S == {i \in Chunks : filled[i]}
<1>1. nr \in Nat \ {0} /\ ridx \in 0 .. nr - 1 /\ widx \in 0 .. nr - 1
    BY MaxChunksAssumption DEF Shape, TypeOK, Chunks
<1>2. CASE ridx < widx
    <2>1. \A i \in Chunks : filled[i] <=> (ridx <= i /\ i < widx)
        BY <1>2 DEF Shape, RingShape
    <2>2. S = ridx .. widx - 1
        BY <1>1, <1>2, <2>1 DEF Chunks
    <2> QED BY <1>2, <2>2
<1>3. CASE ridx > widx
    <2>1. \A i \in Chunks : filled[i] <=> (ridx <= i \/ i < widx)
        BY <1>3 DEF Shape, RingShape
    <2>2. S = (ridx .. nr - 1) \cup (0 .. widx - 1)
        BY <1>1, <1>3, <2>1 DEF Chunks
    <2> QED BY <1>1, <1>3, <2>2
<1>4. CASE ridx = widx
    <2>1. \A i \in Chunks : filled[i] <=> filled[ridx]
        BY <1>1, <1>4 DEF Shape, RingShape, Chunks
    <2>2. S = IF filled[ridx] THEN 0 .. nr - 1 ELSE {}
        BY <2>1 DEF Chunks
    <2> QED BY <1>1, <1>4, <2>2
<1> QED BY <1>1, <1>2, <1>3, <1>4

\* buffer_get_filled_chunks computes from the indices how many chunks are filled.
THEOREM FilledCount == Spec => []FilledChunksCounts
<1>1. Shape => FilledChunksCounts
    <2> SUFFICES ASSUME Shape PROVE FilledChunksCounts
        OBVIOUS
    <2>1. nr \in Nat \ {0} /\ ridx \in 0 .. nr - 1 /\ widx \in 0 .. nr - 1
        BY MaxChunksAssumption DEF Shape, TypeOK, Chunks
    <2>2. CASE ridx < widx
        <3>1. Cardinality(ridx .. widx - 1) = widx - ridx
            BY <2>1, <2>2, FS_Interval
        <3> QED BY <2>2, <3>1, FilledSet DEF FilledChunksCounts, FilledChunks
    <2>3. CASE ridx > widx
        <3> DEFINE A == ridx .. nr - 1
                   B == 0 .. widx - 1
        <3>1. /\ IsFiniteSet(A) /\ Cardinality(A) = nr - ridx
              /\ IsFiniteSet(B) /\ Cardinality(B) = widx
            BY <2>1, FS_Interval
        <3>2. A \cap B = {}
            BY <2>1, <2>3
        <3>3. Cardinality(A \cap B) = 0
            BY <3>2, FS_EmptySet
        <3>4. Cardinality(A \cup B) = nr - ridx + widx
            <4> HIDE DEF A, B
            <4>1. Cardinality(A \cup B) = Cardinality(A) + Cardinality(B) - Cardinality(A \cap B)
                BY <3>1, FS_Union
            <4> QED BY <2>1, <3>1, <3>3, <4>1
        <3> QED BY <2>1, <2>3, <3>4, FilledSet DEF FilledChunksCounts, FilledChunks
    <2>4. CASE ridx = widx
        <3>1. Cardinality(0 .. nr - 1) = nr /\ Cardinality({}) = 0
            BY <2>1, FS_Interval, FS_EmptySet
        <3>2. {i \in Chunks : filled[i]} = IF filled[ridx] THEN 0 .. nr - 1 ELSE {}
            BY <2>1, <2>4, FilledSet
        <3>3. FilledChunks = IF filled[ridx] THEN nr ELSE 0
            BY <2>1, <2>4 DEF FilledChunks
        <3>4. CASE filled[ridx]
            BY <3>1, <3>2, <3>3, <3>4 DEF FilledChunksCounts
        <3>5. CASE ~filled[ridx]
            BY <3>1, <3>2, <3>3, <3>5 DEF FilledChunksCounts
        <3> QED BY <3>4, <3>5
    <2> QED BY <2>1, <2>2, <2>3, <2>4
<1> QED BY <1>1, ShapeInvariant, PTL

\* Together: what the two threads and the interface believe of the ring is true.
THEOREM Accounts == Spec => []AccountsAgree
BY Assertions, EnoughRoom, FilledCount, PTL DEF AccountsAgree

-----------------------------------------------------------------------------
(* The numbers of the bytes. *)

\* Nothing is numbered in an empty ring.
LEMMA InitNumbering == Init => Numbering
<1> SUFFICES ASSUME Init PROVE Numbering
    OBVIOUS
<1>1. /\ \A i \in Chunks : h[i] = 0 /\ filled[i] = FALSE
      /\ ridx \in Chunks /\ widx \in Chunks
      /\ written = consumed /\ ppc = "idle"
    BY MaxChunksAssumption DEF Init, Chunks
<1> QED
    BY <1>1 DEF Numbering, WithinChunks, FirstUnread, AcrossChunks, NextWritten,
       AllWritten, Decoded, Offsets

\* Steps that leave the bytes, the indices and the counts alone.
LEMMA QuietNumbering ==
    ASSUME Numbering, ppc' # "fill" \/ (ppc' = ppc /\ nr_read' = nr_read),
           UNCHANGED <<nr, ring, data, written, consumed>>
    PROVE  Numbering'
<1>1. Decoded'
    BY DEF Numbering, Decoded, ring, Offsets
<1>2. WithinChunks' /\ FirstUnread' /\ AllWritten'
    BY DEF Numbering, WithinChunks, FirstUnread, AllWritten, ring, Chunks, Offsets
<1>3. AcrossChunks' /\ NextWritten'
    BY DEF Numbering, AcrossChunks, NextWritten, ring, Chunks, Succ
<1> QED BY <1>1, <1>2, <1>3 DEF Numbering

\* ip_read numbers the bytes after the last one written.
LEMMA DecodeNumbering ==
    ASSUME IndInv, NEW n \in 0 .. ChunkSize, Decode(n)
    PROVE  Numbering'
<1> USE ChunkSizeAssumption DEF IndInv, Shape, Numbering
<1>1. /\ widx \in Chunks /\ wpos.chunk = widx /\ wpos.off = h[widx]
      /\ h[widx] \in 0 .. ChunkSize /\ written \in Nat
    BY DEF Decode, Access, TypeOK
<1>2. /\ UNCHANGED <<nr, l, h, filled, ridx, widx, written, consumed>>
      /\ nr_read' = n /\ ppc' = "fill"
      /\ Chunks' = Chunks /\ \A i : Succ(i)' = Succ(i)
    BY DEF Decode, ring, history, Chunks, Succ
<1>3. \A i \in Chunks : \A j \in Offsets :
          data'[i][j] = IF i = widx /\ h[widx] <= j /\ j < h[widx] + n
                        THEN written + (j - h[widx]) ELSE data[i][j]
    BY <1>1 DEF Decode, TypeOK, Offsets
<1>4. \A i \in Chunks : \A j \in Offsets : j < h[i] => data'[i][j] = data[i][j]
    BY <1>1, <1>3 DEF Offsets
<1>5. 0 \in Offsets /\ \A i \in Chunks : h[i] \in 0 .. ChunkSize
    BY DEF Offsets, TypeOK
<1>6. \A i \in Chunks : h[i] > 0 => data'[i][0] = data[i][0]
    BY <1>4, <1>5
<1>7. WithinChunks'
    BY <1>2, <1>4, <1>5, <1>6 DEF WithinChunks, Offsets
<1>8. FirstUnread' /\ AllWritten'
    BY <1>2, <1>6 DEF FirstUnread, AllWritten, TypeOK
<1>9. AcrossChunks' /\ NextWritten'
    <2>1. \A i \in Chunks : filled[i] => h[i] > 0
        BY <1>5 DEF ChunkShape, TypeOK
    <2>2. \A i \in Chunks : Succ(i) \in Chunks
        BY SuccFacts, MaxChunksAssumption DEF TypeOK
    <2> QED BY <1>1, <1>2, <1>6, <2>1, <2>2 DEF AcrossChunks, NextWritten
<1>10. Decoded'
    BY <1>1, <1>2, <1>3 DEF Decoded, Offsets
<1> QED BY <1>7, <1>8, <1>9, <1>10

\* A reset starts the numbers again.
LEMMA ResetNumbering ==
    ASSUME IndInv, Reset \/ \E n \in 1 .. MaxChunks : Resize(n)
    PROVE  Numbering'
<1>1. PICK n \in 1 .. MaxChunks :
          EmptyRing(n) /\ nr' = n /\ written' = 0 /\ consumed' = 0 /\ ppc' # "fill"
    <2>1. CASE Reset
        BY <2>1 DEF Reset, IndInv, Shape, TypeOK, NoAccess, WakeProducer
    <2>2. CASE \E n \in 1 .. MaxChunks : Resize(n)
        BY <2>2 DEF Resize, producer, NoAccess
    <2> QED BY <2>1, <2>2
<1>2. /\ \A i \in Chunks' : h'[i] = 0 /\ filled'[i] = FALSE
      /\ ridx' \in Chunks' /\ widx' \in Chunks'
    BY <1>1, MaxChunksAssumption DEF EmptyRing, Chunks
<1> QED
    BY <1>1, <1>2 DEF Numbering, WithinChunks, FirstUnread, AcrossChunks, NextWritten,
       AllWritten, Decoded, Offsets

\* buffer_fill credits the decoded bytes; when the chunk is marked, the next one
\* takes up the numbers where it ends.
LEMMA FillNumbering ==
    ASSUME IndInv, Fill
    PROVE  Numbering'
<1> USE ChunkSizeAssumption, MinRoomAssumption, MaxChunksAssumption
<1> USE DEF IndInv, Shape, Numbering
<1> DEFINE w == widx
           newh == h[w] + nr_read
<1>1. /\ w \in Chunks /\ ~filled[w] /\ ridx \in Chunks
      /\ \A i \in Chunks : h[i] \in 0 .. ChunkSize /\ l[i] \in 0 .. ChunkSize
      /\ newh \in 0 .. ChunkSize /\ nr_read \in 0 .. ChunkSize
      /\ 0 \in Offsets /\ written \in Nat /\ consumed \in Nat
      /\ \A i \in Chunks : \A j \in Offsets : data[i][j] \in Int
    <2>1. \A i \in Chunks : \A j \in Offsets : data[i][j] \in Int
        BY DEF TypeOK, NoByte
    <2> QED BY <2>1 DEF TypeOK, Fill, Access, Offsets
<1>2. /\ nr' = nr /\ l' = l /\ ridx' = ridx /\ data' = data /\ consumed' = consumed
      /\ h' = [h EXCEPT ![w] = newh]
      /\ written' = written + nr_read /\ ppc' = "idle"
      /\ \/ MarksFilled(newh) /\ filled' = [filled EXCEPT ![w] = TRUE] /\ widx' = Succ(w)
         \/ ~MarksFilled(newh) /\ filled' = filled /\ widx' = widx
      /\ Chunks' = Chunks /\ \A i : Succ(i)' = Succ(i)
    BY DEF Fill, Chunks, Succ
<1>3. /\ \A i \in Chunks : h'[i] = IF i = w THEN newh ELSE h[i]
      /\ MarksFilled(newh) => \A i \in Chunks : filled'[i] <=> i = w \/ filled[i]
      /\ MarksFilled(newh) => newh > 0
    <2>1. \A i \in Chunks : h'[i] = IF i = w THEN newh ELSE h[i]
        BY <1>1, <1>2 DEF TypeOK
    <2>2. MarksFilled(newh) => \A i \in Chunks : filled'[i] <=> i = w \/ filled[i]
        <3>1. SUFFICES ASSUME MarksFilled(newh)
                       PROVE  \A i \in Chunks : filled'[i] <=> i = w \/ filled[i]
            OBVIOUS
        <3>2. filled' = [filled EXCEPT ![w] = TRUE]
            BY <1>2, <3>1
        <3> QED BY <1>1, <3>2 DEF TypeOK
    <2>3. MarksFilled(newh) => newh > 0
        BY <1>1 DEF MarksFilled
    <2> QED BY <2>1, <2>2, <2>3
<1>4. /\ \A i \in Chunks : Succ(i) \in Chunks
      /\ \A i, j \in Chunks : Succ(i) = Succ(j) => i = j
    BY SuccFacts DEF TypeOK
\* The chunk being written, old and new bytes, ends at the next byte to write.
<1>5. newh > 0 => data[w][0] + newh = written + nr_read
    <2>1. CASE h[w] > 0
        BY <1>1, <2>1 DEF NextWritten
    <2>2. CASE h[w] = 0
        BY <1>1, <2>2 DEF Decoded, Fill
    <2> QED BY <1>1, <2>1, <2>2
<1>6. \A j \in Offsets : j < newh => data[w][j] = data[w][0] + j
    <2> SUFFICES ASSUME NEW j \in Offsets, j < newh PROVE data[w][j] = data[w][0] + j
        OBVIOUS
    <2>1. CASE j < h[w]
        BY <1>1, <2>1 DEF WithinChunks
    <2>2. CASE h[w] <= j
        <3>1. data[w][j] = written + (j - h[w])
            BY <1>1, <2>2 DEF Decoded, Fill
        <3> QED BY <1>1, <1>5, <2>2, <3>1 DEF Offsets
    <2>3. h[w] \in Int /\ j \in Int
        BY <1>1 DEF Offsets
    <2>4. h[w] <= j \/ j < h[w]
        BY <2>3
    <2> QED BY <2>1, <2>2, <2>4
<1>7. WithinChunks'
    <2>1. \A i \in Chunks : \A j \in Offsets : j < h[i] => data[i][j] = data[i][0] + j
        BY DEF WithinChunks
    <2>2. \A i \in Chunks : \A j \in Offsets : j < h'[i] => data[i][j] = data[i][0] + j
        BY <1>3, <1>6, <2>1
    <2>3. Offsets' = Offsets /\ Chunks' = Chunks /\ data' = data
        BY <1>2 DEF Offsets
    <2> QED BY <2>2, <2>3 DEF WithinChunks
<1>8. ~filled[ridx] => ridx = w
    BY <1>1, SMTT(30) DEF RingShape, TypeOK, Chunks
<1>9. FirstUnread'
    <2>1. CASE ridx = w
        <3>1. l[w] = 0
            BY <1>1 DEF ChunkShape
        <3>2. CASE h[w] > 0
            BY <1>1, <1>2, <1>3, <2>1, <3>2 DEF FirstUnread
        <3>3. CASE h[w] = 0
            BY <1>1, <1>2, <1>3, <1>5, <2>1, <3>1, <3>3 DEF FirstUnread
        <3> QED BY <1>1, <3>2, <3>3
    <2>2. CASE ridx # w
        BY <1>1, <1>2, <1>3, <1>8, <2>2 DEF FirstUnread, ChunkShape
    <2> QED BY <2>1, <2>2
\* Behind the chunk being written there is the one being read, or nothing.
<1>10. Succ(w) # ridx => h'[Succ(w)] = 0 \/ Succ(w) = w
    <2>1. Succ(w) # ridx /\ Succ(w) # w => ~filled[Succ(w)]
        BY <1>1, <1>4, SMTT(30) DEF RingShape, TypeOK, Chunks, Succ
    <2> QED BY <1>1, <1>3, <1>4, <2>1 DEF ChunkShape
<1>11. AcrossChunks'
    <2> SUFFICES ASSUME NEW i \in Chunks, filled'[i], h'[Succ(i)] > 0, Succ(i) # ridx
                 PROVE  data[Succ(i)][0] = data[i][0] + h'[i]
        BY <1>2 DEF AcrossChunks
    <2>1. CASE i = w
        <3>1. Succ(w) = w
            BY <1>1, <1>10, <2>1
        <3>2. ridx = w
            BY <1>1, <3>1, SuccFacts DEF TypeOK, Chunks
        <3> QED BY <2>1, <3>1, <3>2
    <2>2. CASE i # w /\ Succ(i) # w
        BY <1>1, <1>2, <1>3, <1>4, <2>2 DEF AcrossChunks
    <2>3. CASE i # w /\ Succ(i) = w
        <3>1. filled[i] /\ h'[i] = h[i]
            BY <1>1, <1>2, <1>3, <2>3
        <3>2. CASE h[w] > 0
            BY <2>3, <3>1, <3>2 DEF AcrossChunks
        <3>3. CASE h[w] = 0
            BY <1>1, <1>3, <1>5, <2>3, <3>1, <3>3 DEF NextWritten
        <3> QED BY <1>1, <3>2, <3>3
    <2> QED BY <2>1, <2>2, <2>3
<1>12. NextWritten'
    <2>1. CASE MarksFilled(newh)
        <3>1. widx' = Succ(w)
            BY <1>2, <2>1
        <3>2. ASSUME NEW i \in Chunks, Succ(i) = Succ(w)
              PROVE  data[i][0] + h'[i] = written'
            BY <1>1, <1>2, <1>3, <1>4, <1>5, <2>1, <3>2
        <3>3. ~filled'[Succ(w)] => h'[Succ(w)] = 0
            <4>1. ~filled'[Succ(w)] => Succ(w) # w /\ ~filled[Succ(w)]
                BY <1>1, <1>3, <1>4, <2>1
            <4> QED BY <1>1, <1>3, <1>4, <4>1 DEF ChunkShape
        <3> QED BY <1>1, <1>2, <1>3, <1>4, <3>1, <3>2, <3>3 DEF NextWritten
    <2>2. CASE ~MarksFilled(newh)
        <3>1. ASSUME NEW i \in Chunks, filled[i], Succ(i) = w, newh = 0
              PROVE  data[i][0] + h'[i] = written'
            BY <1>1, <1>2, <1>3, <3>1 DEF NextWritten
        <3> QED BY <1>1, <1>2, <1>3, <1>5, <2>2, <3>1 DEF NextWritten
    <2> QED BY <2>1, <2>2
<1>13. AllWritten'
    BY <1>1, <1>2, <1>3, <1>5 DEF AllWritten
<1>14. Decoded'
    BY <1>2 DEF Decoded
<1> QED BY <1>7, <1>9, <1>11, <1>12, <1>13, <1>14

\* buffer_consume moves the first unread byte on, into the next chunk when this one
\* is empty.
LEMMA ConsumeNumbering ==
    ASSUME IndInv, Consume
    PROVE  Numbering'
<1> USE ChunkSizeAssumption, MinRoomAssumption, MaxChunksAssumption
<1> USE DEF IndInv, Shape, Numbering
<1> DEFINE newl == l[ridx] + rc
<1>1. /\ ridx \in Chunks /\ filled[ridx] /\ widx \in Chunks /\ ready
      /\ \A i \in Chunks : h[i] \in 0 .. ChunkSize /\ l[i] \in 0 .. ChunkSize
      /\ newl \in 0 .. h[ridx] /\ h[ridx] > 0 /\ rc \in 0 .. ChunkSize
      /\ 0 \in Offsets /\ written \in Nat /\ consumed \in Nat
      /\ \A i \in Chunks : \A j \in Offsets : data[i][j] \in Int
    <2>1. \A i \in Chunks : \A j \in Offsets : data[i][j] \in Int
        BY DEF TypeOK, NoByte
    <2> QED BY <2>1 DEF TypeOK, Consume, Access, ChunkShape, Offsets
<1>2. /\ nr' = nr /\ widx' = widx /\ written' = written /\ consumed' = consumed + rc
      /\ ppc' # "fill" \/ (ppc' = ppc /\ nr_read' = nr_read)
      /\ Chunks' = Chunks /\ \A i : Succ(i)' = Succ(i)
    BY DEF Consume, WakeProducer, Chunks, Succ
<1>3. /\ \A i \in Chunks : Succ(i) \in Chunks
      /\ \A i, j \in Chunks : Succ(i) = Succ(j) => i = j
    BY SuccFacts DEF TypeOK
<1>4. CASE newl = h[ridx]
    <2>1. /\ l' = [l EXCEPT ![ridx] = 0] /\ h' = [h EXCEPT ![ridx] = 0]
          /\ filled' = [filled EXCEPT ![ridx] = FALSE]
          /\ data' = [data EXCEPT ![ridx] = Blank]
          /\ ridx' = Succ(ridx)
        BY <1>4 DEF Consume, FreedLow
    <2>2. \A i \in Chunks :
              /\ l'[i] = IF i = ridx THEN 0 ELSE l[i]
              /\ h'[i] = IF i = ridx THEN 0 ELSE h[i]
              /\ filled'[i] <=> i # ridx /\ filled[i]
              /\ i # ridx => data'[i] = data[i]
        <3>1. \A i \in Chunks : /\ l'[i] = IF i = ridx THEN 0 ELSE l[i]
                                /\ h'[i] = IF i = ridx THEN 0 ELSE h[i]
                                /\ i # ridx => data'[i] = data[i]
            BY <1>1, <2>1 DEF TypeOK
        <3>2. \A i \in Chunks : filled'[i] <=> i # ridx /\ filled[i]
            BY <1>1, <2>1 DEF TypeOK
        <3> QED BY <3>1, <3>2
    <2>3. data[ridx][0] + h[ridx] = consumed + rc
        BY <1>1, <1>4 DEF FirstUnread
    <2>4. WithinChunks'
        BY <1>1, <1>2, <2>2 DEF WithinChunks, Offsets
    <2>5. FirstUnread'
        <3>1. CASE h'[Succ(ridx)] > 0
            <4>1. Succ(ridx) # ridx /\ h[Succ(ridx)] > 0 /\ l'[Succ(ridx)] = 0
                BY <1>1, <1>3, <2>2, <3>1 DEF ChunkShape
            <4>2. data[Succ(ridx)][0] = data[ridx][0] + h[ridx]
                BY <1>1, <4>1 DEF AcrossChunks
            <4> QED BY <1>1, <1>2, <1>3, <2>1, <2>2, <2>3, <3>1, <4>1, <4>2 DEF FirstUnread
        <3>2. CASE h'[Succ(ridx)] = 0
            <4>1. CASE Succ(ridx) = ridx
                <5>1. widx = ridx
                    BY <1>1, <4>1, SuccFacts DEF TypeOK, Chunks
                <5> QED BY <1>1, <1>2, <2>1, <2>3, <3>2, <4>1, <5>1 DEF NextWritten, FirstUnread
            <4>2. CASE Succ(ridx) # ridx
                <5>1. h[Succ(ridx)] = 0 /\ ~filled[Succ(ridx)]
                    BY <1>1, <1>3, <2>2, <3>2, <4>2 DEF ChunkShape
                <5>2. widx = Succ(ridx)
                    BY <1>1, <1>3, <4>2, <5>1, SMTT(30) DEF RingShape, TypeOK, Chunks, Succ
                <5> QED
                    BY <1>1, <1>2, <2>1, <2>3, <3>2, <5>1, <5>2 DEF NextWritten, FirstUnread
            <4> QED BY <4>1, <4>2
        <3>3. h'[Succ(ridx)] \in Nat
            BY <1>1, <1>3, <2>2
        <3> QED BY <3>1, <3>2, <3>3
    <2>6. AcrossChunks'
        BY <1>1, <1>2, <1>3, <2>2 DEF AcrossChunks
    <2>7. NextWritten'
        BY <1>1, <1>2, <1>3, <2>2 DEF NextWritten
    <2>8. AllWritten'
        BY <1>1, <1>2, <2>2 DEF AllWritten
    <2>9. Decoded'
        BY <1>1, <1>2, <2>2 DEF Decoded, Access, Offsets
    <2> QED BY <2>4, <2>5, <2>6, <2>7, <2>8, <2>9
<1>5. CASE newl # h[ridx]
    <2>1. /\ l' = [l EXCEPT ![ridx] = newl]
          /\ h' = h /\ filled' = filled /\ data' = data /\ ridx' = ridx /\ ppc' = ppc
        BY <1>5 DEF Consume
    <2>2. FirstUnread'
        BY <1>1, <1>2, <2>1 DEF FirstUnread, TypeOK
    <2>3. WithinChunks' /\ AcrossChunks' /\ NextWritten' /\ AllWritten' /\ Decoded'
        BY <1>1, <1>2, <1>3, <2>1
        DEF WithinChunks, AcrossChunks, NextWritten, AllWritten, Decoded, Consume, Offsets
    <2> QED BY <2>2, <2>3
<1> QED BY <1>4, <1>5

\* Every step keeps the shape and the numbering together.
LEMMA NextIndInv == IndInv /\ [Next]_vars => IndInv'
<1> SUFFICES ASSUME IndInv, [Next]_vars PROVE Numbering'
    BY NextShape DEF IndInv
<1>1. CASE \/ GetWpos \/ DecodeLater \/ WaitDrain \/ DrainTimeout \/ GetRpos
           \/ OutputError \/ WaitFill \/ SkipWait \/ FillTimeout \/ UNCHANGED vars
    <2>1. UNCHANGED <<nr, ring, data, written, consumed>>
        BY <1>1 DEF GetWpos, DecodeLater, WaitDrain, DrainTimeout, GetRpos, OutputError,
           WaitFill, SkipWait, FillTimeout, vars, history
    <2>2. ppc' # "fill" \/ (ppc' = ppc /\ nr_read' = nr_read)
        BY <1>1 DEF GetWpos, DecodeLater, WaitDrain, DrainTimeout, GetRpos, OutputError,
           WaitFill, SkipWait, FillTimeout, vars, producer
    <2> QED BY <2>1, <2>2, QuietNumbering DEF IndInv
<1>2. ASSUME NEW n \in 0 .. ChunkSize, Decode(n) PROVE Numbering'
    BY <1>2, DecodeNumbering
<1>3. ASSUME NEW n \in 0 .. ChunkSize, Output(n) PROVE Numbering'
    BY <1>3, QuietNumbering DEF Output, producer, IndInv
<1>4. CASE Fill
    BY <1>4, FillNumbering
<1>5. CASE Consume
    BY <1>5, ConsumeNumbering
<1>6. CASE Reset \/ \E n \in 1 .. MaxChunks : Resize(n)
    BY <1>6, ResetNumbering
<1> QED BY <1>1, <1>2, <1>3, <1>4, <1>5, <1>6 DEF Next, ProducerNext, ConsumerNext

\* The inductive invariant holds in every reachable state.
LEMMA IndInvInvariant == Spec => []IndInv
<1>1. Init => IndInv
    BY InitShape, InitNumbering DEF IndInv
<1>2. IndInv /\ [Next]_vars => IndInv'
    BY NextIndInv
<1> QED BY <1>1, <1>2, PTL DEF Spec

-----------------------------------------------------------------------------
(* The ring is a stream. *)

\* The bytes an op_write takes are the next unread ones, all of them written.
LEMMA OutputInOrder ==
    ASSUME IndInv, NEW n \in 0 .. ChunkSize, Output(n)
    PROVE  /\ consumed + n <= written
           /\ delivered' = [k \in 0 .. n - 1 |-> consumed + k]
<1> USE ChunkSizeAssumption DEF IndInv, Shape, Numbering
<1>1. /\ ridx \in Chunks /\ n \in 0 .. h[ridx] - l[ridx]
      /\ rpos.chunk = ridx /\ rpos.off = l[ridx]
      /\ h[ridx] \in 0 .. ChunkSize /\ l[ridx] \in 0 .. ChunkSize /\ h[ridx] > 0
      /\ consumed \in Nat /\ written \in Nat /\ data[ridx][0] \in Int
    <2>1. data[ridx][0] \in Int
        BY DEF TypeOK, NoByte, Offsets
    <2> QED BY <2>1 DEF Output, Access, TypeOK, ChunkShape
<1>2. data[ridx][0] + l[ridx] = consumed
    BY <1>1 DEF FirstUnread
<1>3. consumed + n <= written
    BY <1>1, <1>2 DEF AllWritten
<1>4. \A k \in 0 .. n - 1 : data[ridx][l[ridx] + k] = consumed + k
    <2> SUFFICES ASSUME NEW k \in 0 .. n - 1
                 PROVE  data[ridx][l[ridx] + k] = consumed + k
        OBVIOUS
    <2>1. l[ridx] + k \in Offsets /\ l[ridx] + k < h[ridx]
        BY <1>1 DEF Offsets
    <2>2. data[ridx][l[ridx] + k] = data[ridx][0] + (l[ridx] + k)
        BY <1>1, <2>1 DEF WithinChunks
    <2> QED BY <1>1, <1>2, <2>2
<1>5. delivered' = [k \in 0 .. n - 1 |-> data[ridx][l[ridx] + k]]
    BY <1>1 DEF Output
<1> QED BY <1>3, <1>4, <1>5

\* Every step of the ring is a step of the stream, or none.
LEMMA StreamStep ==
    ASSUME IndInv, [Next]_vars
    PROVE  [Stream!StreamNext]_(Stream!svars)
<1> DEFINE C == consumed + (IF cpc = "consume" THEN rc ELSE 0)
<1> USE DEF Stream!StreamNext, Stream!svars
<1>0. consumed \in Nat /\ written \in Nat /\ rc \in Nat /\ nr_read \in Nat
    BY ChunkSizeAssumption DEF IndInv, Shape, TypeOK
<1>1. CASE \/ GetWpos \/ DecodeLater \/ WaitDrain \/ DrainTimeout \/ GetRpos
           \/ OutputError \/ WaitFill \/ SkipWait \/ FillTimeout \/ UNCHANGED vars
    <2>1. UNCHANGED <<written, consumed, delivered>>
        BY <1>1 DEF GetWpos, DecodeLater, WaitDrain, DrainTimeout, GetRpos, OutputError,
           WaitFill, SkipWait, FillTimeout, vars, history
    <2>2. \/ cpc' = cpc /\ rc' = rc
          \/ cpc # "consume" /\ cpc' # "consume"
        BY <1>1 DEF GetWpos, DecodeLater, WaitDrain, DrainTimeout, GetRpos, OutputError,
           WaitFill, SkipWait, FillTimeout, vars, consumer
    <2> QED BY <2>1, <2>2
<1>2. ASSUME NEW n \in 0 .. ChunkSize, Decode(n) PROVE UNCHANGED Stream!svars
    BY <1>2 DEF Decode, history, consumer
<1>3. ASSUME NEW n \in 0 .. ChunkSize, Output(n) PROVE Stream!Read
    <2>1. cpc = "read" /\ cpc' = "consume" /\ rc' = n /\ UNCHANGED <<written, consumed>>
        BY <1>3 DEF Output
    <2>2. C = consumed /\ C' = consumed + n
        BY <1>0, <2>1
    <2>3. consumed + n <= written /\ delivered' = [k \in 0 .. n - 1 |-> consumed + k]
        BY <1>3, OutputInOrder
    <2>4. C' - C - 1 = n - 1
        BY <1>0, <2>2
    <2> QED BY <1>0, <2>1, <2>2, <2>3, <2>4 DEF Stream!Read
<1>4. CASE Fill
    <2>1. /\ written' = written + nr_read /\ UNCHANGED <<consumed, delivered, rc>>
          /\ cpc' = cpc \/ (cpc = "asleep" /\ cpc' = "idle")
        BY <1>4 DEF Fill, WakeConsumer
    <2>2. C' = C
        BY <2>1
    <2>3. CASE nr_read = 0
        BY <1>0, <2>1, <2>2, <2>3
    <2>4. CASE nr_read > 0
        BY <1>0, <2>1, <2>2, <2>4 DEF Stream!Write
    <2> QED BY <1>0, <2>3, <2>4
<1>5. CASE Consume
    <2>1. /\ cpc = "consume" /\ cpc' = "idle" /\ delivered' = NoBytes
          /\ consumed' = consumed + rc /\ written' = written
        BY <1>5 DEF Consume
    <2>2. C' = C
        BY <1>0, <2>1
    <2>3. NoBytes = [k \in 0 .. -1 |-> 0]
        BY DEF NoBytes, NoByte
    <2> QED BY <2>1, <2>2, <2>3 DEF Stream!Settle
<1>6. CASE Reset \/ \E n \in 1 .. MaxChunks : Resize(n)
    <2>1. /\ written' = 0 /\ consumed' = 0 /\ delivered' = delivered
          /\ cpc' # "consume"
        BY <1>6 DEF Reset, Resize, NoAccess, WakeConsumer, consumer
    <2>2. C' = 0
        BY <2>1
    <2> QED BY <2>1, <2>2 DEF Stream!Discard
<1> QED BY <1>1, <1>2, <1>3, <1>4, <1>5, <1>6 DEF Next, ProducerNext, ConsumerNext

\* The bytes the device gets are the bytes the decoder wrote, in order, each once.
THEOREM Refinement == Spec => ImplementsStream
<1>1. Init => Stream!StreamInit
    <2> SUFFICES ASSUME Init PROVE Stream!StreamInit
        OBVIOUS
    <2>1. NoBytes = [k \in 0 .. -1 |-> 0]
        BY DEF NoBytes, NoByte
    <2> QED BY <2>1 DEF Init, Stream!StreamInit
<1>2. IndInv /\ [Next]_vars => [Stream!StreamNext]_(Stream!svars)
    BY StreamStep
<1> QED BY <1>1, <1>2, IndInvInvariant, PTL DEF Spec, ImplementsStream, Stream!StreamSpec
=============================================================================
