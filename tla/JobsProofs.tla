----------------------------- MODULE JobsProofs -----------------------------
(***************************************************************************)
(* Theorems about module Jobs.                                             *)
(***************************************************************************)
EXTENDS Jobs, FiniteSetTheorems, NaturalsInduction, TLAPS

\* A set of indices is finite.
LEMMA FiniteIndices ==
    ASSUME NEW n \in Nat, NEW I \in SUBSET (1 .. n)
    PROVE  IsFiniteSet(I) /\ Cardinality(I) \in Nat
<1>1. IsFiniteSet(1 .. n)
    BY FS_Interval
<1> QED
    BY <1>1, FS_Subset, FS_CardinalityType

\* The rank of an index among the chosen ones goes up by one at a chosen index,
\* and stays elsewhere.
LEMMA RankStep ==
    ASSUME NEW n \in Nat, NEW I \in SUBSET (1 .. n), NEW i \in 1 .. n
    PROVE  /\ Rank(I, i) \in Nat /\ Rank(I, i - 1) \in Nat
           /\ Rank(I, i) = IF i \in I THEN Rank(I, i - 1) + 1 ELSE Rank(I, i - 1)
<1> DEFINE Up(m) == {k \in I : k <= m}
<1>0. \A k \in I : k \in Int /\ 1 <= k /\ k <= n
    OBVIOUS
<1>1. IsFiniteSet(I)
    BY FiniteIndices
<1>2. IsFiniteSet(Up(i)) /\ IsFiniteSet(Up(i - 1))
    BY <1>1, FS_Subset
<1>3. CASE i \in I
    <2>0. ASSUME NEW k PROVE k \in Up(i) <=> k \in Up(i - 1) \union {i}
        <3>1. k \in I => (k <= i <=> k <= i - 1 \/ k = i)
            BY <1>0
        <3> QED
            BY <1>3, <3>1
    <2>1. Up(i) = Up(i - 1) \union {i}
        <3> HIDE DEF Up
        <3> QED
            BY <2>0
    <2>2. i \notin Up(i - 1)
        BY <1>0
    <2>3. Cardinality(Up(i)) = Cardinality(Up(i - 1)) + 1
        BY <1>2, <2>1, <2>2, FS_AddElement
    <2> QED
        BY <1>2, <1>3, <2>3, FS_CardinalityType DEF Rank
<1>4. CASE i \notin I
    <2>0. ASSUME NEW k \in I PROVE k <= i <=> k <= i - 1
        BY <1>0, <1>4
    <2>1. Up(i) = Up(i - 1)
        BY <2>0, Zenon
    <2> QED
        BY <1>2, <1>4, <2>1, FS_CardinalityType DEF Rank
<1> QED
    BY <1>3, <1>4

\* Every number up to the size of a set of indices is the rank of one of them.
LEMMA RankIsOnto ==
    ASSUME NEW n \in Nat, NEW I \in SUBSET (1 .. n), NEW k \in 1 .. Cardinality(I)
    PROVE  \E i \in I : Rank(I, i) = k
<1>0. \A j \in I : j \in Int /\ 1 <= j /\ j <= n
    OBVIOUS
<1>1. IsFiniteSet(I) /\ Cardinality(I) \in Nat
    BY FiniteIndices
<1>2. Rank(I, 0) = 0
    <2>0. ASSUME NEW j \in I PROVE ~(j <= 0)
        BY <1>0
    <2>1. {j \in I : j <= 0} = {}
        BY <2>0, Zenon
    <2> QED
        BY <2>1, FS_EmptySet DEF Rank
<1>3. Rank(I, n) = Cardinality(I)
    <2>1. {j \in I : j <= n} = I
        BY <1>0
    <2> QED
        BY <2>1 DEF Rank
<1> DEFINE T == {i \in 0 .. n : k <= Rank(I, i)}
<1>4. n \in T
    BY <1>1, <1>3
<1> DEFINE Less == {p \in Nat \X Nat : p[1] < p[2]}
<1>5. PICK i \in T : \A j \in T : ~ <<j, i>> \in Less
    <2>1. IsWellFoundedOn(Less, Nat)
        BY NatLessThanWellFounded, Zenon DEF OpToRel
    <2>2. T \in SUBSET Nat /\ T # {}
        BY <1>4
    <2> HIDE DEF T, Less
    <2> QED
        BY <2>1, <2>2, WFMin
<1>6. i # 0
    BY <1>2
<1>7. i \in 1 .. n /\ i - 1 \in 0 .. n
    BY <1>6
<1>8. i - 1 \notin T
    <2>1. <<i - 1, i>> \in Less
        BY <1>7
    <2> QED
        BY <1>5, <2>1
<1>9. k <= Rank(I, i) /\ ~(k <= Rank(I, i - 1))
    BY <1>7, <1>8
<1>10. i \in I /\ Rank(I, i) = k
    BY <1>1, <1>7, <1>9, RankStep
<1> QED
    BY <1>10

\* AtIndices picks elements of q at distinct indices of I.
LEMMA AtIndicesPicks ==
    ASSUME NEW S, NEW q \in Seq(S), NEW I \in SUBSET DOMAIN q
    PROVE  /\ AtIndices(q, I) \in Seq(S)
           /\ Len(AtIndices(q, I)) = Cardinality(I)
           /\ \A k \in 1 .. Cardinality(I) : \E i \in I :
                 Rank(I, i) = k /\ AtIndices(q, I)[k] = q[i]
<1>1. I \in SUBSET (1 .. Len(q)) /\ Len(q) \in Nat
    OBVIOUS
<1>2. Cardinality(I) \in Nat
    BY <1>1, FiniteIndices
<1> DEFINE At(k) == CHOOSE i \in I : Rank(I, i) = k
<1>3. \A k \in 1 .. Cardinality(I) : At(k) \in I /\ Rank(I, At(k)) = k
    BY <1>1, RankIsOnto
<1>4. AtIndices(q, I) = [k \in 1 .. Cardinality(I) |-> q[At(k)]]
    BY DEF AtIndices
<1> HIDE DEF At
<1>5. \A k \in 1 .. Cardinality(I) : q[At(k)] \in S
    BY <1>1, <1>3
<1>6. AtIndices(q, I) \in Seq(S) /\ Len(AtIndices(q, I)) = Cardinality(I)
    BY <1>2, <1>4, <1>5
<1> QED
    BY <1>3, <1>4, <1>6

\* What is kept of a sequence was in it, and two places hold what two places held.
LEMMA AtIndicesKeeps ==
    ASSUME NEW S, NEW q \in Seq(S), NEW I \in SUBSET DOMAIN q,
           NEW r, r = AtIndices(q, I)
    PROVE  /\ r \in Seq(S)
           /\ \A k \in DOMAIN r : \E i \in I : r[k] = q[i]
           /\ \A k, m \in DOMAIN r : k # m => \E i, j \in I : i # j /\ r[k] = q[i] /\ r[m] = q[j]
           /\ I = {} => r = <<>>
<1>1. /\ r \in Seq(S) /\ Len(r) = Cardinality(I)
      /\ \A k \in 1 .. Cardinality(I) : \E i \in I : Rank(I, i) = k /\ r[k] = q[i]
    BY AtIndicesPicks
<1>2. DOMAIN r = 1 .. Cardinality(I)
    BY <1>1
<1>3. ASSUME I = {} PROVE r = <<>>
    BY <1>1, <1>3, FS_EmptySet
<1>4. ASSUME NEW k \in DOMAIN r, NEW m \in DOMAIN r, k # m
      PROVE  \E i, j \in I : i # j /\ r[k] = q[i] /\ r[m] = q[j]
    <2>1. PICK i \in I : Rank(I, i) = k /\ r[k] = q[i]
        BY <1>1, <1>2
    <2>2. PICK j \in I : Rank(I, j) = m /\ r[m] = q[j]
        BY <1>1, <1>2
    <2> QED
        BY <1>4, <2>1, <2>2
<1> QED
    BY <1>1, <1>2, <1>3, <1>4

\* Ranks go up with the indices, and at a chosen index strictly.
LEMMA RankGrows ==
    ASSUME NEW n \in Nat, NEW I \in SUBSET (1 .. n), NEW i \in 1 .. n, NEW j \in I, i < j
    PROVE  Rank(I, i) < Rank(I, j)
<1>1. j \in 1 .. n /\ j - 1 \in 1 .. n /\ i <= j - 1
    OBVIOUS
<1>2. Rank(I, j) = Rank(I, j - 1) + 1 /\ Rank(I, j - 1) \in Nat /\ Rank(I, i) \in Nat
    BY <1>1, RankStep
<1> DEFINE Up(m) == {k \in I : k <= m}
<1>3. Up(i) \subseteq Up(j - 1)
    <2>1. ASSUME NEW k \in I, k <= i PROVE k <= j - 1
        <3>1. k \in Int /\ i \in Int /\ j \in Int
            BY <1>1
        <3> QED
            BY <1>1, <2>1, <3>1
    <2> QED
        BY <2>1
<1>4. IsFiniteSet(I)
    BY FiniteIndices
<1>5. IsFiniteSet(Up(j - 1))
    BY <1>4, FS_Subset
<1>6. Cardinality(Up(i)) <= Cardinality(Up(j - 1))
    BY <1>3, <1>5, FS_Subset
<1>7. Rank(I, i) <= Rank(I, j - 1)
    BY <1>6 DEF Rank
<1> QED
    BY <1>2, <1>7

\* AtIndices keeps the order, and leaves nothing out that was chosen.
LEMMA AtIndicesOrdered ==
    ASSUME NEW S, NEW q \in Seq(S), NEW I \in SUBSET DOMAIN q,
           NEW r, r = AtIndices(q, I)
    PROVE  /\ r \in Seq(S)
           /\ \A k, m \in DOMAIN r : k < m => \E i, j \in I : i < j /\ r[k] = q[i] /\ r[m] = q[j]
           /\ \A i \in I : \E k \in DOMAIN r : r[k] = q[i]
<1>1. /\ r \in Seq(S) /\ Len(r) = Cardinality(I)
      /\ \A k \in 1 .. Cardinality(I) : \E i \in I : Rank(I, i) = k /\ r[k] = q[i]
    BY AtIndicesPicks
<1>2. DOMAIN r = 1 .. Cardinality(I)
    BY <1>1
<1>3. I \in SUBSET (1 .. Len(q)) /\ Len(q) \in Nat
    OBVIOUS
<1>4. \A i, j \in I : i < j => Rank(I, i) < Rank(I, j)
    BY <1>3, RankGrows
<1>5. ASSUME NEW i \in I PROVE i \in Int /\ Rank(I, i) \in Nat
    <2>1. i \in 1 .. Len(q) /\ i \in Int
        BY <1>3
    <2>2. Rank(I, i) \in Nat
        BY <1>3, <2>1, RankStep
    <2> QED
        BY <2>1, <2>2
<1>6. ASSUME NEW k \in DOMAIN r, NEW m \in DOMAIN r, k < m
      PROVE  \E i, j \in I : i < j /\ r[k] = q[i] /\ r[m] = q[j]
    <2>1. PICK i \in I : Rank(I, i) = k /\ r[k] = q[i]
        BY <1>1, <1>2
    <2>2. PICK j \in I : Rank(I, j) = m /\ r[m] = q[j]
        BY <1>1, <1>2
    <2>3. i < j
        BY <1>4, <1>5, <1>6, <2>1, <2>2
    <2> QED
        BY <2>1, <2>2, <2>3
<1>7. ASSUME NEW i \in I PROVE \E k \in DOMAIN r : r[k] = q[i]
    <2>1. Rank(I, i) \in 1 .. Cardinality(I)
        <3>1. IsFiniteSet(I) /\ {k \in I : k <= i} \subseteq I
            BY <1>3, FiniteIndices
        <3>2. Rank(I, i) <= Cardinality(I)
            BY <3>1, FS_Subset DEF Rank
        <3>3. Rank(I, i) = Rank(I, i - 1) + 1 /\ Rank(I, i - 1) \in Nat
            BY <1>3, RankStep
        <3>4. Cardinality(I) \in Nat
            BY <3>1, FS_CardinalityType
        <3> QED
            BY <3>2, <3>3, <3>4
    <2>2. PICK j \in I : Rank(I, j) = Rank(I, i) /\ r[Rank(I, i)] = q[j]
        BY <1>1, <2>1
    <2>3. i = j
        BY <1>4, <1>5, <2>2
    <2> QED
        BY <1>2, <2>1, <2>2, <2>3
<1> QED
    BY <1>1, <1>6, <1>7

\* What a removal of jobs leaves in the queue.
LEMMA RemovedJobs ==
    ASSUME queue \in Seq(AnyJob), NEW M, RemoveJobs(M)
    PROVE  /\ queue' \in Seq(AnyJob)
           /\ \A k \in DOMAIN queue' : \E i \in DOMAIN queue :
                 queue'[k] = queue[i] /\ queue[i] \notin M
           /\ \A k, m \in DOMAIN queue' : k # m =>
                 \E i, j \in DOMAIN queue : i # j /\ queue'[k] = queue[i] /\ queue'[m] = queue[j]
           /\ queue = <<>> \/ M = AnyType => queue' = <<>>
           /\ cur' = cur /\ state' = state
           /\ IF cur # NoJob /\ cur \in M
              THEN cancel' = TRUE /\ removing' = TRUE /\ waiting' = waiting \union {"main"}
              ELSE cancel' = cancel /\ removing' = removing /\ waiting' = waiting
<1> DEFINE I == DOMAIN queue \ {i \in DOMAIN queue : queue[i] \in M}
<1>1. queue' = AtIndices(queue, I)
    BY DEF RemoveJobs, Indices
<1>2. queue = <<>> \/ M = AnyType => I = {}
    BY DEF AnyType
<1>3. I \in SUBSET DOMAIN queue /\ \A i \in I : queue[i] \notin M
    OBVIOUS
<1>4. /\ cur' = cur /\ state' = state
      /\ IF cur # NoJob /\ cur \in M
         THEN cancel' = TRUE /\ removing' = TRUE /\ waiting' = waiting \union {"main"}
         ELSE cancel' = cancel /\ removing' = removing /\ waiting' = waiting
    BY DEF RemoveJobs
<1> HIDE DEF I
<1>5. /\ queue' \in Seq(AnyJob)
      /\ \A k \in DOMAIN queue' : \E i \in I : queue'[k] = queue[i]
      /\ \A k, m \in DOMAIN queue' : k # m =>
            \E i, j \in I : i # j /\ queue'[k] = queue[i] /\ queue'[m] = queue[j]
      /\ queue = <<>> \/ M = AnyType => queue' = <<>>
    BY <1>1, <1>2, <1>3, AtIndicesKeeps
<1> QED
    BY <1>3, <1>4, <1>5

-----------------------------------------------------------------------------
(* Types, as far as the control depends on them. *)

QueueType ==
    /\ queue \in Seq(AnyJob) /\ cur \in AnyJob \union {NoJob}
    /\ log \in Seq(Lists)

ResultType ==
    /\ seen \in Nat
    /\ buffer \in Seq(Tracks \union {EndOfLoad})
    /\ results \in Seq(AddResults \union DeleteResults)

ListType ==
    /\ made \in Playlists
    /\ visible \in Playlists /\ marked \in Playlists
    /\ listed \subseteq 1 .. made
    /\ playing \in Playlists \union {NoList}
    /\ ptrack # NoTrack => playing # NoList
    /\ rest \in {"load", "reload"} => target \in Lists
    /\ rest = "delete" => target \in Playlists

Types == QueueType /\ ResultType /\ ListType

\* The initial state is of the right type.
LEMMA TypesInit == Init => Types
<1> SUFFICES ASSUME Init PROVE Types
    OBVIOUS
<1> USE JobsAssumption
<1>1. QueueType
    BY DEF Init, WorkerInit, QueueType
<1>2. ResultType
    BY DEF Init, WorkerInit, ResultType
<1>3. ListType
    BY DEF Init, ListType, Playlists
<1> QED
    BY <1>1, <1>2, <1>3 DEF Types

\* A new job is a job.
LEMMA NewJobType ==
    ASSUME QueueType, NEW l \in Lists, NEW n \in 0 .. MaxTracks,
           NEW source \in {"file", "dir", "playlist"}, NEW front \in BOOLEAN,
           ScheduleAdd(l, n, source, front)
    PROVE  /\ NewJob(l, n, source, front) \in AddJobs
           /\ QueueType'
<1>1. Len(log) \in Nat /\ Len(log) + 1 \in 1 .. MaxJobs
    BY JobsAssumption DEF QueueType, ScheduleAdd
<1>2. NewJob(l, n, source, front) \in AddJobs
    BY <1>1 DEF NewJob, AddJobs
<1>3. NewJob(l, n, source, front) \in AnyJob
    BY <1>2 DEF AnyJob
<1>4. /\ queue' = Append(queue, NewJob(l, n, source, front))
      /\ cur' = cur /\ log' = Append(log, l)
    BY DEF ScheduleAdd, AddJob
<1> QED
    BY <1>2, <1>3, <1>4 DEF QueueType

\* A batch of tracks is sent, or a track goes to the batch.
LEMMA BatchType ==
    ASSUME Types, Running("ADD"), cur # NoJob
    PROVE  /\ SendBatch => results' \in Seq(AddResults \union DeleteResults)
           /\ ~ended /\ seen < cur.n => NextTrack \in Tracks
<1>1. cur \in AddJobs
    BY DEF Types, QueueType, AnyJob, AddJobs, DeleteJobs, Running
<1>2. ASSUME SendBatch PROVE results' \in Seq(AddResults \union DeleteResults)
    <2>1. [kind |-> "ADD", list |-> cur.list, items |-> buffer, front |-> cur.front] \in AddResults
        BY <1>1 DEF AddJobs, AddResults, Types, ResultType
    <2> QED
        BY <1>2, <2>1 DEF SendBatch, Types, ResultType
<1>3. ASSUME seen < cur.n PROVE NextTrack \in Tracks
    <2>1. /\ cur.id \in 1 .. MaxJobs /\ cur.n \in 0 .. MaxTracks
          /\ cur.front \in BOOLEAN
        BY <1>1 DEF AddJobs
    <2>2. seen \in Nat
        BY DEF Types, ResultType
    <2>3. (IF cur.front THEN cur.n - seen ELSE seen + 1) \in 1 .. MaxTracks
        BY <1>3, <2>1, <2>2, JobsAssumption
    <2> QED
        BY <2>1, <2>3 DEF NextTrack, Tracks
<1> QED
    BY <1>2, <1>3

-----------------------------------------------------------------------------
(* The worker and the main thread.                                         *)
(* The wait set has at most one thread whose turn it is when a signal is   *)
(* sent: the worker waits only at the top of its loop, where no job runs   *)
(* that the main thread could wait for.                                    *)

Control ==
    /\ waiting \subseteq {"worker", "main"}
    /\ wpc \in {"top", "run", "notify", "done", "ended"}
    /\ "worker" \in waiting => wpc = "top"
    /\ removing => mpc = "remove"
    /\ CancelIsForTheRunningJob
    /\ NoSleepOverWork

WInv == Types /\ Control

\* A signal that the main thread sends wakes the worker if it waits.
LEMMA SignalWakes ==
    ASSUME Control, Signal, ~removing \/ wpc = "done"
    PROVE  waiting' = {}
<1>1. waiting \subseteq {"worker"} \/ waiting \subseteq {"main"}
    BY DEF Control, NoSleepOverWork, CancelIsForTheRunningJob
<1> QED
    BY <1>1 DEF Signal

\* The steps of the worker's loop keep the queue.
LEMMA LoopKeepsQueue == WInv /\ WorkerLoop => QueueType'
<1> SUFFICES ASSUME WInv, WorkerLoop PROVE QueueType'
    OBVIOUS
<1>0. QueueType
    BY DEF WInv, Types
<1>1. CASE TakeJob
    <2>1. Head(queue) \in AnyJob /\ Tail(queue) \in Seq(AnyJob)
        BY <1>0, <1>1 DEF QueueType, TakeJob
    <2> QED
        BY <1>0, <1>1, <2>1 DEF QueueType, TakeJob, WorkerLoop, history
<1>2. CASE WaitForJob
    BY <1>0, <1>2 DEF QueueType, WaitForJob, WorkerLoop, history
<1>3. CASE StopWorker
    BY <1>0, <1>3 DEF QueueType, StopWorker, WorkerLoop, history, worker
<1>4. CASE FinishJob
    BY <1>0, <1>4 DEF QueueType, FinishJob, WorkerLoop, history
<1> QED
    BY <1>1, <1>2, <1>3, <1>4 DEF WorkerLoop

\* Taking tracks out of a playlist changes nothing but the playlist and what plays.
LEMMA TakenOut ==
    ASSUME RemoveSelected \/ LoseFile
    PROVE  /\ UNCHANGED <<worker, wpc, inJob, channel, made, listed, freed, visible, marked,
                          playing, resume, main, log, found, asked>>
           /\ ptrack' = NoTrack \/ ptrack' = ptrack
           /\ InMainLoop
<1>1. /\ InMainLoop
      /\ ptrack' = NoTrack \/ ptrack' = ptrack
      /\ \E l, gone : TakeOut(l, gone)
    <2>1. CASE RemoveSelected
        BY <2>1, Zenon DEF RemoveSelected
    <2>2. CASE LoseFile
        BY <2>2, Zenon DEF LoseFile
    <2> QED
        BY <2>1, <2>2
<1>2. UNCHANGED <<worker, wpc, inJob, channel, made, listed, freed, visible, marked,
                  playing, resume, main, log, found, asked>>
    BY <1>1, Zenon DEF TakeOut
<1> QED
    BY <1>1, <1>2

\* What pl_loaded does to the playing and the visible playlist.
LEMMA LoadedChoices ==
    ASSUME HandleAdd
    PROVE  LET l == Head(results).list
           IN /\ results # <<>>
              /\ mpc = "handle"
              /\ UNCHANGED <<worker, wpc, inJob, pipe, made, listed, freed, marked, lost, rest,
                             target, quitting, history>>
              /\ results' = Tail(results)
              /\ \/ UNCHANGED <<playing, ptrack, visible, mpc>>
                 \/ /\ visible' \in listed
                    /\ UNCHANGED <<playing, ptrack, mpc>>
                 \/ /\ l \in listed \intersect Playlists
                    /\ ptrack' \in Range(content'[l])
                    /\ playing' = l /\ visible' = l /\ mpc' = mpc
                 \/ /\ l \in Playlists \ listed
                    /\ ptrack' \in Range(content'[l])
                    /\ playing' = l /\ visible' = visible /\ mpc' = "bug"
<1> DEFINE l == Head(results).list
<1>1. /\ results # <<>> /\ mpc = "handle" /\ results' = Tail(results)
      /\ UNCHANGED <<worker, wpc, inJob, pipe, made, listed, freed, marked, lost, rest,
                     target, quitting, history>>
    BY Zenon DEF HandleAdd
<1>2. \/ l \in Playlists /\ Loaded(l)
      \/ UNCHANGED <<playing, ptrack, visible, resume, mpc>>
    BY Zenon DEF HandleAdd
<1>3. ASSUME l \in Playlists, Loaded(l)
      PROVE  \/ UNCHANGED <<playing, ptrack, visible, mpc>>
             \/ visible' \in listed /\ UNCHANGED <<playing, ptrack, mpc>>
             \/ /\ l \in listed \intersect Playlists
                /\ ptrack' \in Range(content'[l])
                /\ playing' = l /\ visible' = l /\ mpc' = mpc
             \/ /\ l \in Playlists \ listed
                /\ ptrack' \in Range(content'[l])
                /\ playing' = l /\ visible' = visible /\ mpc' = "bug"
    <2> QED
        BY <1>3 DEF Loaded
<1>4. \/ UNCHANGED <<playing, ptrack, visible, mpc>>
      \/ visible' \in listed /\ UNCHANGED <<playing, ptrack, mpc>>
      \/ /\ l \in listed \intersect Playlists
         /\ ptrack' \in Range(content'[l])
         /\ playing' = l /\ visible' = l /\ mpc' = mpc
      \/ /\ l \in Playlists \ listed
         /\ ptrack' \in Range(content'[l])
         /\ playing' = l /\ visible' = visible /\ mpc' = "bug"
    <2>1. CASE UNCHANGED <<playing, ptrack, visible, resume, mpc>>
        BY <2>1
    <2> QED
        BY <1>2, <1>3, <2>1, Zenon
<1> QED
    BY <1>1, <1>4, Zenon

\* Every step keeps the types of the queue, of the running job and of the log.
LEMMA QueueTypeStep == WInv /\ [Next]_vars => QueueType'
<1> SUFFICES ASSUME WInv, [Next]_vars PROVE QueueType'
    OBVIOUS
<1>0. QueueType /\ ListType
    BY DEF WInv, Types
<1> USE DEF history, worker
<1>1. CASE UNCHANGED vars
    BY <1>0, <1>1 DEF vars, QueueType
<1>2. CASE FindTrack \/ FinishEntries \/ SendRest \/ AddDone \/ FreeDeleteJob \/ Notify
    BY <1>0, <1>2 DEF FindTrack, FinishEntries, SendRest, AddDone, FreeDeleteJob, Notify, QueueType
<1>3. CASE WorkerLoop
    BY <1>3, LoopKeepsQueue
<1>4. CASE WorkerWakesUp
    BY <1>0, <1>4 DEF WorkerWakesUp, SpuriousWakeup, RemovalWaits, RemovalEnds, QueueType
<1>5. CASE AddTracks
    <2>1. PICK l \in Views \union {marked}, n \in 0 .. MaxTracks,
               source \in {"file", "dir", "playlist"}, front \in BOOLEAN :
               ScheduleAdd(l, n, source, front)
        BY <1>5 DEF AddTracks
    <2>2. l \in Lists
        BY <1>0 DEF ListType, Lists
    <2> QED
        BY <1>0, <2>1, <2>2, NewJobType
<1>6. CASE ImportPlaylist
    <2>1. PICK n \in 0 .. MaxTracks : ScheduleAdd(made', n, "playlist", FALSE)
        BY <1>6 DEF ImportPlaylist
    <2>2. made' \in Lists
        BY <1>0, <1>6, JobsAssumption DEF ImportPlaylist, ListType, Lists, Playlists
    <2> QED
        BY <1>0, <2>1, <2>2, NewJobType
<1>7. CASE SelectPlaylist \/ PlaySelected \/ PlayNext \/ Quit
    BY <1>0, <1>7 DEF SelectPlaylist, PlaySelected, PlayNext, Quit, QueueType
<1>8. CASE ClearView
    <2>1. PICK l \in Views : RemoveJobs(OfType(l))
        BY <1>8 DEF ClearView
    <2>2. queue' \in Seq(AnyJob) /\ cur' = cur
        BY <1>0, <2>1, RemovedJobs DEF QueueType
    <2>3. log' = log
        BY <1>8 DEF ClearView
    <2> QED
        BY <1>0, <2>2, <2>3 DEF QueueType
<1>9. CASE ClearPlaylist
    <2>1. RemoveJobs(OfType(visible))
        BY <1>9 DEF ClearPlaylist
    <2>2. queue' \in Seq(AnyJob) /\ cur' = cur
        BY <1>0, <2>1, RemovedJobs DEF QueueType
    <2>3. log' = log
        BY <1>9 DEF ClearPlaylist
    <2> QED
        BY <1>0, <2>2, <2>3 DEF QueueType
<1>10. CASE DeletePlaylist
    <2>1. PICK p \in listed : RemoveJobs(OfType(p))
        BY <1>10 DEF DeletePlaylist
    <2>2. queue' \in Seq(AnyJob) /\ cur' = cur
        BY <1>0, <2>1, RemovedJobs DEF QueueType
    <2>3. log' = log
        BY <1>10 DEF DeletePlaylist
    <2> QED
        BY <1>0, <2>2, <2>3 DEF QueueType
<1>11. CASE ClearedView \/ ClearedPlaylist
    BY <1>0, <1>11 DEF ClearedView, ClearedPlaylist, QueueType
<1>12. CASE LoadView
    <2>1. PICK n \in 0 .. MaxTracks : ScheduleAdd(target, n, "playlist", FALSE)
        BY <1>12 DEF LoadView
    <2>2. target \in Lists
        BY <1>0, <1>12 DEF LoadView, Resumes, ListType
    <2> QED
        BY <1>0, <2>1, <2>2, NewJobType
<1>13. CASE ReloadPlaylist
    <2>1. PICK n \in 0 .. MaxTracks : ScheduleAdd(target, n, "playlist", FALSE)
        BY <1>13 DEF ReloadPlaylist
    <2>2. target \in Lists
        BY <1>0, <1>13 DEF ReloadPlaylist, Resumes, ListType
    <2> QED
        BY <1>0, <2>1, <2>2, NewJobType
<1>14. CASE ScheduleDelete
    <2>1. [kind |-> "DELETE", list |-> target] \in AnyJob
        BY <1>0, <1>14 DEF ScheduleDelete, Resumes, ListType, AnyJob, DeleteJobs
    <2> QED
        BY <1>0, <1>14, <2>1 DEF ScheduleDelete, AddJob, QueueType
<1>15. CASE StartWorker \/ StopAtExit
    BY <1>0, <1>15 DEF StartWorker, StopAtExit, SetState, QueueType
<1>16. CASE BeginHandling \/ Handle
    BY <1>0, <1>16 DEF BeginHandling, Handle, HandleAdd, HandleDelete, EndHandling, QueueType
<1>17. CASE ExitAll
    <2>1. queue' = <<>> /\ cur' = cur
        BY <1>0, <1>17, RemovedJobs DEF ExitAll, QueueType
    <2> QED
        BY <1>0, <1>17, <2>1 DEF ExitAll, QueueType
<1>18. CASE JoinWorker \/ Over
    BY <1>0, <1>18 DEF JoinWorker, Over, vars, QueueType
<1>19. CASE RemoveSelected \/ LoseFile
    <2>1. UNCHANGED <<queue, cur, log>>
        BY <1>19, TakenOut
    <2> QED
        BY <1>0, <2>1 DEF QueueType
<1> QED
    BY <1>1, <1>2, <1>3, <1>4, <1>5, <1>6, <1>7, <1>8, <1>9, <1>10, <1>11, <1>12, <1>13,
       <1>14, <1>15, <1>16, <1>17, <1>18, <1>19
    DEF Next, WorkerSteps, Commands, Continue, Exit

\* A deletion job that is removed reports the playlist it is about.
LEMMA ReportsType ==
    ASSUME queue \in Seq(AnyJob)
    PROVE  /\ ReportsOfRemoved \in Seq(DeleteResults)
           /\ \A k \in DOMAIN ReportsOfRemoved : \E i \in DOMAIN queue :
                 queue[i].kind = "DELETE" /\ ReportsOfRemoved[k].list = queue[i].list
           /\ \A k, m \in DOMAIN ReportsOfRemoved : k # m =>
                 \E i, j \in DOMAIN queue :
                    /\ i # j
                    /\ queue[i].kind = "DELETE" /\ ReportsOfRemoved[k].list = queue[i].list
                    /\ queue[j].kind = "DELETE" /\ ReportsOfRemoved[m].list = queue[j].list
<1> DEFINE I == {i \in DOMAIN queue : queue[i] \in DeleteJobs}
           r == AtIndices(queue, I)
<1>1. I \in SUBSET DOMAIN queue /\ \A i \in I : queue[i].kind = "DELETE"
    BY DEF DeleteJobs
<1>2. ReportsOfRemoved = [k \in 1 .. Cardinality(I) |-> [kind |-> "DELETE", list |-> r[k].list]]
    BY DEF ReportsOfRemoved, Indices
<1>3. Cardinality(I) \in Nat
    <2>1. I \in SUBSET (1 .. Len(queue)) /\ Len(queue) \in Nat
        OBVIOUS
    <2> QED
        BY <2>1, FiniteIndices
<1> HIDE DEF I
<1>4. r \in Seq(AnyJob) /\ Len(r) = Cardinality(I)
    BY <1>1, AtIndicesPicks
<1>5. /\ \A k \in DOMAIN r : \E i \in I : r[k] = queue[i]
      /\ \A k, m \in DOMAIN r : k # m => \E i, j \in I : i # j /\ r[k] = queue[i] /\ r[m] = queue[j]
    BY <1>1, AtIndicesKeeps
<1>6. DOMAIN r = 1 .. Cardinality(I)
    BY <1>3, <1>4
<1> HIDE DEF r
<1>7. ASSUME NEW k \in 1 .. Cardinality(I) PROVE r[k].list \in Playlists
    <2>1. PICK i \in I : r[k] = queue[i]
        BY <1>5, <1>6
    <2> QED
        BY <1>1, <2>1 DEF AnyJob, AddJobs, DeleteJobs
<1>8. \A k \in 1 .. Cardinality(I) : [kind |-> "DELETE", list |-> r[k].list] \in DeleteResults
    BY <1>7 DEF DeleteResults
<1>9. ReportsOfRemoved \in Seq(DeleteResults) /\ DOMAIN ReportsOfRemoved = 1 .. Cardinality(I)
    BY <1>2, <1>3, <1>8
<1>10. \A k \in 1 .. Cardinality(I) : ReportsOfRemoved[k].list = r[k].list
    BY <1>2
<1>11. ASSUME NEW k \in 1 .. Cardinality(I)
       PROVE  \E i \in DOMAIN queue : /\ queue[i].kind = "DELETE"
                                      /\ ReportsOfRemoved[k].list = queue[i].list
    <2>1. PICK i \in I : r[k] = queue[i]
        BY <1>5, <1>6
    <2> QED
        BY <1>1, <1>10, <2>1
<1>12. ASSUME NEW k \in 1 .. Cardinality(I), NEW m \in 1 .. Cardinality(I), k # m
       PROVE  \E i, j \in DOMAIN queue :
                    /\ i # j
                    /\ queue[i].kind = "DELETE" /\ ReportsOfRemoved[k].list = queue[i].list
                    /\ queue[j].kind = "DELETE" /\ ReportsOfRemoved[m].list = queue[j].list
    <2>1. PICK i \in I, j \in I : i # j /\ r[k] = queue[i] /\ r[m] = queue[j]
        BY <1>5, <1>6, <1>12
    <2> QED
        BY <1>1, <1>10, <2>1
<1> QED
    BY <1>9, <1>11, <1>12

\* A track that is added to the batch may send it first.
LEMMA AddItemType ==
    ASSUME ResultType, NEW item \in Tracks \union {EndOfLoad}, AddItem(item),
           SendBatch => results' \in Seq(AddResults \union DeleteResults)
    PROVE  /\ buffer' \in Seq(Tracks \union {EndOfLoad})
           /\ results' \in Seq(AddResults \union DeleteResults)
<1> DEFINE S == Tracks \union {EndOfLoad}
           R == AddResults \union DeleteResults
<1>1. buffer \in Seq(S) /\ results \in Seq(R) /\ (SendBatch => results' \in Seq(R))
    BY DEF ResultType
<1> SUFFICES buffer' \in Seq(S) /\ results' \in Seq(R)
    OBVIOUS
<1>2. item \in S
    OBVIOUS
<1> HIDE DEF S, R
<1>3. <<item>> \in Seq(S) /\ Append(buffer, item) \in Seq(S)
    BY <1>1, <1>2
<1> QED
    BY <1>1, <1>3 DEF AddItem

\* Every step keeps the types of the batch and of the results.
LEMMA ResultTypeStep == WInv /\ [Next]_vars => ResultType'
<1> SUFFICES ASSUME WInv, [Next]_vars PROVE ResultType'
    OBVIOUS
<1>0. Types /\ ResultType /\ QueueType
    BY DEF WInv, Types
<1> USE DEF inJob, channel
<1>1. CASE UNCHANGED vars
    BY <1>0, <1>1 DEF vars, ResultType
<1>2. ASSUME Running("ADD") PROVE cur # NoJob
    BY <1>2 DEF WInv, Control, CancelIsForTheRunningJob, Running
<1>3. CASE FindTrack
    <2>1. Running("ADD") /\ NextTrack \in Tracks /\ AddItem(NextTrack) /\ seen' = seen + 1
        BY <1>0, <1>2, <1>3, BatchType DEF FindTrack
    <2>2. SendBatch => results' \in Seq(AddResults \union DeleteResults)
        BY <1>0, <1>2, <2>1, BatchType
    <2> HIDE DEF NextTrack
    <2>3. /\ buffer' \in Seq(Tracks \union {EndOfLoad})
          /\ results' \in Seq(AddResults \union DeleteResults)
        BY <1>0, <2>1, <2>2, AddItemType
    <2> QED
        BY <1>0, <2>1, <2>3 DEF ResultType
<1>4. CASE FinishEntries
    <2>1. Running("ADD") /\ (AddItem(EndOfLoad) \/ UNCHANGED <<buffer, results>>) /\ seen' = seen
        BY <1>4 DEF FinishEntries
    <2>2. SendBatch => results' \in Seq(AddResults \union DeleteResults)
        BY <1>0, <1>2, <2>1, BatchType
    <2>3. /\ buffer' \in Seq(Tracks \union {EndOfLoad})
          /\ results' \in Seq(AddResults \union DeleteResults)
        BY <1>0, <2>1, <2>2, AddItemType DEF ResultType
    <2> QED
        BY <1>0, <2>1, <2>3 DEF ResultType
<1>5. CASE SendRest
    <2>1. Running("ADD") /\ SendBatch /\ seen' = seen /\ buffer' = <<>>
        BY <1>5 DEF SendRest
    <2>2. results' \in Seq(AddResults \union DeleteResults)
        BY <1>0, <1>2, <2>1, BatchType
    <2> QED
        BY <1>0, <2>1, <2>2 DEF ResultType
<1>6. CASE AddDone \/ Notify \/ WorkerLoop
    BY <1>0, <1>6 DEF AddDone, Notify, WorkerLoop, ResultType
<1>7. CASE FreeDeleteJob
    <2>1. cur \in AnyJob /\ cur.kind = "DELETE"
        BY <1>0, <1>7 DEF FreeDeleteJob, Running, QueueType, WInv, Control, CancelIsForTheRunningJob
    <2>2. [kind |-> "DELETE", list |-> cur.list] \in DeleteResults
        BY <2>1 DEF AnyJob, AddJobs, DeleteJobs, DeleteResults
    <2> QED
        BY <1>0, <1>7, <2>2 DEF FreeDeleteJob, ResultType
<1>8. CASE WorkerWakesUp
    BY <1>0, <1>8 DEF WorkerWakesUp, ResultType
<1>9. CASE Commands
    <2>1. UNCHANGED <<inJob, channel>>
        BY <1>9, TakenOut DEF Commands, AddTracks, ImportPlaylist, SelectPlaylist, PlaySelected,
            PlayNext, ClearView, ClearPlaylist, DeletePlaylist, Quit
    <2> QED
        BY <1>0, <2>1 DEF ResultType
<1>10. CASE Continue \/ StartWorker
    BY <1>0, <1>10 DEF Continue, ClearedView, LoadView, ClearedPlaylist, ReloadPlaylist,
        ScheduleDelete, StartWorker, ResultType
<1>11. CASE BeginHandling \/ Handle
    <2>1. /\ UNCHANGED inJob
          /\ results' = results \/ (results # <<>> /\ results' = Tail(results))
        BY <1>11 DEF BeginHandling, Handle, HandleAdd, HandleDelete, EndHandling
    <2> DEFINE R == AddResults \union DeleteResults
    <2>2. results \in Seq(R)
        BY <1>0 DEF ResultType
    <2>3. results' \in Seq(R)
        <3> HIDE DEF R
        <3> QED
            BY <2>1, <2>2
    <2> QED
        BY <1>0, <2>1, <2>3 DEF ResultType
<1>12. CASE ExitAll
    <2>1. ReportsOfRemoved \in Seq(AddResults \union DeleteResults)
        BY <1>0, ReportsType DEF QueueType
    <2>2. results' = results \o ReportsOfRemoved /\ UNCHANGED inJob
        BY <1>12 DEF ExitAll
    <2> HIDE DEF ReportsOfRemoved
    <2> QED
        BY <1>0, <2>1, <2>2 DEF ResultType
<1>13. CASE StopAtExit \/ JoinWorker \/ Over
    BY <1>0, <1>13 DEF StopAtExit, JoinWorker, Over, vars, ResultType
<1> QED
    BY <1>1, <1>3, <1>4, <1>5, <1>6, <1>7, <1>8, <1>9, <1>10, <1>11, <1>12, <1>13
    DEF Next, WorkerSteps, Exit

\* Every step keeps the types of the lists.
LEMMA ListTypeStep == WInv /\ [Next]_vars => ListType'
<1> SUFFICES ASSUME WInv, [Next]_vars PROVE ListType'
    OBVIOUS
<1>0. Types /\ ListType /\ ResultType
    BY DEF WInv, Types
<1> USE DEF playlists, main
<1>1. CASE UNCHANGED vars
    BY <1>0, <1>1 DEF vars, ListType
<1>2. CASE WorkerSteps \/ WorkerWakesUp
    <2>1. UNCHANGED <<playlists, main>>
        BY <1>2 DEF WorkerSteps, WorkerWakesUp, FindTrack, FinishEntries, SendRest, AddDone,
            FreeDeleteJob, Notify, WorkerLoop
    <2> QED
        BY <1>0, <2>1 DEF ListType
<1>3. CASE AddTracks
    BY <1>0, <1>3 DEF AddTracks, ListType
<1>4. CASE ImportPlaylist
    <2>1. /\ made < MaxLists /\ made' = made + 1
          /\ listed' = listed \union {made'}
          /\ UNCHANGED <<freed, visible, marked, playing, ptrack, resume, main>>
        BY <1>4 DEF ImportPlaylist
    <2> QED
        BY <1>0, <2>1, JobsAssumption DEF ListType, Playlists
<1>5. CASE SelectPlaylist
    <2>1. UNCHANGED <<made, listed, playing, ptrack, rest, target>>
        BY <1>5 DEF SelectPlaylist
    <2>2. listed \subseteq Playlists /\ (ptrack # NoTrack => playing \in Playlists)
        BY <1>0, JobsAssumption DEF ListType, Playlists
    <2>3. visible' \in Playlists /\ marked' \in Playlists
        BY <1>0, <1>5, <2>2 DEF SelectPlaylist, ListType
    <2> QED
        BY <1>0, <2>1, <2>3 DEF ListType
<1>6. CASE PlaySelected \/ PlayNext
    <2>1. NoList \notin Playlists
        BY JobsAssumption DEF Playlists
    <2>2. CASE PlaySelected
        BY <1>0, <2>1, <2>2 DEF PlaySelected, ListType
    <2>3. CASE PlayNext
        <3>1. /\ UNCHANGED <<made, listed, marked, main>>
              /\ \/ playing' = NoList /\ ptrack' = NoTrack /\ visible' = visible
                 \/ /\ playing' = IF playing = NoList THEN visible ELSE playing
                    /\ visible' \in {visible, playing'}
            BY <2>3 DEF PlayNext
        <3> QED
            BY <1>0, <2>1, <3>1 DEF ListType
    <2> QED
        BY <1>6, <2>2, <2>3
<1>7. CASE ClearView
    <2>1. /\ UNCHANGED playlists
          /\ \E l \in Views : Await("clear", l) \/ (l = Library /\ Await("load", l))
        BY <1>7 DEF ClearView
    <2> QED
        BY <1>0, <2>1 DEF Await, ListType, Views, Lists
<1>8. CASE ClearPlaylist
    <2>1. /\ UNCHANGED <<made, listed, freed, visible, marked, playing>>
          /\ ptrack' \in {ptrack, NoTrack}
          /\ Await("nothing", visible) \/ Await("reload", visible)
        BY <1>8 DEF ClearPlaylist
    <2> QED
        BY <1>0, <2>1 DEF Await, ListType, Lists
<1>9. CASE DeletePlaylist
    <2>1. PICK p \in listed :
             /\ IF listed = {p} THEN made < MaxLists /\ made' = made + 1
                                ELSE made' = made
             /\ listed' = IF listed = {p} THEN {made'} ELSE listed \ {p}
             /\ visible' \in IF visible = p THEN listed' ELSE {visible}
             /\ marked' = Replaced(marked, p, visible')
             /\ playing' = Replaced(playing, p, NoList)
             /\ ptrack' = IF playing = p THEN NoTrack ELSE ptrack
             /\ Await("delete", p)
        BY <1>9 DEF DeletePlaylist
    <2>2. p \in Playlists
        BY <1>0, JobsAssumption DEF ListType, Playlists
    <2>3. made' \in Playlists /\ listed' \subseteq 1 .. made'
        <3>1. made \in Nat /\ MaxLists \in Nat /\ 1 <= made /\ made <= MaxLists
            BY <1>0, JobsAssumption DEF ListType, Playlists
        <3>2. \A k \in listed : k \in 1 .. made
            BY <1>0 DEF ListType
        <3>3. made' \in Nat /\ made <= made' /\ made' <= MaxLists
            BY <2>1, <3>1
        <3>4. ASSUME NEW k \in listed' PROVE k \in 1 .. made'
            BY <2>1, <3>1, <3>2, <3>3
        <3> QED
            BY <3>1, <3>3, <3>4 DEF Playlists
    <2>4. listed' \subseteq Playlists
        BY <2>3, JobsAssumption DEF Playlists
    <2>5. visible' \in Playlists /\ marked' \in Playlists /\ playing' \in Playlists \union {NoList}
        BY <1>0, <2>1, <2>4 DEF Replaced, ListType
    <2>6. ptrack' # NoTrack => playing' # NoList
        BY <1>0, <2>1 DEF Replaced, ListType
    <2>7. rest' = "delete" /\ target' = p
        BY <2>1 DEF Await
    <2> QED
        BY <2>2, <2>3, <2>5, <2>6, <2>7 DEF ListType
<1>10. CASE Quit \/ StartWorker \/ BeginHandling
    BY <1>0, <1>10 DEF Quit, StartWorker, BeginHandling, ListType
<1>11. CASE Continue
    BY <1>0, <1>11 DEF Continue, ClearedView, LoadView, ClearedPlaylist, ReloadPlaylist,
        ScheduleDelete, Back, ListType
<1>12. CASE HandleAdd
    <2>1. /\ UNCHANGED <<made, listed, marked, rest, target>>
          /\ playing' \in Playlists \/ UNCHANGED <<playing, ptrack>>
          /\ visible' \in listed \union Playlists \union {visible}
        BY <1>12, LoadedChoices
    <2>2. NoList \notin Playlists /\ listed \subseteq Playlists
        BY <1>0, JobsAssumption DEF ListType, Playlists
    <2> QED
        BY <1>0, <2>1, <2>2 DEF ListType
<1>13. CASE HandleDelete \/ EndHandling
    <2>1. UNCHANGED <<made, listed, visible, marked, playing, ptrack, rest, target>>
        BY <1>13 DEF HandleDelete, EndHandling
    <2> QED
        BY <1>0, <2>1 DEF ListType
<1>14. CASE ExitAll
    <2>1. UNCHANGED playlists /\ Await("stop", NoList)
        BY <1>14 DEF ExitAll
    <2> QED
        BY <1>0, <2>1 DEF Await, ListType
<1>15. CASE StopAtExit \/ JoinWorker \/ Over
    BY <1>0, <1>15 DEF StopAtExit, JoinWorker, Over, vars, ListType
<1>16. CASE RemoveSelected \/ LoseFile
    <2>1. /\ UNCHANGED <<made, listed, visible, marked, playing, rest, target>>
          /\ ptrack' = NoTrack \/ ptrack' = ptrack
        BY <1>16, TakenOut
    <2> QED
        BY <1>0, <2>1 DEF ListType
<1> QED
    BY <1>1, <1>2, <1>3, <1>4, <1>5, <1>6, <1>7, <1>8, <1>9, <1>10, <1>11, <1>12, <1>13,
       <1>14, <1>15, <1>16
    DEF Next, Commands, Handle, Exit

-----------------------------------------------------------------------------
\* What a call of the main thread leaves of the worker's part of the control, when
\* the calling command does not wait for a removal.
LEMMA SignalledControl ==
    ASSUME Control, ~removing, Signal, ~removing',
           wpc' = wpc, cur' = cur, cancel' = cancel
    PROVE  Control'
<1>1. waiting' = {}
    BY SignalWakes
<1>2. ~cancel'
    BY DEF Control, CancelIsForTheRunningJob
<1> QED
    BY <1>1, <1>2 DEF Control, CancelIsForTheRunningJob, NoSleepOverWork

\* A removal of jobs that a command starts keeps the control.
LEMMA RemovalControl ==
    ASSUME Control, mpc = "loop", mpc' = "remove", wpc' = wpc,
           cur' = cur, state' = state, queue = <<>> => queue' = <<>>,
           \/ cur # NoJob /\ cancel' = TRUE /\ removing' = TRUE
                          /\ waiting' = waiting \union {"main"}
           \/ cancel' = cancel /\ removing' = removing /\ waiting' = waiting
    PROVE  Control'
<1>1. ~removing /\ ~cancel /\ waiting \subseteq {"worker"}
    BY DEF Control, CancelIsForTheRunningJob, NoSleepOverWork
<1>2. cur = NoJob <=> wpc \in {"top", "ended"}
    BY DEF Control, CancelIsForTheRunningJob
<1>3. CASE cancel' = TRUE /\ removing' = TRUE /\ cur # NoJob /\ waiting' = waiting \union {"main"}
    <2>1. waiting' = {"main"}
        BY <1>1, <1>2, <1>3 DEF Control
    <2> QED
        BY <1>2, <1>3, <2>1 DEF Control, CancelIsForTheRunningJob, NoSleepOverWork
<1>4. CASE cancel' = cancel /\ removing' = removing /\ waiting' = waiting
    BY <1>1, <1>2, <1>4 DEF Control, CancelIsForTheRunningJob, NoSleepOverWork
<1> QED
    BY <1>3, <1>4

\* A step that leaves the worker and its state alone, and no removal that is
\* under way, keeps the control.
LEMMA SameControl ==
    ASSUME Control, UNCHANGED <<worker, wpc>>, removing => mpc' = "remove"
    PROVE  Control'
    BY DEF Control, CancelIsForTheRunningJob, NoSleepOverWork, worker

\* Every step keeps the worker's part of the control.
LEMMA ControlStep == WInv /\ [Next]_vars => Control'
<1> SUFFICES ASSUME WInv, [Next]_vars PROVE Control'
    OBVIOUS
<1>0. Control /\ QueueType
    BY DEF WInv, Types
<1>1. CASE UNCHANGED vars
    BY <1>0, <1>1, SameControl DEF vars, main, Control
<1>2. CASE FindTrack \/ FinishEntries \/ SendRest \/ AddDone \/ FreeDeleteJob \/ Notify
    <2>1. /\ UNCHANGED <<worker, mpc>>
          /\ wpc \in {"run", "notify"}
          /\ wpc' \in {"run", "notify", "done"}
        BY <1>2 DEF FindTrack, FinishEntries, SendRest, AddDone, FreeDeleteJob, Notify,
            AddItem, Running, main
    <2> QED
        BY <1>0, <2>1 DEF Control, CancelIsForTheRunningJob, NoSleepOverWork, worker
<1>3. CASE WorkerLoop
    <2>1. mpc' = mpc
        BY <1>3 DEF WorkerLoop, main
    <2>2. CASE TakeJob
        <3>1. cur' \in AnyJob
            BY <1>0, <2>2 DEF TakeJob, QueueType
        <3>2. cur' # NoJob
            BY <3>1, JobsAssumption
        <3> QED
            BY <1>0, <2>1, <2>2, <3>2
            DEF TakeJob, WorkerAtTop, Control, CancelIsForTheRunningJob, NoSleepOverWork
    <2>3. CASE WaitForJob
        BY <1>0, <2>1, <2>3
        DEF WaitForJob, WorkerAtTop, Control, CancelIsForTheRunningJob, NoSleepOverWork
    <2>4. CASE StopWorker
        BY <1>0, <2>1, <2>4
        DEF StopWorker, WorkerAtTop, worker, Control, CancelIsForTheRunningJob, NoSleepOverWork
    <2>5. CASE FinishJob
        <3>1. wpc = "done" /\ (IF cancel THEN Signal ELSE waiting' = waiting)
            BY <2>5 DEF FinishJob
        <3>2. waiting' = {}
            BY <1>0, <3>1, SignalWakes DEF Control, NoSleepOverWork
        <3> QED
            BY <1>0, <2>1, <2>5, <3>2
            DEF FinishJob, Control, CancelIsForTheRunningJob, NoSleepOverWork
    <2> QED
        BY <1>3, <2>2, <2>3, <2>4, <2>5 DEF WorkerLoop
<1>4. CASE WorkerWakesUp
    <2>1. mpc' = mpc
        BY <1>4 DEF WorkerWakesUp, main
    <2>2. CASE SpuriousWakeup
        BY <1>0, <2>1, <2>2
        DEF SpuriousWakeup, Control, CancelIsForTheRunningJob, NoSleepOverWork
    <2>3. CASE RemovalWaits
        BY <1>0, <2>1, <2>3
        DEF RemovalWaits, Control, CancelIsForTheRunningJob, NoSleepOverWork
    <2>4. CASE RemovalEnds
        BY <1>0, <2>1, <2>4
        DEF RemovalEnds, Control, CancelIsForTheRunningJob, NoSleepOverWork
    <2> QED
        BY <1>4, <2>2, <2>3, <2>4 DEF WorkerWakesUp
<1>5. CASE AddTracks \/ ImportPlaylist
    <2>1. /\ mpc = "loop" /\ wpc' = wpc /\ UNCHANGED main
          /\ \E job : AddJob(job)
        BY <1>5 DEF AddTracks, ImportPlaylist, ScheduleAdd, Idle
    <2> QED
        BY <1>0, <2>1, SignalledControl DEF AddJob, Control
<1>6. CASE SelectPlaylist \/ PlaySelected \/ PlayNext \/ Quit
    BY <1>0, <1>6, SameControl DEF SelectPlaylist, PlaySelected, PlayNext, Quit, main, Control
<1>7. CASE ClearView
    <2>1. PICK l \in Views : RemoveJobs(OfType(l))
        BY <1>7 DEF ClearView
    <2>2. mpc = "loop" /\ mpc' = "remove" /\ wpc' = wpc
        BY <1>7 DEF ClearView, InMainLoop, Idle, Await
    <2> QED
        BY <1>0, <2>1, <2>2, RemovedJobs, RemovalControl DEF QueueType
<1>8. CASE ClearPlaylist
    <2>1. RemoveJobs(OfType(visible))
        BY <1>8 DEF ClearPlaylist
    <2>2. mpc = "loop" /\ mpc' = "remove" /\ wpc' = wpc
        BY <1>8 DEF ClearPlaylist, InMainLoop, Idle, Await
    <2> QED
        BY <1>0, <2>1, <2>2, RemovedJobs, RemovalControl DEF QueueType
<1>9. CASE DeletePlaylist
    <2>1. PICK p \in listed : RemoveJobs(OfType(p))
        BY <1>9 DEF DeletePlaylist
    <2>2. mpc = "loop" /\ mpc' = "remove" /\ wpc' = wpc
        BY <1>9 DEF DeletePlaylist, InMainLoop, Idle, Await
    <2> QED
        BY <1>0, <2>1, <2>2, RemovedJobs, RemovalControl DEF QueueType
<1>10. CASE ClearedView \/ ClearedPlaylist
    BY <1>0, <1>10, SameControl DEF ClearedView, ClearedPlaylist, Resumes
<1>11. CASE LoadView \/ ReloadPlaylist \/ ScheduleDelete
    <2>1. ~removing /\ wpc' = wpc /\ \E job : AddJob(job)
        BY <1>11 DEF LoadView, ReloadPlaylist, ScheduleDelete, ScheduleAdd, Resumes
    <2> QED
        BY <1>0, <2>1, SignalledControl DEF AddJob
<1>12. CASE StartWorker
    <2>1. mpc = "loop" /\ wpc' = wpc /\ \E s : SetState(s)
        BY <1>12 DEF StartWorker, Idle
    <2> QED
        BY <1>0, <2>1, SignalledControl DEF SetState, Control
<1>13. CASE BeginHandling \/ Handle
    <2>1. mpc \in {"loop", "handle"} /\ UNCHANGED <<worker, wpc>>
        BY <1>13 DEF BeginHandling, Handle, HandleAdd, HandleDelete, EndHandling
    <2> QED
        BY <1>0, <2>1, SameControl DEF Control
<1>14. CASE ExitAll
    <2>1. RemoveJobs(AnyType) /\ mpc = "loop" /\ mpc' = "remove" /\ wpc' = wpc
        BY <1>14 DEF ExitAll, Await
    <2> QED
        BY <1>0, <2>1, RemovedJobs, RemovalControl DEF QueueType
<1>15. CASE StopAtExit
    <2>1. ~removing /\ wpc' = wpc /\ \E s : SetState(s)
        BY <1>15 DEF StopAtExit, Resumes
    <2> QED
        BY <1>0, <2>1, SignalledControl DEF SetState
<1>16. CASE JoinWorker
    BY <1>0, <1>16, SameControl DEF JoinWorker, Control
<1>17. CASE Over
    BY <1>0, <1>17, SameControl DEF Over, vars, main, Control
<1>18. CASE RemoveSelected \/ LoseFile
    <2>1. mpc' = mpc /\ UNCHANGED <<worker, wpc>>
        BY <1>18, TakenOut DEF main
    <2> QED
        BY <1>0, <2>1, SameControl DEF Control
<1> QED
    BY <1>1, <1>2, <1>3, <1>4, <1>5, <1>6, <1>7, <1>8, <1>9, <1>10, <1>11, <1>12, <1>13,
       <1>14, <1>15, <1>16, <1>17, <1>18
    DEF Next, WorkerSteps, Commands, Continue, Exit

\* At the start no thread waits and no job runs.
LEMMA ControlInit == Init => Control
    BY DEF Init, WorkerInit, Control, CancelIsForTheRunningJob, NoSleepOverWork

\* The types and the control are kept in every behaviour.
LEMMA WorkerInvariant == Spec => []WInv
<1>1. Init => WInv
    BY TypesInit, ControlInit DEF WInv
<1>2. WInv /\ [Next]_vars => WInv'
    BY QueueTypeStep, ResultTypeStep, ListTypeStep, ControlStep DEF WInv, Types
<1> QED
    BY <1>1, <1>2, PTL DEF Spec

\* worker.c: in every behaviour cancel_current is up exactly for a job that runs
\* and that the main thread waits for.
THEOREM CancelSafe == Spec => []CancelIsForTheRunningJob
<1>1. WInv => CancelIsForTheRunningJob
    BY DEF WInv, Control
<1> QED
    BY <1>1, WorkerInvariant, PTL

\* worker.c: in every behaviour neither thread sleeps on worker_cond while it has
\* something to do, although both share the condition variable and every signal
\* wakes only one of them.
THEOREM WakeupSafe == Spec => []NoSleepOverWork
<1>1. WInv => NoSleepOverWork
    BY DEF WInv, Control
<1> QED
    BY <1>1, WorkerInvariant, PTL

-----------------------------------------------------------------------------
(* Deleted playlists.                                                      *)
(* A deleted playlist is at one stage at a time: a command waits for the   *)
(* last job that adds to it, or its deletion is queued, or runs, or is     *)
(* reported, or it is freed; and nothing that refers to it is queued behind*)
(* its deletion.  A playlist that is resumed when it is deleted already is *)
(* not freed either: window_set_sel gives the program up.                  *)

Gone == (1 .. made) \ listed

Deletes(x, p) == x.kind = "DELETE" /\ x.list = p

Awaited(p) == rest = "delete" /\ target = p
Queued(p) == \E i \in DOMAIN queue : Deletes(queue[i], p)
Runs(p) == Running("DELETE") /\ cur.list = p
Reported(p) == \E i \in DOMAIN results : Deletes(results[i], p)

Shown ==
    /\ visible \in listed /\ marked \in listed
    /\ playing \in listed \union {NoList} \/ (mpc = "bug" /\ playing \notin freed)
    /\ rest = "delete" => mpc = "remove" /\ target \in Gone
    /\ rest \in {"load", "reload"} => target \notin Gone

AddsKnown ==
    /\ \A i \in DOMAIN queue : queue[i].kind = "ADD" => queue[i].list \notin Gone
    /\ cur # NoJob /\ cur.kind = "ADD" /\ cur.list \in Gone => cancel /\ Awaited(cur.list)

Stages ==
    /\ \A p : Awaited(p) \/ Queued(p) \/ Runs(p) \/ Reported(p) \/ p \in freed => p \in Gone
    /\ \A p : Awaited(p) => ~Queued(p) /\ ~Runs(p) /\ ~Reported(p) /\ p \notin freed
    /\ \A p : Queued(p) => ~Runs(p) /\ ~Reported(p) /\ p \notin freed
    /\ \A p : Runs(p) => ~Reported(p) /\ p \notin freed
    /\ \A p : Reported(p) => p \notin freed

Order ==
    /\ \A i, j \in DOMAIN queue :
          i # j /\ queue[i].kind = "DELETE" => ~Deletes(queue[j], queue[i].list)
    /\ \A i, j \in DOMAIN results :
          i < j /\ results[i].kind = "DELETE" => results[j].list # results[i].list
    /\ \A i \in DOMAIN results : results[i].list \notin freed

DInv == Shown /\ AddsKnown /\ Stages /\ Order

\* At the start nothing is deleted.
LEMMA DeletionInit == Init => DInv
<1> SUFFICES ASSUME Init PROVE DInv
    OBVIOUS
<1> USE DEF Init, WorkerInit
<1>1. Gone = {}
    BY DEF Gone
<1>2. Shown
    BY <1>1 DEF Shown
<1>3. AddsKnown
    BY DEF AddsKnown
<1>4. Stages
    BY DEF Stages, Awaited, Queued, Runs, Reported, Running
<1>5. Order
    BY DEF Order
<1> QED
    BY <1>2, <1>3, <1>4, <1>5 DEF DInv

\* A command takes a list for its jobs that is not deleted.
LEMMA KnownLists ==
    ASSUME Types, Shown
    PROVE  /\ \A l \in Views : l \notin Gone
           /\ visible \notin Gone /\ marked \notin Gone
           /\ \A p \in listed : p \in 1 .. made /\ p \notin Gone
<1>1. Views \intersect Playlists = {} /\ Gone \subseteq Playlists
    BY JobsAssumption DEF Views, Playlists, Types, ListType, Gone
<1> QED
    BY <1>1 DEF Shown, Types, ListType, Gone

\* pl_delete adds one playlist to the deleted ones.
LEMMA DeletePlaylistStep ==
    ASSUME Types, Shown, DeletePlaylist
    PROVE  \E p \in listed :
             /\ p \notin Gone /\ Gone' = Gone \union {p}
             /\ visible' \in listed' /\ (visible # p => visible' = visible)
             /\ marked' = Replaced(marked, p, visible')
             /\ playing' = Replaced(playing, p, NoList)
             /\ listed \ {p} \subseteq listed'
             /\ RemoveJobs(OfType(p)) /\ Await("delete", p)
             /\ mpc = "loop"
             /\ UNCHANGED <<results, freed, wpc>>
<1>1. PICK p \in listed :
             /\ IF listed = {p} THEN made < MaxLists /\ made' = made + 1
                                ELSE made' = made
             /\ listed' = IF listed = {p} THEN {made'} ELSE listed \ {p}
             /\ visible' \in IF visible = p THEN listed' ELSE {visible}
             /\ marked' = Replaced(marked, p, visible')
             /\ playing' = Replaced(playing, p, NoList)
             /\ RemoveJobs(OfType(p))
             /\ Await("delete", p)
    BY DEF DeletePlaylist
<1>2. mpc = "loop" /\ UNCHANGED <<results, freed, wpc>>
    BY DEF DeletePlaylist, InMainLoop, Idle, channel
<1>3. made \in Nat /\ 1 <= made /\ listed \subseteq 1 .. made
    BY JobsAssumption DEF Types, ListType, Playlists
<1>4. p \notin Gone
    BY DEF Gone
<1>5. Gone' = Gone \union {p}
    <2>1. CASE listed = {p}
        <3>1. made' = made + 1 /\ listed' = {made + 1}
            BY <1>1, <2>1
        <3>2. Gone' = 1 .. made
            BY <1>3, <3>1 DEF Gone
        <3> QED
            BY <1>3, <2>1, <3>2 DEF Gone
    <2>2. CASE listed # {p}
        BY <1>1, <1>3, <2>2 DEF Gone
    <2> QED
        BY <2>1, <2>2
<1>6. visible' \in listed' /\ (visible # p => visible' = visible) /\ listed \ {p} \subseteq listed'
    <2>1. CASE visible = p
        BY <1>1, <2>1
    <2>2. CASE visible # p
        BY <1>1, <2>2 DEF Shown
    <2> QED
        BY <2>1, <2>2
<1> QED
    BY <1>1, <1>2, <1>4, <1>5, <1>6

\* No other step deletes a playlist.
LEMMA GoneStep ==
    ASSUME Types, Next, ~DeletePlaylist
    PROVE  Gone' = Gone
<1>1. CASE ImportPlaylist
    <2>1. made' = made + 1 /\ listed' = listed \union {made + 1}
        BY <1>1 DEF ImportPlaylist
    <2>2. made \in Nat /\ listed \subseteq 1 .. made
        BY JobsAssumption DEF Types, ListType, Playlists
    <2> QED
        BY <2>1, <2>2 DEF Gone
<1>2. CASE ~ImportPlaylist
    <2>1. UNCHANGED <<made, listed>>
        <3> USE DEF playlists, main
        <3>1. CASE WorkerSteps \/ WorkerWakesUp
            BY <3>1 DEF WorkerSteps, WorkerWakesUp, FindTrack, FinishEntries, SendRest, AddDone,
                FreeDeleteJob, Notify, WorkerLoop
        <3>2. CASE AddTracks \/ SelectPlaylist \/ PlaySelected \/ PlayNext \/ Quit
            BY <3>2 DEF AddTracks, SelectPlaylist, PlaySelected, PlayNext, Quit
        <3>3. CASE ClearView \/ ClearPlaylist
            BY <3>3 DEF ClearView, ClearPlaylist
        <3>4. CASE Continue \/ StartWorker \/ BeginHandling
            BY <3>4 DEF Continue, ClearedView, LoadView, ClearedPlaylist, ReloadPlaylist,
                ScheduleDelete, StartWorker, BeginHandling
        <3>5. CASE Handle
            BY <3>5 DEF Handle, HandleAdd, HandleDelete, EndHandling
        <3>6. CASE Exit \/ Over
            BY <3>6 DEF Exit, ExitAll, StopAtExit, JoinWorker, Over, vars
        <3>7. CASE RemoveSelected \/ LoseFile
            BY <3>7, TakenOut
        <3> QED
            BY <1>2, <3>1, <3>2, <3>3, <3>4, <3>5, <3>6, <3>7 DEF Next, Commands
    <2> QED
        BY <2>1 DEF Gone
<1> QED
    BY <1>1, <1>2

\* A program that has given up does nothing.
LEMMA GivenUp == mpc = "bug" /\ Next => UNCHANGED vars
<1> SUFFICES ASSUME mpc = "bug", Next, ~Over PROVE FALSE
    BY DEF Over
<1>1. ~WorkerSteps /\ ~WorkerWakesUp
    BY DEF WorkerSteps, WorkerWakesUp, Alive
<1>2. ~RemoveSelected /\ ~LoseFile
    BY TakenOut DEF InMainLoop, Idle
<1>3. ~Commands
    BY <1>2 DEF Commands, AddTracks, ImportPlaylist, SelectPlaylist, PlaySelected, PlayNext,
        ClearView, ClearPlaylist, DeletePlaylist, Quit, InMainLoop, Idle
<1>4. ~Continue
    BY DEF Continue, ClearedView, LoadView, ClearedPlaylist, ReloadPlaylist, ScheduleDelete,
        Resumes
<1>5. ~StartWorker /\ ~BeginHandling /\ ~Handle /\ ~Exit
    BY DEF StartWorker, Idle, BeginHandling, Handle, HandleAdd, HandleDelete, EndHandling,
        Exit, ExitAll, StopAtExit, JoinWorker, Resumes
<1> QED
    BY <1>1, <1>3, <1>4, <1>5 DEF Next

\* The lists that are shown are listed after every step.
LEMMA ShownStep == WInv /\ DInv /\ [Next]_vars => Shown'
<1> SUFFICES ASSUME WInv, DInv, [Next]_vars PROVE Shown'
    OBVIOUS
<1> USE DEF playlists, main
<1>0. Types /\ ListType /\ Control /\ (removing => mpc = "remove") /\ Shown /\ Order
    BY DEF WInv, Types, Control, DInv
<1>a. CASE mpc = "bug"
    <2>1. UNCHANGED vars
        BY <1>a, GivenUp
    <2> QED
        BY <1>0, <2>1 DEF vars, Shown, Gone
<1> SUFFICES ASSUME mpc # "bug" PROVE Shown'
    BY <1>a
<1>b. /\ visible \in listed /\ marked \in listed /\ playing \in listed \union {NoList}
      /\ ptrack # NoTrack => playing # NoList
    BY <1>0 DEF Shown, ListType
<1>1. CASE UNCHANGED vars
    BY <1>0, <1>1 DEF vars, Shown, Gone
<1>2. CASE DeletePlaylist
    <2>1. PICK p \in listed :
             /\ p \notin Gone /\ Gone' = Gone \union {p}
             /\ visible' \in listed'
             /\ marked' = Replaced(marked, p, visible')
             /\ playing' = Replaced(playing, p, NoList)
             /\ listed \ {p} \subseteq listed'
             /\ Await("delete", p)
        BY <1>0, <1>2, DeletePlaylistStep
    <2> QED
        BY <1>b, <2>1 DEF Replaced, Await, Shown
<1>3. ASSUME Next, ~DeletePlaylist PROVE Shown'
    <2>0. Gone' = Gone
        BY <1>0, <1>3, GoneStep
    <2>1. CASE WorkerSteps \/ WorkerWakesUp
        <3>1. UNCHANGED <<playlists, main>>
            BY <2>1 DEF WorkerSteps, WorkerWakesUp, FindTrack, FinishEntries, SendRest, AddDone,
                FreeDeleteJob, Notify, WorkerLoop
        <3> QED
            BY <1>0, <2>0, <3>1 DEF Shown
    <2>2. CASE AddTracks \/ Quit \/ StartWorker \/ BeginHandling
        BY <1>0, <1>b, <2>0, <2>2
        DEF AddTracks, Quit, StartWorker, BeginHandling, InMainLoop, Idle, Shown
    <2>3. CASE ImportPlaylist
        <3>1. listed' = listed \union {made'} /\ UNCHANGED <<visible, marked, playing, main>>
            BY <2>3 DEF ImportPlaylist
        <3> QED
            BY <1>0, <1>b, <2>0, <3>1 DEF Shown
    <2>4. CASE SelectPlaylist
        <3>1. /\ UNCHANGED <<listed, playing, main>> /\ visible' \in listed \union {playing}
              /\ marked' \in {marked, visible'}
              /\ visible' \in listed \/ playing # NoList
            BY <1>b, <2>4 DEF SelectPlaylist
        <3> QED
            BY <1>0, <1>b, <2>0, <3>1 DEF Shown
    <2>5. CASE PlaySelected \/ PlayNext
        <3>1. UNCHANGED <<listed, marked, main>> /\ visible' \in listed
              /\ playing' \in listed \union {NoList}
            BY <1>b, <2>5 DEF PlaySelected, PlayNext
        <3> QED
            BY <1>0, <1>b, <2>0, <3>1 DEF Shown
    <2>6. CASE ClearView
        <3>1. UNCHANGED playlists /\ \E l \in Views : Await("clear", l) \/ Await("load", l)
            BY <2>6 DEF ClearView
        <3> QED
            BY <1>0, <1>b, <2>0, <3>1, KnownLists DEF Await, Shown
    <2>7. CASE ClearPlaylist
        <3>1. /\ UNCHANGED <<made, listed, visible, marked, playing>>
              /\ Await("nothing", visible) \/ Await("reload", visible)
            BY <2>7 DEF ClearPlaylist
        <3> QED
            BY <1>0, <1>b, <2>0, <3>1, KnownLists DEF Await, Shown
    <2>8. CASE Continue
        <3>1. UNCHANGED playlists /\ Back
            BY <2>8 DEF Continue, ClearedView, LoadView, ClearedPlaylist, ReloadPlaylist,
                ScheduleDelete
        <3> QED
            BY <1>0, <1>b, <2>0, <3>1 DEF Back, Shown
    <2>9. CASE HandleAdd
        <3> DEFINE list == Head(results).list
        <3>1. /\ UNCHANGED <<listed, marked, freed, rest, target>>
              /\ mpc = "handle" /\ results # <<>>
              /\ visible' \in listed
              /\ \/ playing' = playing
                 \/ playing' = list /\ list \in listed
                 \/ playing' = list /\ mpc' = "bug"
            BY <1>b, <2>9, LoadedChoices
        <3>2. list \notin freed
            <4>1. 1 \in DOMAIN results /\ Head(results) = results[1]
                BY <1>0, <3>1 DEF Types, ResultType
            <4> QED
                BY <1>0, <4>1 DEF Order
        <3> HIDE DEF list
        <3>3. rest # "delete"
            BY <1>0, <3>1 DEF Shown
        <3> QED
            BY <1>0, <1>b, <2>0, <3>1, <3>2, <3>3 DEF Shown
    <2>10. CASE HandleDelete \/ EndHandling
        <3>1. /\ UNCHANGED <<listed, visible, marked, playing, rest, target>>
              /\ mpc = "handle"
            BY <2>10 DEF HandleDelete, EndHandling
        <3> QED
            BY <1>0, <1>b, <2>0, <3>1 DEF Shown
    <2>11. CASE ExitAll
        <3>1. UNCHANGED playlists /\ Await("stop", NoList)
            BY <2>11 DEF ExitAll
        <3> QED
            BY <1>0, <1>b, <2>0, <3>1 DEF Await, Shown
    <2>12. CASE StopAtExit \/ JoinWorker \/ Over
        BY <1>0, <1>b, <2>0, <2>12 DEF StopAtExit, JoinWorker, Resumes, Over, vars, Shown
    <2>13. CASE RemoveSelected \/ LoseFile
        <3>1. UNCHANGED <<listed, visible, marked, playing, main>>
            BY <2>13, TakenOut
        <3> QED
            BY <1>0, <1>b, <2>0, <3>1 DEF Shown
    <2> QED
        BY <1>3, <2>1, <2>2, <2>3, <2>4, <2>5, <2>6, <2>7, <2>8, <2>9, <2>10, <2>11, <2>12, <2>13
        DEF Next, Commands, Handle, Exit
<1> QED
    BY <1>1, <1>2, <1>3

\* Where the elements of a sequence are after one was taken or added.
LEMMA TailPlaces ==
    ASSUME NEW S, NEW q \in Seq(S), q # <<>>
    PROVE  /\ 1 \in DOMAIN q /\ Head(q) = q[1]
           /\ \A i \in DOMAIN Tail(q) : i \in Nat \ {0} /\ i + 1 \in DOMAIN q /\ Tail(q)[i] = q[i + 1]
    OBVIOUS

LEMMA AppendPlaces ==
    ASSUME NEW S, NEW q \in Seq(S), NEW x \in S
    PROVE  /\ \A i \in DOMAIN q : /\ i \in DOMAIN Append(q, x) /\ Append(q, x)[i] = q[i]
                                  /\ i < Len(q) + 1
           /\ \A i \in DOMAIN Append(q, x) :
                 i \in DOMAIN q \/ (i = Len(q) + 1 /\ Append(q, x)[i] = x)
           /\ Len(q) + 1 \in DOMAIN Append(q, x)
           /\ DOMAIN q \subseteq Nat
    OBVIOUS

\* A job that is started adds to a list that is not deleted.
LEMMA ScheduledIsKnown ==
    ASSUME QueueType, AddsKnown, NEW l \in Lists \ Gone, NEW n \in 0 .. MaxTracks,
           NEW source \in {"file", "dir", "playlist"}, NEW front \in BOOLEAN,
           ScheduleAdd(l, n, source, front)
    PROVE  \A i \in DOMAIN queue' : queue'[i].kind = "ADD" => queue'[i].list \notin Gone
<1> DEFINE job == NewJob(l, n, source, front)
<1>1. job \in AnyJob
    BY NewJobType DEF AnyJob
<1>2. queue' = Append(queue, job)
    BY DEF ScheduleAdd, AddJob
<1>3. job.list = l
    BY DEF NewJob
<1> HIDE DEF job
<1> QED
    BY <1>1, <1>2, <1>3, AppendPlaces DEF QueueType, AddsKnown

\* No job adds to a deleted playlist, but for one that is cancelled and awaited.
LEMMA AddsKnownStep == WInv /\ Shown /\ AddsKnown /\ [Next]_vars => AddsKnown'
<1> SUFFICES ASSUME WInv, Shown, AddsKnown, [Next]_vars PROVE AddsKnown'
    OBVIOUS
<1>0. Types /\ QueueType /\ Control
    BY DEF WInv, Types
<1>1. CASE UNCHANGED vars
    BY <1>1 DEF vars, AddsKnown, Gone, worker, main, playlists, Awaited
<1>2. CASE WorkerSteps \/ WorkerWakesUp
    <2>0. UNCHANGED <<made, listed, rest, target>> /\ Gone' = Gone
        BY <1>2 DEF WorkerSteps, WorkerWakesUp, FindTrack, FinishEntries, SendRest, AddDone,
            FreeDeleteJob, Notify, WorkerLoop, playlists, main, Gone
    <2>1. CASE TakeJob
        <3>1. /\ queue # <<>> /\ cur' = queue[1]
              /\ \A i \in DOMAIN queue' : i + 1 \in DOMAIN queue /\ queue'[i] = queue[i + 1]
              /\ 1 \in DOMAIN queue
            BY <1>0, <2>1, TailPlaces DEF TakeJob, QueueType
        <3> QED
            BY <2>0, <3>1 DEF AddsKnown
    <2>2. CASE FinishJob
        BY <2>0, <2>2 DEF FinishJob, AddsKnown
    <2>3. CASE ~TakeJob /\ ~FinishJob
        <3>1. UNCHANGED <<queue, cur, cancel>>
            BY <1>2, <2>3 DEF WorkerSteps, WorkerWakesUp, FindTrack, FinishEntries, SendRest,
                AddDone, FreeDeleteJob, Notify, WorkerLoop, WaitForJob, StopWorker,
                SpuriousWakeup, RemovalWaits, RemovalEnds, worker
        <3> QED
            BY <2>0, <3>1 DEF AddsKnown, Awaited
    <2> QED
        BY <2>1, <2>2, <2>3
<1>3. CASE DeletePlaylist
    <2>1. PICK p \in listed :
             /\ Gone' = Gone \union {p} /\ RemoveJobs(OfType(p)) /\ Await("delete", p)
             /\ mpc = "loop"
        BY <1>0, <1>3, DeletePlaylistStep
    <2>2. /\ \A k \in DOMAIN queue' : \E i \in DOMAIN queue :
                queue'[k] = queue[i] /\ queue[i] \notin OfType(p)
          /\ cur' = cur
          /\ cur # NoJob /\ cur \in OfType(p) => cancel' = TRUE
        BY <1>0, <2>1, RemovedJobs DEF QueueType
    <2>3. cur # NoJob /\ cur.kind = "ADD" => cur.list \notin Gone
        BY <1>0, <2>1 DEF AddsKnown, Control, CancelIsForTheRunningJob
    <2>4. /\ \A i \in DOMAIN queue : queue[i].kind = "ADD" /\ queue[i].list = p => queue[i] \in OfType(p)
          /\ cur # NoJob /\ cur.kind = "ADD" /\ cur.list = p => cur \in OfType(p)
        BY <1>0 DEF QueueType, AnyJob, AddJobs, DeleteJobs, OfType
    <2>5. \A i \in DOMAIN queue' : queue'[i].kind = "ADD" => queue'[i].list \notin Gone'
        BY <2>1, <2>2, <2>4 DEF AddsKnown
    <2>6. rest' = "delete" /\ target' = p
        BY <2>1 DEF Await
    <2> QED
        BY <2>1, <2>2, <2>3, <2>4, <2>5, <2>6 DEF AddsKnown, Awaited
<1>4. ASSUME Next, ~DeletePlaylist, ~removing, cur' = cur,
             \A i \in DOMAIN queue' : queue'[i].kind = "ADD" => queue'[i].list \notin Gone
      PROVE  AddsKnown'
    <2>1. Gone' = Gone
        BY <1>0, <1>4, GoneStep
    <2>2. cur # NoJob /\ cur.kind = "ADD" => cur.list \notin Gone
        BY <1>0, <1>4 DEF AddsKnown, Control, CancelIsForTheRunningJob
    <2> QED
        BY <1>4, <2>1, <2>2 DEF AddsKnown
<1>5. ASSUME Next, ~DeletePlaylist, ~removing, UNCHANGED <<queue, cur>>
      PROVE  AddsKnown'
    BY <1>4, <1>5 DEF AddsKnown
<1>7. mpc = "loop" => ~removing
    BY <1>0 DEF Control
<1>8. CASE AddTracks /\ ~DeletePlaylist
    <2>1. PICK l \in Views \union {marked}, n \in 0 .. MaxTracks,
               source \in {"file", "dir", "playlist"}, front \in BOOLEAN :
               ScheduleAdd(l, n, source, front)
        BY <1>8 DEF AddTracks
    <2>2. l \in Lists \ Gone
        BY <1>0, KnownLists DEF Types, ListType, Lists
    <2>3. cur' = cur /\ mpc = "loop"
        BY <1>8, <2>1 DEF AddTracks, Idle, ScheduleAdd, AddJob
    <2>4. \A i \in DOMAIN queue' : queue'[i].kind = "ADD" => queue'[i].list \notin Gone
        BY <1>0, <2>1, <2>2, ScheduledIsKnown
    <2> QED
        BY <1>4, <1>7, <1>8, <2>3, <2>4 DEF Next, Commands
<1>9. CASE ImportPlaylist /\ ~DeletePlaylist
    <2>1. PICK n \in 0 .. MaxTracks : ScheduleAdd(made', n, "playlist", FALSE)
        BY <1>9 DEF ImportPlaylist
    <2>2. made \in Nat /\ made' = made + 1 /\ made < MaxLists
        BY <1>0, <1>9, JobsAssumption DEF ImportPlaylist, Types, ListType, Playlists
    <2>3. made' \in Lists \ Gone
        BY <2>2, JobsAssumption DEF Lists, Playlists, Gone
    <2>4. cur' = cur /\ mpc = "loop"
        BY <1>9, <2>1 DEF ImportPlaylist, Idle, ScheduleAdd, AddJob
    <2>5. \A i \in DOMAIN queue' : queue'[i].kind = "ADD" => queue'[i].list \notin Gone
        BY <1>0, <2>1, <2>3, ScheduledIsKnown
    <2> QED
        BY <1>4, <1>7, <1>9, <2>4, <2>5 DEF Next, Commands
<1>10. ASSUME Next, ~DeletePlaylist, mpc = "loop", NEW M, RemoveJobs(M)
       PROVE  AddsKnown'
    <2>1. /\ \A k \in DOMAIN queue' : \E i \in DOMAIN queue : queue'[k] = queue[i]
          /\ cur' = cur
        BY <1>0, <1>10, RemovedJobs DEF QueueType
    <2>2. \A i \in DOMAIN queue' : queue'[i].kind = "ADD" => queue'[i].list \notin Gone
        BY <2>1 DEF AddsKnown
    <2> QED
        BY <1>4, <1>7, <1>10, <2>1, <2>2
<1>11. CASE ClearView /\ ~DeletePlaylist
    <2>1. mpc = "loop" /\ \E M : RemoveJobs(M)
        BY <1>11 DEF ClearView, InMainLoop, Idle
    <2> QED
        BY <1>10, <1>11, <2>1 DEF Next, Commands
<1>12. CASE ClearPlaylist /\ ~DeletePlaylist
    <2>1. mpc = "loop" /\ RemoveJobs(OfType(visible))
        BY <1>12 DEF ClearPlaylist, InMainLoop, Idle
    <2> QED
        BY <1>10, <1>12, <2>1 DEF Next, Commands
<1>13. CASE (SelectPlaylist \/ PlaySelected \/ PlayNext \/ RemoveSelected \/ LoseFile \/ Quit)
            /\ ~DeletePlaylist
    <2>1. UNCHANGED <<queue, cur>> /\ mpc = "loop"
        BY <1>13, TakenOut DEF SelectPlaylist, PlaySelected, PlayNext, Quit, InMainLoop, Idle, worker
    <2> QED
        BY <1>5, <1>7, <1>13, <2>1 DEF Next, Commands
<1>14. CASE (ClearedView \/ ClearedPlaylist) /\ ~DeletePlaylist
    <2>1. UNCHANGED <<queue, cur>> /\ ~removing
        BY <1>14 DEF ClearedView, ClearedPlaylist, Resumes, worker
    <2> QED
        BY <1>5, <1>14, <2>1 DEF Next, Continue
<1>15. CASE (LoadView \/ ReloadPlaylist) /\ ~DeletePlaylist
    <2>1. PICK n \in 0 .. MaxTracks : ScheduleAdd(target, n, "playlist", FALSE)
        BY <1>15 DEF LoadView, ReloadPlaylist
    <2>2. target \in Lists \ Gone
        BY <1>0, <1>15 DEF LoadView, ReloadPlaylist, Resumes, Types, ListType, Shown
    <2>3. cur' = cur /\ ~removing
        BY <1>15, <2>1 DEF LoadView, ReloadPlaylist, Resumes, ScheduleAdd, AddJob
    <2>4. \A i \in DOMAIN queue' : queue'[i].kind = "ADD" => queue'[i].list \notin Gone
        BY <1>0, <2>1, <2>2, ScheduledIsKnown
    <2> QED
        BY <1>4, <1>15, <2>3, <2>4 DEF Next, Continue
<1>16. CASE ScheduleDelete /\ ~DeletePlaylist
    <2> DEFINE job == [kind |-> "DELETE", list |-> target]
    <2>1. job \in AnyJob /\ job.kind = "DELETE"
        BY <1>0, <1>16 DEF ScheduleDelete, Resumes, Types, ListType, AnyJob, DeleteJobs
    <2>2. queue' = Append(queue, job) /\ cur' = cur /\ ~removing
        BY <1>16 DEF ScheduleDelete, Resumes, AddJob
    <2> HIDE DEF job
    <2>3. \A i \in DOMAIN queue' : queue'[i].kind = "ADD" => queue'[i].list \notin Gone
        BY <1>0, <2>1, <2>2, AppendPlaces DEF QueueType, AddsKnown
    <2> QED
        BY <1>4, <1>16, <2>2, <2>3 DEF Next, Continue
<1>17. CASE (StartWorker \/ BeginHandling \/ Handle) /\ ~DeletePlaylist
    <2>1. UNCHANGED <<queue, cur>> /\ mpc \in {"loop", "handle"}
        BY <1>17 DEF StartWorker, SetState, Idle, BeginHandling, Handle, HandleAdd, HandleDelete,
            EndHandling, worker
    <2>2. ~removing
        BY <1>0, <2>1 DEF Control
    <2> QED
        BY <1>5, <1>17, <2>1, <2>2 DEF Next
<1>18. CASE ExitAll /\ ~DeletePlaylist
    <2>1. queue' = <<>> /\ cur' = cur /\ mpc = "loop"
        BY <1>0, <1>18, RemovedJobs DEF ExitAll, QueueType
    <2> QED
        BY <1>4, <1>7, <1>18, <2>1 DEF Next, Exit
<1>19. CASE (StopAtExit \/ JoinWorker \/ Over) /\ ~DeletePlaylist
    <2>1. UNCHANGED <<queue, cur>> /\ ~removing
        BY <1>0, <1>19 DEF StopAtExit, SetState, Resumes, JoinWorker, Over, vars, worker, Control
    <2> QED
        BY <1>5, <1>19, <2>1 DEF Next, Exit
<1> QED
    BY <1>1, <1>2, <1>3, <1>8, <1>9, <1>11, <1>12, <1>13, <1>14, <1>15, <1>16, <1>17, <1>18, <1>19
    DEF Next, Commands, Continue, Exit

\* A step after which no playlist is at a stage that it was not at before.
LEMMA FewerStages ==
    ASSUME Stages, Gone \subseteq Gone', freed' \subseteq freed,
           \A p : Awaited(p)' => Awaited(p), \A p : Queued(p)' => Queued(p),
           \A p : Runs(p)' => Runs(p), \A p : Reported(p)' => Reported(p)
    PROVE  Stages'
    BY DEF Stages

\* A step that leaves the queue, the results and what is freed alone.
LEMMA SameTokens ==
    ASSUME Stages, Order, Gone \subseteq Gone', UNCHANGED <<queue, results, freed>>,
           \A p : Awaited(p)' => Awaited(p), \A p : Runs(p)' => Runs(p)
    PROVE  Stages' /\ Order'
<1>1. \A p : (Queued(p)' => Queued(p)) /\ (Reported(p)' => Reported(p))
    BY DEF Queued, Reported, Deletes
<1>2. Stages'
    BY <1>1, FewerStages
<1>3. Order'
    BY DEF Order, Deletes
<1> QED
    BY <1>2, <1>3

\* A step that leaves some of the queue, and the results alone.
LEMMA FewerJobs ==
    ASSUME Stages, Order, Gone \subseteq Gone', UNCHANGED <<results, freed>>,
           \A p : Awaited(p)' => Awaited(p), \A p : Runs(p)' => Runs(p),
           \A k \in DOMAIN queue' : \E i \in DOMAIN queue : queue'[k] = queue[i],
           \A k, m \in DOMAIN queue' : k # m =>
                 \E i, j \in DOMAIN queue : i # j /\ queue'[k] = queue[i] /\ queue'[m] = queue[j]
    PROVE  Stages' /\ Order'
<1>1. \A p : (Queued(p)' => Queued(p)) /\ (Reported(p)' => Reported(p))
    BY DEF Queued, Reported, Deletes
<1>2. Stages'
    BY <1>1, FewerStages
<1>3. Order'
    <2>1. ASSUME NEW k \in DOMAIN queue', NEW m \in DOMAIN queue', k # m,
                 queue'[k].kind = "DELETE", Deletes(queue'[m], queue'[k].list)
          PROVE  FALSE
        <3>1. PICK i \in DOMAIN queue, j \in DOMAIN queue :
                 i # j /\ queue'[k] = queue[i] /\ queue'[m] = queue[j]
            BY <2>1
        <3> QED
            BY <2>1, <3>1 DEF Order
    <2> QED
        BY <2>1 DEF Order, Deletes
<1> QED
    BY <1>2, <1>3

\* A step that starts a job that adds tracks.
LEMMA MoreAddJobs ==
    ASSUME QueueType, Stages, Order, Gone \subseteq Gone', UNCHANGED <<results, freed>>,
           \A p : Awaited(p)' => Awaited(p), \A p : Runs(p)' => Runs(p),
           NEW job \in AnyJob, job.kind = "ADD", queue' = Append(queue, job)
    PROVE  Stages' /\ Order'
<1>1. /\ \A i \in DOMAIN queue : i \in DOMAIN queue' /\ queue'[i] = queue[i]
      /\ \A i \in DOMAIN queue' : i \in DOMAIN queue \/ queue'[i] = job
    BY AppendPlaces DEF QueueType
<1>2. \A p : (Queued(p)' => Queued(p)) /\ (Reported(p)' => Reported(p))
    BY <1>1 DEF Queued, Reported, Deletes
<1>3. Stages'
    BY <1>2, FewerStages
<1>4. Order'
    BY <1>1 DEF Order, Deletes
<1> QED
    BY <1>3, <1>4

\* A batch is sent: its list is not deleted, or the job is awaited.
LEMMA MoreAddResults ==
    ASSUME Types, AddsKnown, Stages, Order, Gone \subseteq Gone',
           UNCHANGED <<queue, freed>>,
           \A p : Awaited(p)' => Awaited(p), \A p : Runs(p)' => Runs(p),
           Running("ADD"), cur # NoJob, SendBatch
    PROVE  Stages' /\ Order'
<1> DEFINE res == [kind |-> "ADD", list |-> cur.list, items |-> buffer, front |-> cur.front]
           R == AddResults \union DeleteResults
<1>1. cur \in AddJobs
    BY DEF Types, QueueType, AnyJob, AddJobs, DeleteJobs, Running
<1>2. res \in R /\ res.kind = "ADD" /\ res.list = cur.list
    BY <1>1 DEF AddJobs, AddResults, Types, ResultType
<1>3. results \in Seq(R) /\ results' = Append(results, res)
    BY DEF Types, ResultType, SendBatch
<1> HIDE DEF res, R
<1>4. /\ \A i \in DOMAIN results : /\ i \in DOMAIN results' /\ results'[i] = results[i]
                                   /\ i < Len(results) + 1
      /\ \A i \in DOMAIN results' :
            i \in DOMAIN results \/ (i = Len(results) + 1 /\ results'[i] = res)
      /\ DOMAIN results \subseteq Nat /\ Len(results) \in Nat
    BY <1>2, <1>3, AppendPlaces
<1>5. \A p : (Queued(p)' => Queued(p)) /\ (Reported(p)' => Reported(p))
    BY <1>2, <1>4 DEF Queued, Reported, Deletes
<1>6. ~Reported(cur.list) /\ cur.list \notin freed
    BY <1>1 DEF AddsKnown, Stages, Running
<1>7. Stages'
    BY <1>5, FewerStages
<1>8. ASSUME NEW i \in DOMAIN results', NEW j \in DOMAIN results', i < j,
             results'[i].kind = "DELETE"
      PROVE  results'[j].list # results'[i].list
    <2>1. i \in DOMAIN results /\ results'[i] = results[i]
        BY <1>2, <1>4, <1>8
    <2>2. CASE j \in DOMAIN results
        BY <1>4, <1>8, <2>1, <2>2 DEF Order
    <2>3. CASE j \notin DOMAIN results
        BY <1>2, <1>4, <1>6, <1>8, <2>1, <2>3 DEF Reported, Deletes
    <2> QED
        BY <2>2, <2>3
<1>9. \A i \in DOMAIN results' : results'[i].list \notin freed'
    BY <1>2, <1>4, <1>6 DEF Order
<1>10. Order'
    BY <1>8, <1>9 DEF Order, Deletes
<1> QED
    BY <1>7, <1>10

\* The deletion that the worker takes was queued once.
LEMMA TakeKeepsTokens ==
    ASSUME QueueType, Stages, Order, Gone' = Gone, UNCHANGED <<results, freed, rest, target>>,
           TakeJob
    PROVE  Stages' /\ Order'
<1>1. /\ 1 \in DOMAIN queue /\ cur' = queue[1] /\ wpc = "top"
      /\ \A i \in DOMAIN queue' : i \in Nat \ {0} /\ i + 1 \in DOMAIN queue /\ queue'[i] = queue[i + 1]
    BY TailPlaces DEF TakeJob, WorkerAtTop, QueueType
<1>2. \A p : (Queued(p)' => Queued(p)) /\ (Reported(p)' = Reported(p)) /\ (Awaited(p)' = Awaited(p))
    BY <1>1 DEF Queued, Reported, Deletes, Awaited
<1>3. \A p : ~Runs(p) /\ (Runs(p)' => Queued(p) /\ Deletes(queue[1], p))
    BY <1>1 DEF Runs, Running, Queued, Deletes
<1>4. ASSUME NEW p, Runs(p)', Queued(p)' PROVE FALSE
    <2>1. PICK i \in DOMAIN queue' : Deletes(queue'[i], p)
        BY <1>4 DEF Queued, Deletes
    <2>2. i + 1 \in DOMAIN queue /\ i + 1 # 1 /\ Deletes(queue[i + 1], p)
        BY <1>1, <2>1
    <2>3. Deletes(queue[1], p)
        BY <1>3, <1>4
    <2> QED
        BY <1>1, <2>2, <2>3 DEF Order, Deletes
<1>5. Stages'
    BY <1>2, <1>3, <1>4 DEF Stages
<1>6. ASSUME NEW i \in DOMAIN queue', NEW j \in DOMAIN queue', i # j, queue'[i].kind = "DELETE"
      PROVE  ~Deletes(queue'[j], queue'[i].list)
    <2>1. /\ i + 1 \in DOMAIN queue /\ j + 1 \in DOMAIN queue /\ i + 1 # j + 1
          /\ queue'[i] = queue[i + 1] /\ queue'[j] = queue[j + 1]
        BY <1>1, <1>6
    <2> QED
        BY <1>6, <2>1 DEF Order
<1>7. Order'
    BY <1>6 DEF Order, Deletes
<1> QED
    BY <1>5, <1>7

\* What a deletion job reports was not reported before, and nothing adds to its
\* list after it.
LEMMA FreeJobKeepsTokens ==
    ASSUME Types, Stages, Order, Gone' = Gone, UNCHANGED <<queue, freed, rest, target>>,
           cur # NoJob, FreeDeleteJob
    PROVE  Stages' /\ Order'
<1> DEFINE res == [kind |-> "DELETE", list |-> cur.list]
           R == AddResults \union DeleteResults
<1>1. cur \in DeleteJobs /\ Runs(cur.list)
    BY DEF Types, QueueType, AnyJob, AddJobs, DeleteJobs, Running, FreeDeleteJob, Runs
<1>2. res \in R /\ res.kind = "DELETE" /\ res.list = cur.list
    BY <1>1 DEF DeleteJobs, DeleteResults
<1>3. results \in Seq(R) /\ results' = Append(results, res)
    BY DEF Types, ResultType, FreeDeleteJob
<1> HIDE DEF res, R
<1>4. /\ \A i \in DOMAIN results : /\ i \in DOMAIN results' /\ results'[i] = results[i]
                                   /\ i < Len(results) + 1
      /\ \A i \in DOMAIN results' :
            i \in DOMAIN results \/ (i = Len(results) + 1 /\ results'[i] = res)
      /\ DOMAIN results \subseteq Nat /\ Len(results) \in Nat
    BY <1>2, <1>3, AppendPlaces
<1>5. \A p : (Queued(p)' = Queued(p)) /\ (Awaited(p)' = Awaited(p))
    BY DEF Queued, Deletes, Awaited
<1>6. \A p : ~Runs(p)'
    BY DEF FreeDeleteJob, Runs, Running
<1>7. ASSUME NEW p, Reported(p)' PROVE Reported(p) \/ p = cur.list
    BY <1>2, <1>4, <1>7 DEF Reported, Deletes
<1>8. Stages'
    <2>1. /\ cur.list \in Gone /\ cur.list \notin freed
          /\ ~Queued(cur.list) /\ ~Awaited(cur.list)
        BY <1>1 DEF Stages
    <2> QED
        BY <1>5, <1>6, <1>7, <2>1 DEF Stages
<1>9. ~Reported(cur.list) /\ cur.list \notin freed
    BY <1>1 DEF Stages
<1>10. ASSUME NEW i \in DOMAIN results', NEW j \in DOMAIN results', i < j,
              results'[i].kind = "DELETE"
       PROVE  results'[j].list # results'[i].list
    <2>1. i \in DOMAIN results /\ results'[i] = results[i]
        BY <1>4, <1>10
    <2>2. CASE j \in DOMAIN results
        BY <1>4, <1>10, <2>1, <2>2 DEF Order
    <2>3. CASE j \notin DOMAIN results
        BY <1>2, <1>4, <1>9, <1>10, <2>1, <2>3 DEF Reported, Deletes
    <2> QED
        BY <2>2, <2>3
<1>11. \A i \in DOMAIN results' : results'[i].list \notin freed'
    BY <1>2, <1>4, <1>9 DEF Order
<1>12. Order'
    BY <1>10, <1>11 DEF Order, Deletes
<1> QED
    BY <1>8, <1>12

\* The deletion of a playlist is scheduled once.
LEMMA ScheduleKeepsTokens ==
    ASSUME QueueType, ListType, Stages, Order, Gone' = Gone, UNCHANGED <<results, freed, wpc>>,
           ScheduleDelete
    PROVE  Stages' /\ Order'
<1> DEFINE job == [kind |-> "DELETE", list |-> target]
<1>1. Awaited(target) /\ job \in AnyJob /\ Deletes(job, target)
    BY DEF ScheduleDelete, Resumes, ListType, AnyJob, DeleteJobs, Awaited, Deletes
<1>2. queue' = Append(queue, job) /\ cur' = cur /\ rest' = "nothing"
    BY DEF ScheduleDelete, AddJob, Back
<1> HIDE DEF job
<1>3. /\ \A i \in DOMAIN queue : i \in DOMAIN queue' /\ queue'[i] = queue[i]
      /\ \A i \in DOMAIN queue' :
            i \in DOMAIN queue \/ (i = Len(queue) + 1 /\ queue'[i] = job)
    BY <1>1, <1>2, AppendPlaces DEF QueueType
<1>4. ASSUME NEW p, Queued(p)' PROVE Queued(p) \/ p = target
    BY <1>1, <1>3, <1>4 DEF Queued, Deletes
<1>5. \A p : ~Awaited(p)' /\ (Runs(p)' = Runs(p)) /\ (Reported(p)' = Reported(p))
    BY <1>2 DEF Awaited, Runs, Running, Reported, Deletes
<1>6. /\ target \in Gone /\ target \notin freed
      /\ ~Queued(target) /\ ~Runs(target) /\ ~Reported(target)
    BY <1>1 DEF Stages
<1>7. Stages'
    BY <1>4, <1>5, <1>6 DEF Stages
<1>8. ASSUME NEW i \in DOMAIN queue', NEW j \in DOMAIN queue', i # j, queue'[i].kind = "DELETE"
      PROVE  ~Deletes(queue'[j], queue'[i].list)
    <2>1. CASE i \in DOMAIN queue /\ j \in DOMAIN queue
        BY <1>3, <1>8, <2>1 DEF Order
    <2>2. CASE i \in DOMAIN queue /\ j \notin DOMAIN queue
        BY <1>1, <1>3, <1>6, <1>8, <2>2 DEF Queued, Deletes
    <2>3. CASE i \notin DOMAIN queue
        BY <1>1, <1>3, <1>6, <1>8, <2>3 DEF Queued, Deletes
    <2> QED
        BY <2>1, <2>2, <2>3
<1>9. Order'
    BY <1>8 DEF Order, Deletes
<1> QED
    BY <1>7, <1>9

\* A playlist that pl_delete takes from the list was at no stage of deletion.
LEMMA DeleteKeepsTokens ==
    ASSUME WInv, Shown, Stages, Order, DeletePlaylist
    PROVE  Stages' /\ Order'
<1>0. Types /\ QueueType
    BY DEF WInv, Types
<1>1. PICK p \in listed :
         /\ p \notin Gone /\ Gone' = Gone \union {p} /\ RemoveJobs(OfType(p)) /\ Await("delete", p)
         /\ UNCHANGED <<results, freed, wpc>>
    BY <1>0, DeletePlaylistStep
<1>2. /\ \A k \in DOMAIN queue' : \E i \in DOMAIN queue : queue'[k] = queue[i]
      /\ \A k, m \in DOMAIN queue' : k # m =>
            \E i, j \in DOMAIN queue : i # j /\ queue'[k] = queue[i] /\ queue'[m] = queue[j]
      /\ cur' = cur
    BY <1>0, <1>1, RemovedJobs DEF QueueType
<1>3. \A l : /\ Queued(l)' => Queued(l)
             /\ Reported(l)' = Reported(l) /\ Runs(l)' = Runs(l)
             /\ Awaited(l)' = (l = p)
    BY <1>1, <1>2 DEF Queued, Reported, Runs, Running, Awaited, Deletes, Await
<1>4. ~Queued(p) /\ ~Runs(p) /\ ~Reported(p) /\ p \notin freed
    BY <1>1 DEF Stages
<1>5. Stages'
    BY <1>1, <1>3, <1>4 DEF Stages
<1>6. ASSUME NEW k \in DOMAIN queue', NEW m \in DOMAIN queue', k # m,
             queue'[k].kind = "DELETE", Deletes(queue'[m], queue'[k].list)
      PROVE  FALSE
    <2>1. PICK i \in DOMAIN queue, j \in DOMAIN queue :
             i # j /\ queue'[k] = queue[i] /\ queue'[m] = queue[j]
        BY <1>2, <1>6
    <2> QED
        BY <1>6, <2>1 DEF Order
<1>7. Order'
    BY <1>1, <1>6 DEF Order, Deletes
<1> QED
    BY <1>5, <1>7

\* A result is handled.
LEMMA HandledPlaces ==
    ASSUME ResultType, results # <<>>, results' = Tail(results)
    PROVE  /\ 1 \in DOMAIN results /\ Head(results) = results[1]
           /\ \A i \in DOMAIN results' :
                 i \in Nat \ {0} /\ i + 1 \in DOMAIN results /\ results'[i] = results[i + 1]
<1> DEFINE R == AddResults \union DeleteResults
<1>1. results \in Seq(R)
    BY DEF ResultType
<1> HIDE DEF R
<1> QED
    BY <1>1, TailPlaces

\* What follows a result keeps its order when it goes.
LEMMA HandledOrder ==
    ASSUME ResultType, Order, results # <<>>, results' = Tail(results), queue' = queue
    PROVE  /\ \A i, j \in DOMAIN queue' :
                 i # j /\ queue'[i].kind = "DELETE" => ~Deletes(queue'[j], queue'[i].list)
           /\ \A i, j \in DOMAIN results' :
                 i < j /\ results'[i].kind = "DELETE" => results'[j].list # results'[i].list
<1>1. \A i \in DOMAIN results' :
         i \in Nat \ {0} /\ i + 1 \in DOMAIN results /\ results'[i] = results[i + 1]
    BY HandledPlaces
<1>2. ASSUME NEW i \in DOMAIN results', NEW j \in DOMAIN results', i < j,
             results'[i].kind = "DELETE"
      PROVE  results'[j].list # results'[i].list
    <2>1. /\ i + 1 \in DOMAIN results /\ j + 1 \in DOMAIN results /\ i + 1 < j + 1
          /\ results'[i] = results[i + 1] /\ results'[j] = results[j + 1]
        BY <1>1, <1>2
    <2> QED
        BY <1>2, <2>1 DEF Order
<1> QED
    BY <1>2 DEF Order

\* Tracks arrive.
LEMMA HandleAddKeepsTokens ==
    ASSUME ResultType, Stages, Order, Gone' = Gone,
           UNCHANGED <<queue, cur, wpc, freed, rest, target>>,
           results # <<>>, results' = Tail(results)
    PROVE  Stages' /\ Order'
<1>1. \A i \in DOMAIN results' : i + 1 \in DOMAIN results /\ results'[i] = results[i + 1]
    BY HandledPlaces
<1>2. \A p : /\ Queued(p)' => Queued(p)
             /\ Reported(p)' => Reported(p)
             /\ Runs(p)' => Runs(p)
             /\ Awaited(p)' => Awaited(p)
    BY <1>1 DEF Queued, Reported, Runs, Running, Awaited, Deletes
<1>3. Stages'
    BY <1>2, FewerStages
<1>4. \A i \in DOMAIN results' : results'[i].list \notin freed'
    BY <1>1 DEF Order
<1>5. Order'
    BY <1>4, HandledOrder DEF Order, Deletes
<1> QED
    BY <1>3, <1>5

\* A playlist is freed: it was reported once, and nothing follows.
LEMMA HandleDeleteKeepsTokens ==
    ASSUME ResultType, Stages, Order, Gone' = Gone,
           UNCHANGED <<queue, cur, wpc, rest, target>>, HandleDelete
    PROVE  Stages' /\ Order'
<1>0. PICK p : p = results[1].list
    OBVIOUS
<1>1. /\ results # <<>> /\ results' = Tail(results)
      /\ Head(results).kind = "DELETE" /\ freed' = freed \union {Head(results).list}
    BY DEF HandleDelete
<1>2. /\ 1 \in DOMAIN results /\ Head(results) = results[1]
      /\ \A i \in DOMAIN results' :
            i \in Nat \ {0} /\ i + 1 \in DOMAIN results /\ results'[i] = results[i + 1]
    BY <1>1, HandledPlaces
<1>3. \A l : /\ Queued(l)' => Queued(l)
             /\ Reported(l)' => Reported(l)
             /\ Runs(l)' => Runs(l)
             /\ Awaited(l)' => Awaited(l)
    BY <1>2 DEF Queued, Reported, Runs, Running, Awaited, Deletes
<1>4. Reported(p) /\ freed' = freed \union {p}
    BY <1>0, <1>1, <1>2 DEF Reported, Deletes
<1>5. p \in Gone /\ ~Queued(p) /\ ~Runs(p) /\ ~Awaited(p)
    BY <1>4 DEF Stages
<1>6. \A i \in DOMAIN results' : results'[i].list # p
    <2>1. ASSUME NEW i \in DOMAIN results' PROVE results'[i].list # p
        <3>1. i + 1 \in DOMAIN results /\ 1 < i + 1 /\ results'[i] = results[i + 1]
            BY <1>2
        <3> QED
            BY <1>0, <1>1, <1>2, <3>1 DEF Order
    <2> QED
        BY <2>1
<1>7. ~Reported(p)'
    BY <1>6 DEF Reported, Deletes
<1>8. Stages'
    BY <1>3, <1>4, <1>5, <1>7 DEF Stages
<1>9. \A i \in DOMAIN results' : results'[i].list \notin freed'
    BY <1>2, <1>4, <1>6 DEF Order
<1>10. Order'
    BY <1>1, <1>9, HandledOrder DEF Order, Deletes
<1> QED
    BY <1>8, <1>10

\* At the exit the queued deletions are reported, each once.
LEMMA ExitKeepsTokens ==
    ASSUME Types, Stages, Order, Gone' = Gone, ExitAll
    PROVE  Stages' /\ Order'
<1> DEFINE r == ReportsOfRemoved
           R == AddResults \union DeleteResults
<1>0. queue \in Seq(AnyJob) /\ results \in Seq(R)
    BY DEF Types, QueueType, ResultType
<1>1. /\ queue' = <<>> /\ cur' = cur /\ UNCHANGED <<wpc, freed>> /\ rest' = "stop"
      /\ results' = results \o r
    BY <1>0, RemovedJobs DEF ExitAll, Await, playlists
<1>2. /\ r \in Seq(R)
      /\ \A k \in DOMAIN r : r[k].kind = "DELETE" /\ Queued(r[k].list)
      /\ \A k, m \in DOMAIN r : k # m => r[k].list # r[m].list
    <2>1. r \in Seq(DeleteResults)
        BY <1>0, ReportsType
    <2>2. r \in Seq(R) /\ \A k \in DOMAIN r : r[k].kind = "DELETE"
        <3> HIDE DEF r
        <3>1. \A x \in DeleteResults : x \in R /\ x.kind = "DELETE"
            BY DEF DeleteResults
        <3> HIDE DEF R
        <3> QED
            BY <2>1, <3>1
    <2>3. ASSUME NEW k \in DOMAIN r PROVE Queued(r[k].list)
        <3>1. PICK i \in DOMAIN queue : queue[i].kind = "DELETE" /\ r[k].list = queue[i].list
            BY <1>0, ReportsType
        <3> QED
            BY <3>1 DEF Queued, Deletes
    <2>4. ASSUME NEW k \in DOMAIN r, NEW m \in DOMAIN r, k # m PROVE r[k].list # r[m].list
        <3>1. PICK i \in DOMAIN queue, j \in DOMAIN queue :
                    /\ i # j
                    /\ queue[i].kind = "DELETE" /\ r[k].list = queue[i].list
                    /\ queue[j].kind = "DELETE" /\ r[m].list = queue[j].list
            BY <1>0, <2>4, ReportsType
        <3> QED
            BY <3>1 DEF Order, Deletes
    <2> HIDE DEF r
    <2> QED
        BY <2>2, <2>3, <2>4
<1> HIDE DEF r, R
<1>3. /\ \A i \in DOMAIN results' :
            \/ i \in DOMAIN results /\ results'[i] = results[i]
            \/ /\ i - Len(results) \in DOMAIN r /\ results'[i] = r[i - Len(results)]
               /\ i \notin DOMAIN results
      /\ \A i, j \in DOMAIN results' : i < j /\ j \in DOMAIN results => i \in DOMAIN results
      /\ Len(results) \in Nat /\ DOMAIN results' \subseteq Nat
    BY <1>0, <1>1, <1>2
<1>4. \A p : /\ ~Queued(p)' /\ ~Awaited(p)'
             /\ Runs(p)' = Runs(p)
             /\ Reported(p)' => Reported(p) \/ Queued(p)
    <2>1. \A p : ~Queued(p)' /\ ~Awaited(p)' /\ Runs(p)' = Runs(p)
        BY <1>1 DEF Queued, Awaited, Runs, Running, Deletes
    <2>2. ASSUME NEW p, Reported(p)', ~Reported(p) PROVE Queued(p)
        <3>1. PICK i \in DOMAIN results' : Deletes(results'[i], p)
            BY <2>2 DEF Reported, Deletes
        <3> QED
            BY <1>2, <1>3, <2>2, <3>1 DEF Reported, Deletes
    <2> QED
        BY <2>1, <2>2
<1>5. Stages'
    BY <1>1, <1>4 DEF Stages
<1>6. ASSUME NEW i \in DOMAIN results', NEW j \in DOMAIN results', i < j,
             results'[i].kind = "DELETE"
      PROVE  results'[j].list # results'[i].list
    <2>1. CASE j \in DOMAIN results
        BY <1>3, <1>6, <2>1 DEF Order
    <2>2. CASE i \in DOMAIN results /\ j \notin DOMAIN results
        <3>1. Queued(results'[j].list)
            BY <1>2, <1>3, <2>2
        <3>2. ~Reported(results'[j].list)
            BY <3>1 DEF Stages
        <3>3. results'[i] = results[i]
            BY <1>3, <2>2
        <3> QED
            BY <1>6, <2>2, <3>2, <3>3 DEF Reported, Deletes
    <2>3. CASE i \notin DOMAIN results
        <3>1. /\ i - Len(results) \in DOMAIN r /\ results'[i] = r[i - Len(results)]
              /\ j - Len(results) \in DOMAIN r /\ results'[j] = r[j - Len(results)]
            BY <1>3, <1>6, <2>3
        <3>2. i - Len(results) # j - Len(results)
            BY <1>3, <1>6
        <3> QED
            BY <1>2, <3>1, <3>2
    <2> QED
        BY <2>1, <2>2, <2>3
<1>7. ASSUME NEW i \in DOMAIN results' PROVE results'[i].list \notin freed'
    <2>1. CASE i \in DOMAIN results
        BY <1>1, <1>3, <2>1 DEF Order
    <2>2. CASE i \notin DOMAIN results
        <3>1. Queued(results'[i].list)
            BY <1>2, <1>3, <2>2
        <3> QED
            BY <1>1, <3>1 DEF Stages
    <2> QED
        BY <2>1, <2>2
<1>8. Order'
    BY <1>1, <1>6, <1>7 DEF Order, Deletes
<1> QED
    BY <1>5, <1>8

\* Every step moves a deleted playlist from its stage to the next one, if at all.
LEMMA TokensStep == WInv /\ DInv /\ [Next]_vars => Stages' /\ Order'
<1> SUFFICES ASSUME WInv, DInv, [Next]_vars PROVE Stages' /\ Order'
    OBVIOUS
<1>0. /\ Types /\ QueueType /\ ResultType /\ ListType
      /\ Control /\ Shown /\ AddsKnown /\ Stages /\ Order
    BY DEF WInv, Types, DInv
<1>1. CASE UNCHANGED vars
    <2>1. /\ UNCHANGED <<queue, results, freed, made, listed, rest, target, cur, wpc>>
        BY <1>1 DEF vars, worker, channel, playlists, main
    <2> QED
        BY <1>0, <2>1, SameTokens DEF Gone, Awaited, Runs, Running
<1>2. CASE DeletePlaylist
    BY <1>0, <1>2, DeleteKeepsTokens
<1>3. ASSUME Next, ~DeletePlaylist PROVE Gone' = Gone
    BY <1>0, <1>3, GoneStep
<1>4. ASSUME UNCHANGED <<queue, results, freed, rest, target>>, Gone' = Gone,
             \/ cur' = cur /\ (wpc' = "run" => wpc = "run")
             \/ wpc' # "run"
             \/ cur'.kind # "DELETE"
      PROVE  Stages' /\ Order'
    BY <1>0, <1>4, SameTokens DEF Awaited, Runs, Running
<1>5. CASE (WorkerSteps \/ WorkerWakesUp) /\ ~DeletePlaylist
    <2>0. UNCHANGED <<freed, rest, target>> /\ Gone' = Gone
        BY <1>3, <1>5 DEF Next, WorkerSteps, WorkerWakesUp, FindTrack, FinishEntries, SendRest,
            AddDone, FreeDeleteJob, Notify, WorkerLoop, playlists, main
    <2>1. CASE FindTrack \/ FinishEntries \/ SendRest \/ AddDone
        <3>1. /\ Running("ADD") /\ UNCHANGED <<queue, cur>>
              /\ SendBatch \/ results' = results
            BY <2>1 DEF FindTrack, FinishEntries, SendRest, AddDone, AddItem, worker, channel
        <3>2. cur # NoJob
            BY <1>0, <3>1 DEF Running, Control, CancelIsForTheRunningJob
        <3>3. CASE results' = results
            BY <1>4, <2>0, <3>1, <3>3 DEF Running
        <3>4. CASE SendBatch
            BY <1>0, <2>0, <3>1, <3>2, <3>4, MoreAddResults DEF Awaited, Runs, Running
        <3> QED
            BY <3>1, <3>3, <3>4
    <2>2. CASE FreeDeleteJob
        <3>1. cur # NoJob /\ queue' = queue
            BY <1>0, <2>2 DEF FreeDeleteJob, Running, Control, CancelIsForTheRunningJob, worker
        <3> QED
            BY <1>0, <2>0, <2>2, <3>1, FreeJobKeepsTokens
    <2>3. CASE Notify
        <3>1. UNCHANGED <<queue, cur, results>> /\ (wpc' # "run" \/ cur'.kind # "DELETE")
            BY <2>3 DEF Notify, worker
        <3> QED
            BY <1>4, <2>0, <3>1
    <2>4. CASE TakeJob /\ WorkerLoop
        <3>1. results' = results
            BY <2>4 DEF WorkerLoop, channel
        <3> QED
            BY <1>0, <2>0, <2>4, <3>1, TakeKeepsTokens
    <2>5. CASE (WaitForJob \/ StopWorker \/ FinishJob) /\ WorkerLoop
        <3>1. UNCHANGED <<queue, results>> /\ wpc' # "run"
            BY <2>5 DEF WaitForJob, StopWorker, FinishJob, WorkerAtTop, WorkerLoop, worker, channel
        <3> QED
            BY <1>4, <2>0, <3>1
    <2>6. CASE WorkerWakesUp
        <3>1. UNCHANGED <<queue, cur, wpc, results>>
            BY <2>6 DEF WorkerWakesUp, SpuriousWakeup, RemovalWaits, RemovalEnds, channel
        <3> QED
            BY <1>4, <2>0, <3>1
    <2> QED
        BY <1>5, <2>1, <2>2, <2>3, <2>4, <2>5, <2>6 DEF WorkerSteps, WorkerLoop
<1>6. ASSUME Gone' = Gone, UNCHANGED <<cur, wpc, results, freed>>,
             \A p : Awaited(p)' => Awaited(p),
             NEW l \in Lists, NEW n \in 0 .. MaxTracks,
             NEW source \in {"file", "dir", "playlist"}, NEW front \in BOOLEAN,
             ScheduleAdd(l, n, source, front)
      PROVE  Stages' /\ Order'
    <2> DEFINE job == NewJob(l, n, source, front)
    <2>1. job \in AnyJob
        BY <1>0, <1>6, NewJobType DEF AnyJob
    <2>2. queue' = Append(queue, job) /\ job.kind = "ADD"
        BY <1>6 DEF ScheduleAdd, AddJob, NewJob
    <2> HIDE DEF job
    <2> QED
        BY <1>0, <1>6, <2>1, <2>2, MoreAddJobs DEF Runs, Running
<1>7. CASE AddTracks /\ ~DeletePlaylist
    <2>1. PICK l \in Views \union {marked}, n \in 0 .. MaxTracks,
               source \in {"file", "dir", "playlist"}, front \in BOOLEAN :
               ScheduleAdd(l, n, source, front)
        BY <1>7 DEF AddTracks
    <2>2. l \in Lists
        BY <1>0 DEF ListType, Lists
    <2>3. UNCHANGED <<cur, wpc, results, freed, rest, target>> /\ Gone' = Gone
        BY <1>3, <1>7, <2>1
        DEF Next, Commands, AddTracks, ScheduleAdd, AddJob, channel, playlists, main
    <2> QED
        BY <1>6, <2>1, <2>2, <2>3 DEF Awaited
<1>8. CASE ImportPlaylist /\ ~DeletePlaylist
    <2>1. PICK n \in 0 .. MaxTracks : ScheduleAdd(made', n, "playlist", FALSE)
        BY <1>8 DEF ImportPlaylist
    <2>2. made' \in Lists
        BY <1>0, <1>8, JobsAssumption DEF ImportPlaylist, ListType, Lists, Playlists
    <2>3. UNCHANGED <<cur, wpc, results, freed, rest, target>> /\ Gone' = Gone
        BY <1>3, <1>8, <2>1
        DEF Next, Commands, ImportPlaylist, ScheduleAdd, AddJob, channel, main
    <2> QED
        BY <1>6, <2>1, <2>2, <2>3 DEF Awaited
<1>9. CASE (LoadView \/ ReloadPlaylist) /\ ~DeletePlaylist
    <2>1. PICK n \in 0 .. MaxTracks : ScheduleAdd(target, n, "playlist", FALSE)
        BY <1>9 DEF LoadView, ReloadPlaylist
    <2>2. target \in Lists
        BY <1>0, <1>9 DEF LoadView, ReloadPlaylist, Resumes, ListType
    <2>3. UNCHANGED <<cur, wpc, results, freed>> /\ rest' = "nothing" /\ Gone' = Gone
        BY <1>3, <1>9, <2>1
        DEF Next, Continue, LoadView, ReloadPlaylist, Back, ScheduleAdd, AddJob, channel, playlists
    <2> QED
        BY <1>6, <2>1, <2>2, <2>3 DEF Awaited
<1>10. ASSUME Next, ~DeletePlaylist, NEW M, RemoveJobs(M), rest' # "delete",
              UNCHANGED <<wpc, results, freed>>
       PROVE  Stages' /\ Order'
    <2>1. /\ \A k \in DOMAIN queue' : \E i \in DOMAIN queue : queue'[k] = queue[i]
          /\ \A k, m \in DOMAIN queue' : k # m =>
                \E i, j \in DOMAIN queue : i # j /\ queue'[k] = queue[i] /\ queue'[m] = queue[j]
          /\ cur' = cur
        BY <1>0, <1>10, RemovedJobs DEF QueueType
    <2> QED
        BY <1>0, <1>3, <1>10, <2>1, FewerJobs DEF Awaited, Runs, Running
<1>11. CASE ClearView /\ ~DeletePlaylist
    <2>1. PICK l \in Views : RemoveJobs(OfType(l)) /\ rest' # "delete"
        BY <1>11 DEF ClearView, Await
    <2>2. UNCHANGED <<wpc, results, freed>>
        BY <1>11 DEF ClearView, channel, playlists
    <2> QED
        BY <1>10, <1>11, <2>1, <2>2 DEF Next, Commands
<1>12. CASE ClearPlaylist /\ ~DeletePlaylist
    <2>1. RemoveJobs(OfType(visible)) /\ rest' # "delete" /\ UNCHANGED <<wpc, results, freed>>
        BY <1>12 DEF ClearPlaylist, Await, channel
    <2> QED
        BY <1>10, <1>12, <2>1 DEF Next, Commands
<1>13. CASE (SelectPlaylist \/ PlaySelected \/ PlayNext \/ RemoveSelected \/ LoseFile \/ Quit)
            /\ ~DeletePlaylist
    <2>1. UNCHANGED <<queue, cur, wpc, results, freed, rest, target>>
        BY <1>13, TakenOut DEF SelectPlaylist, PlaySelected, PlayNext, Quit, worker, channel, playlists, main
    <2> QED
        BY <1>3, <1>4, <1>13, <2>1 DEF Next, Commands
<1>14. CASE (ClearedView \/ ClearedPlaylist) /\ ~DeletePlaylist
    <2>1. UNCHANGED <<queue, cur, wpc, results, freed>> /\ rest' = "nothing"
        BY <1>14 DEF ClearedView, ClearedPlaylist, Back, worker, channel, playlists
    <2> QED
        BY <1>0, <1>3, <1>14, <2>1, SameTokens DEF Next, Continue, Awaited, Runs, Running
<1>15. CASE ScheduleDelete /\ ~DeletePlaylist
    <2>1. UNCHANGED <<wpc, results, freed>>
        BY <1>15 DEF ScheduleDelete, channel, playlists
    <2> QED
        BY <1>0, <1>3, <1>15, <2>1, ScheduleKeepsTokens DEF Next, Continue
<1>16. CASE (StartWorker \/ BeginHandling \/ EndHandling) /\ ~DeletePlaylist
    <2>1. UNCHANGED <<queue, cur, wpc, results, freed, rest, target>>
        BY <1>16 DEF StartWorker, SetState, BeginHandling, EndHandling, worker, channel, playlists,
            main
    <2> QED
        BY <1>3, <1>4, <1>16, <2>1 DEF Next, Handle
<1>17. CASE HandleAdd /\ ~DeletePlaylist
    <2>1. /\ UNCHANGED <<queue, cur, wpc, freed, rest, target>>
          /\ results # <<>> /\ results' = Tail(results)
        BY <1>17 DEF HandleAdd, worker, main
    <2> QED
        BY <1>0, <1>3, <1>17, <2>1, HandleAddKeepsTokens DEF Next, Handle
<1>18. CASE HandleDelete /\ ~DeletePlaylist
    <2>1. UNCHANGED <<queue, cur, wpc, rest, target>>
        BY <1>18 DEF HandleDelete, worker, main
    <2> QED
        BY <1>0, <1>3, <1>18, <2>1, HandleDeleteKeepsTokens DEF Next, Handle
<1>19. CASE ExitAll /\ ~DeletePlaylist
    BY <1>0, <1>3, <1>19, ExitKeepsTokens DEF Next, Exit
<1>20. CASE (StopAtExit \/ JoinWorker \/ Over) /\ ~DeletePlaylist
    <2>1. UNCHANGED <<queue, cur, wpc, results, freed, rest, target>>
        BY <1>20 DEF StopAtExit, SetState, JoinWorker, Over, vars, worker, channel, playlists, main
    <2> QED
        BY <1>3, <1>4, <1>20, <2>1 DEF Next, Exit
<1> QED
    BY <1>1, <1>2, <1>5, <1>7, <1>8, <1>9, <1>11, <1>12, <1>13, <1>14, <1>15, <1>16, <1>17,
       <1>18, <1>19, <1>20
    DEF Next, Commands, Continue, Handle, Exit

\* The stages of deletion are kept in every behaviour.
LEMMA DeletionInvariant == Spec => [](WInv /\ DInv)
<1>1. Init => WInv /\ DInv
    BY TypesInit, ControlInit, DeletionInit DEF WInv
<1>2. WInv /\ DInv /\ [Next]_vars => (WInv /\ DInv)'
    BY QueueTypeStep, ResultTypeStep, ListTypeStep, ControlStep, ShownStep, AddsKnownStep,
       TokensStep
    DEF WInv, Types, DInv
<1> QED
    BY <1>1, <1>2, PTL DEF Spec

\* pl.c, pl_delete: the deletion of a playlist by a job of its own keeps the list
\* until nothing refers to it, whatever adds to it when it is deleted, whatever is
\* cleared, added, quit or deleted meanwhile, and whatever playlist is resumed.
THEOREM FreedSafe == Spec => []NoUseAfterFree
<1>1. ASSUME WInv, DInv PROVE NoUseAfterFree
    <2> SUFFICES ASSUME NEW p \in freed
                 PROVE  /\ p \notin listed
                        /\ p \notin {visible, marked, playing}
                        /\ ~HasJob({job \in AddJobs : job.list = p})
                        /\ \A i \in DOMAIN queue : queue[i].list # p
                        /\ \A i \in DOMAIN results : results[i].list # p
        BY DEF NoUseAfterFree
    <2>0. Types /\ Shown /\ AddsKnown /\ Stages /\ Order
        BY <1>1 DEF WInv, DInv
    <2>1. p \in Gone /\ p \notin listed /\ p \in Playlists
        <3>1. p \in Gone
            BY <2>0 DEF Stages
        <3> QED
            BY <2>0, <3>1, JobsAssumption DEF Gone, Types, ListType, Playlists
    <2>2. p \notin {visible, marked, playing}
        BY <2>0, <2>1, JobsAssumption DEF Shown, Playlists
    <2>3. \A i \in DOMAIN results : results[i].list # p
        BY <2>0 DEF Order
    <2>4. ~Queued(p) /\ ~Awaited(p)
        BY <2>0 DEF Stages
    <2>5. ASSUME NEW i \in DOMAIN queue PROVE queue[i].list # p
        <3>1. queue[i] \in AnyJob
            BY <2>0 DEF Types, QueueType
        <3>2. queue[i].kind \in {"ADD", "DELETE"}
            BY <3>1 DEF AnyJob, AddJobs, DeleteJobs
        <3> QED
            BY <2>0, <2>1, <2>4, <3>2 DEF AddsKnown, Queued, Deletes
    <2>6. ~(cur # NoJob /\ cur.kind = "ADD" /\ cur.list = p)
        BY <2>0, <2>1, <2>4 DEF AddsKnown
    <2>7. ~HasJob({job \in AddJobs : job.list = p})
        BY <2>5, <2>6 DEF HasJob, Indices, AddJobs
    <2> QED
        BY <2>1, <2>2, <2>3, <2>5, <2>7
<1> QED
    BY <1>1, DeletionInvariant, PTL

\* pl.c: the playlists that are visible and marked exist, also when the end of a load
\* shows the playlist of the last time or the one to resume.
THEOREM ShownSafe == Spec => []ShownListsAreListed
<1>1. WInv /\ DInv => ShownListsAreListed
    BY DEF DInv, Shown, ShownListsAreListed
<1> QED
    BY <1>1, DeletionInvariant, PTL

\* pl.c, pl_cancel_add_jobs: no job adds to a deleted playlist once the removal of
\* its jobs has returned.
THEOREM CancelledSafe == Spec => []NoJobForDeletedList
<1>1. ASSUME WInv, DInv PROVE NoJobForDeletedList
    <2>0. AddsKnown /\ CancelIsForTheRunningJob
        BY <1>1 DEF WInv, Control, DInv
    <2>1. QueueType
        BY <1>1 DEF WInv, Types
    <2> QED
        BY <2>0 DEF AddsKnown, NoJobForDeletedList, HasJob, Indices, AddJobs, CancelIsForTheRunningJob, Gone
<1> QED
    BY <1>1, DeletionInvariant, PTL

\* window.c, window_set_sel: only pl_loaded gives up the program.
LEMMA GivesUpStep ==
    WInv /\ DInv /\ GivesUpOnlyOnDeleted /\ [Next]_vars => GivesUpOnlyOnDeleted'
<1> SUFFICES ASSUME GivesUpOnlyOnDeleted, [Next]_vars PROVE GivesUpOnlyOnDeleted'
    OBVIOUS
<1> USE DEF GivesUpOnlyOnDeleted
<1>1. CASE UNCHANGED vars
    BY <1>1 DEF vars, playlists, main
<1>2. CASE mpc = "bug"
    BY <1>1, <1>2, GivenUp
<1> SUFFICES ASSUME mpc # "bug", Next, mpc' = "bug" PROVE playing' \in Playlists \ listed'
    BY <1>1, <1>2
<1>3. ~WorkerSteps /\ ~WorkerWakesUp
    BY DEF WorkerSteps, WorkerWakesUp, FindTrack, FinishEntries, SendRest, AddDone,
        FreeDeleteJob, Notify, WorkerLoop, main
<1>4. ~Commands
    BY TakenOut
    DEF Commands, AddTracks, ImportPlaylist, SelectPlaylist, PlaySelected, PlayNext,
        ClearView, ClearPlaylist, DeletePlaylist, Quit, InMainLoop, Idle, Await, main
<1>5. ~Continue
    <2>1. Continue => Back
        BY DEF Continue, ClearedView, LoadView, ClearedPlaylist, ReloadPlaylist, ScheduleDelete
    <2> QED
        BY <2>1 DEF Back
<1>6. ~StartWorker /\ ~BeginHandling /\ ~Exit /\ ~Over
    BY DEF StartWorker, Idle, BeginHandling, Exit, ExitAll, StopAtExit, JoinWorker, Await,
        Over, vars, main
<1>7. HandleAdd
    <2>1. ~HandleDelete /\ ~EndHandling
        BY DEF HandleDelete, EndHandling, main
    <2> QED
        BY <1>3, <1>4, <1>5, <1>6, <2>1 DEF Next, Handle
<1>8. playing' \in Playlists \ listed /\ listed' = listed
    BY <1>7, LoadedChoices
<1> QED
    BY <1>8

\* pl.c, pl_loaded: the program gives up at most when the playlist it resumes has been
\* deleted.
THEOREM GivesUpSafe == Spec => []GivesUpOnlyOnDeleted
<1>1. Init => GivesUpOnlyOnDeleted
    BY DEF Init, GivesUpOnlyOnDeleted
<1> QED
    BY <1>1, GivesUpStep, DeletionInvariant, PTL DEF Spec

\* Together: a playlist may be deleted at any time.
THEOREM ListsSafe == Spec => []ListsAreSafe
<1>1. Spec => []NoUseAfterFree
    BY FreedSafe
<1>2. Spec => []ShownListsAreListed
    BY ShownSafe
<1>3. Spec => []NoJobForDeletedList
    BY CancelledSafe
<1>4. Spec => []GivesUpOnlyOnDeleted
    BY GivesUpSafe
<1> QED
    BY <1>1, <1>2, <1>3, <1>4, PTL DEF ListsAreSafe

-----------------------------------------------------------------------------
(* That the main thread is told of every result, what is left when the program has *)
(* ended, and that the playing track stays in its list.                            *)

\* What the end of the program rests on: the removal of every job is the last thing
\* that changes the queue, and the worker is joined behind it.
Ending ==
    /\ rest = "stop" => mpc \in {"remove", "join", "over"} /\ queue = <<>>
    /\ mpc \in {"join", "over"} => rest = "stop"
    /\ mpc = "over" => wpc = "ended"

\* The step that adds to the results is followed by the one that writes to the pipe,
\* and only a round that finds no result left gives the pipe up.
LEMMA ResultsAreTold == WInv /\ NoStrandedResult /\ [Next]_vars => NoStrandedResult'
<1> SUFFICES ASSUME WInv, NoStrandedResult, [Next]_vars PROVE NoStrandedResult'
    OBVIOUS
<1> USE DEF NoStrandedResult, Alive, channel, main
<1>1. CASE UNCHANGED vars
    BY <1>1 DEF vars
<1>2. CASE WorkerSteps
    <2>1. CASE FindTrack \/ FinishEntries
        <3>1. /\ pipe' = pipe /\ mpc' = mpc /\ wpc = "run"
              /\ wpc' = "notify" \/ (results' = results /\ wpc' = wpc)
            BY <2>1 DEF FindTrack, FinishEntries, AddItem, Running
        <3> QED
            BY <3>1
    <2>2. CASE SendRest \/ FreeDeleteJob
        BY <2>2 DEF SendRest, FreeDeleteJob
    <2>3. CASE AddDone
        BY <2>3 DEF AddDone, Running
    <2>4. CASE Notify
        BY <2>4 DEF Notify
    <2>5. CASE WorkerLoop
        BY <2>5 DEF WorkerLoop, WorkerAtTop, TakeJob, WaitForJob, StopWorker, FinishJob
    <2> QED
        BY <1>2, <2>1, <2>2, <2>3, <2>4, <2>5 DEF WorkerSteps
<1>3. CASE WorkerWakesUp
    BY <1>3 DEF WorkerWakesUp, SpuriousWakeup, RemovalWaits, RemovalEnds
<1>4. CASE Commands
    <2>1. UNCHANGED <<results, pipe, wpc>> /\ mpc = "loop"
        BY <1>4, TakenOut DEF Commands, AddTracks, ImportPlaylist, SelectPlaylist, PlaySelected,
            PlayNext, ClearView, ClearPlaylist, DeletePlaylist, Quit, InMainLoop, Idle
    <2> QED
        BY <2>1
<1>5. CASE Continue
    <2>1. UNCHANGED <<results, pipe, wpc>> /\ mpc = "remove"
        BY <1>5 DEF Continue, ClearedView, LoadView, ClearedPlaylist, ReloadPlaylist,
            ScheduleDelete, Resumes
    <2> QED
        BY <2>1
<1>6. CASE StartWorker \/ BeginHandling \/ EndHandling
    BY <1>6 DEF StartWorker, BeginHandling, EndHandling
<1>7. CASE HandleAdd \/ HandleDelete
    <2>1. mpc' \in {"handle", "bug"}
        BY <1>7, LoadedChoices DEF HandleDelete
    <2> QED
        BY <2>1
<1>8. CASE ExitAll
    <2>1. /\ results' = results \o ReportsOfRemoved /\ mpc = "loop" /\ wpc' = wpc
          /\ pipe' = (pipe \/ ReportsOfRemoved # <<>>)
        BY <1>8 DEF ExitAll
    <2>2. results \in Seq(AddResults \union DeleteResults)
        BY DEF WInv, Types, ResultType
    <2>3. ReportsOfRemoved = <<>> => results' = results
        BY <2>1, <2>2
    <2> QED
        BY <2>1, <2>3
<1>9. CASE StopAtExit \/ JoinWorker \/ Over
    <2>1. /\ UNCHANGED <<results, pipe, wpc>>
          /\ mpc \in {"remove", "join"} \/ mpc' = mpc
        BY <1>9 DEF StopAtExit, JoinWorker, Over, Resumes, vars
    <2> QED
        BY <2>1
<1> QED
    BY <1>1, <1>2, <1>3, <1>4, <1>5, <1>6, <1>7, <1>8, <1>9 DEF Next, Handle, Exit

\* After job_exit has removed the jobs, nothing starts another.
LEMMA EndingStep == WInv /\ Ending /\ [Next]_vars => Ending'
<1> SUFFICES ASSUME WInv, Ending, [Next]_vars PROVE Ending'
    OBVIOUS
<1> USE DEF Ending, main
<1>1. CASE UNCHANGED vars
    BY <1>1 DEF vars, worker
<1>2. CASE WorkerSteps
    <2>1. CASE FindTrack \/ FinishEntries
        <3>1. UNCHANGED <<queue, rest, mpc>> /\ wpc = "run"
            BY <2>1 DEF FindTrack, FinishEntries, Running, worker
        <3> QED
            BY <3>1
    <2>2. CASE SendRest \/ FreeDeleteJob \/ AddDone \/ Notify
        <3>1. UNCHANGED <<queue, rest, mpc>> /\ wpc # "ended"
            BY <2>2 DEF SendRest, FreeDeleteJob, AddDone, Notify, Running, worker
        <3> QED
            BY <3>1
    <2>3. CASE WorkerLoop
        <3>1. /\ UNCHANGED <<rest, mpc>> /\ wpc # "ended"
              /\ queue' = queue \/ queue # <<>>
            BY <2>3 DEF WorkerLoop, WorkerAtTop, TakeJob, WaitForJob, StopWorker, FinishJob, worker
        <3> QED
            BY <3>1
    <2> QED
        BY <1>2, <2>1, <2>2, <2>3 DEF WorkerSteps
<1>3. CASE WorkerWakesUp
    BY <1>3 DEF WorkerWakesUp, SpuriousWakeup, RemovalWaits, RemovalEnds
<1>4. CASE Commands
    <2>1. mpc = "loop" /\ rest # "stop"
        BY <1>4, TakenOut DEF Commands, AddTracks, ImportPlaylist, SelectPlaylist, PlaySelected,
            PlayNext, ClearView, ClearPlaylist, DeletePlaylist, Quit, InMainLoop, Idle
    <2>2. rest' # "stop" /\ mpc' \in {"loop", "remove"}
        BY <1>4, <2>1, TakenOut DEF Commands, AddTracks, ImportPlaylist, SelectPlaylist, PlaySelected,
            PlayNext, ClearView, ClearPlaylist, DeletePlaylist, Quit, Await
    <2> QED
        BY <2>2
<1>5. CASE Continue
    <2>1. Back
        BY <1>5 DEF Continue, ClearedView, LoadView, ClearedPlaylist, ReloadPlaylist, ScheduleDelete
    <2> QED
        BY <2>1 DEF Back
<1>6. CASE StartWorker \/ BeginHandling \/ Handle
    <2>1. UNCHANGED rest /\ mpc \in {"loop", "handle"} /\ mpc' \in {"loop", "handle", "bug"}
        BY <1>6, LoadedChoices DEF StartWorker, Idle, BeginHandling, Handle, HandleDelete, EndHandling
    <2> QED
        BY <2>1
<1>7. CASE ExitAll
    <2>1. RemoveJobs(AnyType) /\ rest' = "stop" /\ mpc' = "remove"
        BY <1>7 DEF ExitAll, Await
    <2>2. queue' = <<>>
        BY <2>1, RemovedJobs DEF WInv, Types, QueueType
    <2> QED
        BY <2>1, <2>2
<1>8. CASE StopAtExit
    <2>1. rest = "stop" /\ rest' = rest /\ queue' = queue /\ mpc' = "join"
        BY <1>8 DEF StopAtExit, Resumes, SetState
    <2> QED
        BY <2>1
<1>9. CASE JoinWorker
    BY <1>9 DEF JoinWorker, worker
<1>10. CASE Over
    BY <1>10 DEF Over, vars, worker
<1> QED
    BY <1>1, <1>2, <1>3, <1>4, <1>5, <1>6, <1>7, <1>8, <1>9, <1>10 DEF Next, Exit

\* job_handle and job_exit: no result is left with nobody to be told of it, and when
\* the program has ended, so has the worker, and no job is left.
THEOREM NothingLeft == Spec => []NothingIsLeftBehind
<1>1. Init => NoStrandedResult /\ Ending
    BY DEF Init, WorkerInit, NoStrandedResult, Ending
<1>2. WInv /\ NoStrandedResult /\ Ending => NothingIsLeftBehind
    BY DEF WInv, Control, CancelIsForTheRunningJob, Ending, NothingIsLeftBehind, ExitIsClean
<1> QED
    BY <1>1, <1>2, ResultsAreTold, EndingStep, WorkerInvariant, PTL DEF Spec


-----------------------------------------------------------------------------
(* The playing track.                                                      *)

\* The tracks of the lists, and which list a command clears when it goes on.
Contents ==
    /\ content \in [Lists -> Seq(Tracks)]
    /\ rest \in {"clear", "load"} => target \in Views

\* PlayingTrackIsKept, in the form the steps are about
PlayingKept ==
    ptrack # NoTrack /\ ptrack \notin lost =>
        playing # NoList /\ ptrack \in Range(content[playing])

\* Turning a sequence round keeps its length.
LEMMA ReverseKeeps ==
    ASSUME NEW S, NEW s \in Seq(S)
    PROVE  Reverse(s) \in Seq(S) /\ Len(Reverse(s)) = Len(s)
<1>1. Len(s) \in Nat /\ DOMAIN s = 1 .. Len(s)
    OBVIOUS
<1>2. \A i \in 1 .. Len(s) : (Len(s) - i) + 1 \in 1 .. Len(s)
    BY <1>1
<1>3. \A i \in 1 .. Len(s) : s[(Len(s) - i) + 1] \in S
    BY <1>1, <1>2
<1>4. Reverse(s) = [i \in 1 .. Len(s) |-> s[(Len(s) - i) + 1]]
    BY DEF Reverse
<1> QED
    BY <1>1, <1>3, <1>4

\* Nothing leaves a sequence when something is added at either end.
LEMMA JoinedKeeps ==
    ASSUME NEW S, NEW s \in Seq(S), NEW t \in Seq(S)
    PROVE  s \o t \in Seq(S) /\ Range(s) \union Range(t) \subseteq Range(s \o t)
<1> DEFINE u == s \o t
<1>1. /\ u \in Seq(S) /\ DOMAIN u = 1 .. Len(s) + Len(t)
      /\ Len(s) \in Nat /\ Len(t) \in Nat
      /\ DOMAIN s = 1 .. Len(s) /\ DOMAIN t = 1 .. Len(t)
      /\ \A k \in 1 .. Len(s) : u[k] = s[k]
      /\ \A k \in 1 .. Len(t) : u[Len(s) + k] = t[k]
    OBVIOUS
<1> HIDE DEF u
<1>2. \A k \in DOMAIN s : k \in DOMAIN u /\ u[k] = s[k]
    BY <1>1
<1>3. \A k \in DOMAIN t : Len(s) + k \in DOMAIN u /\ u[Len(s) + k] = t[k]
    BY <1>1
<1>4. Range(s) \subseteq Range(u) /\ Range(t) \subseteq Range(u)
    BY <1>2, <1>3 DEF Range
<1> QED
    BY <1>1, <1>4 DEF u

\* The tracks of a handled result go to its list, at one end; nothing leaves a list.
LEMMA HandleAddContents ==
    ASSUME WInv, Contents, HandleAdd
    PROVE  /\ content' \in [Lists -> Seq(Tracks)]
           /\ \A l \in Lists : Range(content[l]) \subseteq Range(content'[l])
<1> DEFINE res == Head(results)
<1> DEFINE kept == {i \in DOMAIN res.items : res.items[i] # EndOfLoad}
<1> DEFINE tracks == AtIndices(res.items, kept)
<1>1. res \in AddResults \union DeleteResults /\ res.kind = "ADD"
    BY DEF HandleAdd, WInv, Types, ResultType
<1>2. res \in AddResults
    BY <1>1 DEF DeleteResults
<1>3. res.list \in Lists /\ res.items \in Seq(Tracks \union {EndOfLoad}) /\ res.front \in BOOLEAN
    BY <1>2 DEF AddResults
<1>4. content' = WithTracks(res.list, tracks, res.front)
    BY DEF HandleAdd
<1>5. kept \in SUBSET DOMAIN res.items /\ \A i \in kept : res.items[i] \in Tracks
    BY <1>3
<1> HIDE DEF kept, res
<1>6. /\ tracks \in Seq(Tracks \union {EndOfLoad})
      /\ \A k \in DOMAIN tracks : \E i \in kept : tracks[k] = res.items[i]
    BY <1>3, <1>5, AtIndicesKeeps
<1> HIDE DEF tracks
<1>7. \A k \in DOMAIN tracks : tracks[k] \in Tracks
    BY <1>5, <1>6
<1>8. tracks \in Seq(Tracks)
    BY <1>6, <1>7
<1>9. Reverse(tracks) \in Seq(Tracks)
    BY <1>8, ReverseKeeps
<1> DEFINE new == IF res.front THEN Reverse(tracks) \o content[res.list] ELSE content[res.list] \o tracks
<1>10. content[res.list] \in Seq(Tracks)
    BY <1>3 DEF Contents
<1>11. new \in Seq(Tracks) /\ Range(content[res.list]) \subseteq Range(new)
    BY <1>8, <1>9, <1>10, JoinedKeeps
<1>12. content' = [content EXCEPT ![res.list] = new]
    BY <1>4 DEF WithTracks
<1> HIDE DEF new
<1> QED
    BY <1>3, <1>11, <1>12 DEF Contents

\* The tracks that are taken out leave their list, and the others stay there as they
\* were; if the playing one is among them, it is lost.
LEMMA TakenTracks ==
    ASSUME WInv, Contents, RemoveSelected \/ LoseFile
    PROVE  \E l \in Lists : \E gone \in SUBSET Range(content[l]) :
              /\ content' \in [Lists -> Seq(Tracks)]
              /\ \A m \in Lists \ {l} : content'[m] = content[m]
              /\ Range(content'[l]) = Range(content[l]) \ gone
              /\ \A k, m \in DOMAIN content'[l] : k < m =>
                    \E i, j \in DOMAIN content[l] :
                       i < j /\ content'[l][k] = content[l][i] /\ content'[l][m] = content[l][j]
              /\ dropped' = dropped \union gone
              /\ lost' = lost \union ({ptrack'} \intersect gone)
<1>1. visible \in Lists /\ listed \subseteq Lists
    BY JobsAssumption DEF WInv, Types, ListType, Lists, Playlists
<1>2. \E l \in Lists : \E gone \in SUBSET Range(content[l]) : TakeOut(l, gone)
    <2>1. CASE RemoveSelected
        <3>1. PICK selected \in Range(content[visible]), marks \in SUBSET Range(content[visible]) :
                 TakeOut(visible, IF marks = {} THEN {selected} ELSE marks)
            BY <2>1, Zenon DEF RemoveSelected
        <3>2. (IF marks = {} THEN {selected} ELSE marks) \in SUBSET Range(content[visible])
            BY <3>1
        <3> QED
            BY <1>1, <3>1, <3>2, Zenon
    <2>2. CASE LoseFile
        <3>1. PICK l \in listed : \E t \in Range(content[l]) : TakeOut(l, {t})
            BY <2>2, Zenon DEF LoseFile
        <3>2. PICK t \in Range(content[l]) : TakeOut(l, {t})
            BY <3>1
        <3>3. {t} \in SUBSET Range(content[l])
            BY <3>2
        <3> QED
            BY <1>1, <3>2, <3>3, Zenon
    <2> QED
        BY <2>1, <2>2
<1>3. PICK l \in Lists : \E gone \in SUBSET Range(content[l]) : TakeOut(l, gone)
    BY <1>2
<1>4. PICK gone \in SUBSET Range(content[l]) : TakeOut(l, gone)
    BY <1>3
<1>5. PICK old : old = content[l]
    OBVIOUS
<1>6. old \in Seq(Tracks) /\ content \in [Lists -> Seq(Tracks)]
    BY <1>5 DEF Contents
<1> DEFINE I == {i \in DOMAIN old : old[i] \notin gone}
<1>7. PICK new : new = AtIndices(old, I)
    OBVIOUS
<1>8. content' = [content EXCEPT ![l] = new]
    BY <1>4, <1>5, <1>7 DEF TakeOut
<1>9. /\ I \in SUBSET DOMAIN old
      /\ \A i \in I : i \in DOMAIN old /\ old[i] \notin gone
      /\ \A i \in DOMAIN old : old[i] \notin gone => i \in I
    OBVIOUS
<1> HIDE DEF I
<1>10. /\ new \in Seq(Tracks)
       /\ \A k \in DOMAIN new : \E i \in I : new[k] = old[i]
       /\ \A k, m \in DOMAIN new :
             k < m => \E i, j \in I : i < j /\ new[k] = old[i] /\ new[m] = old[j]
       /\ \A i \in I : \E k \in DOMAIN new : new[k] = old[i]
    BY <1>6, <1>7, <1>9, AtIndicesKeeps, AtIndicesOrdered
<1>11. Range(new) = Range(old) \ gone
    <2>1. ASSUME NEW x PROVE x \in Range(new) <=> x \in Range(old) /\ x \notin gone
        <3>1. x \in Range(new) <=> \E k \in DOMAIN new : new[k] = x
            BY DEF Range
        <3>2. x \in Range(old) <=> \E i \in DOMAIN old : old[i] = x
            BY DEF Range
        <3> QED
            BY <1>9, <1>10, <3>1, <3>2
    <2> QED
        BY <2>1
<1>12. /\ content' \in [Lists -> Seq(Tracks)]
       /\ content'[l] = new
       /\ \A m \in Lists \ {l} : content'[m] = content[m]
    BY <1>6, <1>8, <1>10
<1>13. \A k, m \in DOMAIN new : k < m =>
           \E i, j \in DOMAIN old : i < j /\ new[k] = old[i] /\ new[m] = old[j]
    BY <1>9, <1>10
<1>14. dropped' = dropped \union gone /\ lost' = lost \union ({ptrack'} \intersect gone)
    BY <1>4, Zenon DEF TakeOut
<1>15. /\ Range(content'[l]) = Range(content[l]) \ gone
       /\ \A k, m \in DOMAIN content'[l] : k < m =>
             \E i, j \in DOMAIN content[l] :
                i < j /\ content'[l][k] = content[l][i] /\ content'[l][m] = content[l][j]
    BY <1>5, <1>11, <1>12, <1>13
<1> QED
    BY <1>12, <1>14, <1>15, Zenon

\* A step that leaves content, rest and target alone, or starts another command,
\* keeps the lists.
LEMMA ContentsStep == WInv /\ Contents /\ [Next]_vars => Contents'
<1> SUFFICES ASSUME WInv, Contents, [Next]_vars PROVE Contents'
    OBVIOUS
<1> USE DEF main
<1>0. /\ visible \in Lists /\ Views \subseteq Lists
      /\ results \in Seq(AddResults \union DeleteResults)
    BY DEF WInv, Types, ListType, ResultType, Lists
<1>1. \A l \in Lists : Emptied(l) \in [Lists -> Seq(Tracks)]
    BY DEF Contents, Emptied
<1>2. CASE UNCHANGED vars
    BY <1>2 DEF vars, Contents
<1>3. CASE WorkerSteps \/ WorkerWakesUp \/ StartWorker \/ BeginHandling \/ EndHandling
    <2>1. UNCHANGED <<content, rest, target>>
        BY <1>3 DEF WorkerSteps, WorkerWakesUp, FindTrack, FinishEntries, SendRest, AddDone,
            FreeDeleteJob, Notify, WorkerLoop, StartWorker, BeginHandling, EndHandling
    <2> QED
        BY <2>1 DEF Contents
<1>4. CASE AddTracks \/ ImportPlaylist \/ SelectPlaylist \/ PlaySelected \/ PlayNext \/ Quit
    <2>1. UNCHANGED <<content, rest, target>>
        BY <1>4 DEF AddTracks, ImportPlaylist, SelectPlaylist, PlaySelected, PlayNext, Quit
    <2> QED
        BY <2>1 DEF Contents
<1>5. CASE ClearView
    <2>1. content' = content
        BY <1>5 DEF ClearView
    <2>2. PICK l \in Views : Await("clear", l) \/ (l = Library /\ Await("load", l))
        BY <1>5 DEF ClearView
    <2> QED
        BY <2>1, <2>2 DEF Await, Contents
<1>6. CASE ClearPlaylist
    <2>1. content' = Emptied(visible) /\ rest' \in {"nothing", "reload"}
        BY <1>6 DEF ClearPlaylist, Clear, Await
    <2> QED
        BY <1>0, <1>1, <2>1 DEF Contents
<1>7. CASE DeletePlaylist
    <2>1. content' = content /\ rest' = "delete"
        BY <1>7 DEF DeletePlaylist, Await
    <2> QED
        BY <2>1 DEF Contents
<1>8. CASE Continue
    <2>1. Back
        BY <1>8 DEF Continue, ClearedView, LoadView, ClearedPlaylist, ReloadPlaylist, ScheduleDelete
    <2>2. content' = content \/ (rest \in {"clear", "load"} /\ content' = Emptied(target))
        BY <1>8 DEF Continue, ClearedView, LoadView, ClearedPlaylist, ReloadPlaylist,
            ScheduleDelete, Resumes, Clear
    <2>3. content' \in [Lists -> Seq(Tracks)]
        BY <1>0, <1>1, <2>2 DEF Contents
    <2> QED
        BY <2>1, <2>3 DEF Back, Contents
<1>9. CASE HandleAdd
    <2>1. UNCHANGED <<rest, target>>
        BY <1>9 DEF HandleAdd
    <2> QED
        BY <1>9, <2>1, HandleAddContents DEF Contents
<1>10. CASE HandleDelete
    <2>1. Head(results) \in AddResults \union DeleteResults
        BY <1>0, <1>10 DEF HandleDelete
    <2>2. Head(results).list \in Lists
        BY <2>1 DEF AddResults, DeleteResults, Lists
    <2>3. UNCHANGED <<rest, target>> /\ content' = Emptied(Head(results).list)
        BY <1>10 DEF HandleDelete
    <2> QED
        BY <1>1, <2>2, <2>3 DEF Contents
<1>11. CASE ExitAll
    BY <1>11 DEF ExitAll, Await, Contents
<1>12. CASE StopAtExit \/ JoinWorker \/ Over
    <2>1. UNCHANGED <<content, rest, target>>
        BY <1>12 DEF StopAtExit, JoinWorker, Over, vars
    <2> QED
        BY <2>1 DEF Contents
<1>13. CASE RemoveSelected \/ LoseFile
    <2>1. content' \in [Lists -> Seq(Tracks)]
        BY <1>13, TakenTracks
    <2>2. UNCHANGED <<rest, target>>
        BY <1>13, TakenOut
    <2> QED
        BY <2>1, <2>2 DEF Contents
<1> QED
    BY <1>2, <1>3, <1>4, <1>5, <1>6, <1>7, <1>8, <1>9, <1>10, <1>11, <1>12, <1>13
    DEF Next, Commands, Handle, Exit


\* Nothing takes the playing track out of the playing playlist without forgetting it or
\* losing it.
LEMMA PlayingStep ==
    WInv /\ DInv /\ Contents /\ PlayingKept /\ [Next]_vars => PlayingKept'
<1> SUFFICES ASSUME WInv, DInv, Contents, PlayingKept, [Next]_vars,
                    ptrack' # NoTrack, ptrack' \notin lost'
             PROVE  playing' # NoList /\ ptrack' \in Range(content'[playing'])
    BY DEF PlayingKept
<1> USE DEF playlists
<1>0. /\ Shown /\ visible \in Playlists /\ playing \in Playlists \union {NoList}
      /\ listed \subseteq Playlists
      /\ results \in Seq(AddResults \union DeleteResults)
    BY JobsAssumption DEF WInv, DInv, Types, ListType, ResultType, Playlists
<1>1. NoList \notin Lists /\ Playlists \subseteq Lists /\ Views \intersect Playlists = {}
    BY JobsAssumption DEF Lists, Views, Playlists
<1>2. ASSUME UNCHANGED <<playing, ptrack, lost>>
      PROVE  playing # NoList /\ playing \in Lists /\ ptrack \in Range(content[playing])
    BY <1>0, <1>1, <1>2 DEF PlayingKept
\* emptying another list does not matter
<1>3. ASSUME NEW l \in Lists, playing \in Lists, l # playing
      PROVE  Emptied(l)[playing] = content[playing]
    BY <1>3 DEF Emptied, Contents
<1>4. CASE UNCHANGED vars
    BY <1>2, <1>4 DEF vars
<1>5. CASE WorkerSteps \/ WorkerWakesUp \/ StartWorker \/ BeginHandling \/ EndHandling
    <2>1. UNCHANGED <<content, playing, ptrack, lost>>
        BY <1>5 DEF WorkerSteps, WorkerWakesUp, FindTrack, FinishEntries, SendRest, AddDone,
            FreeDeleteJob, Notify, WorkerLoop, StartWorker, BeginHandling, EndHandling
    <2> QED
        BY <1>2, <2>1
<1>6. CASE AddTracks \/ ImportPlaylist \/ SelectPlaylist \/ Quit \/ ClearView
    <2>1. UNCHANGED <<content, playing, ptrack, lost>>
        BY <1>6 DEF AddTracks, ImportPlaylist, SelectPlaylist, Quit, ClearView
    <2> QED
        BY <1>2, <2>1
<1>7. CASE PlaySelected
    <2>1. ptrack' \in Range(content[visible]) /\ playing' = visible /\ content' = content
        BY <1>7 DEF PlaySelected
    <2> QED
        BY <1>0, <1>1, <2>1
<1>8. CASE PlayNext
    <2> DEFINE l == IF playing = NoList THEN visible ELSE playing
    <2>1. /\ content' = content
          /\ \/ ptrack' \in Range(content[l]) /\ playing' = l
             \/ ptrack = NoTrack /\ ptrack' = ptrack
        BY <1>8 DEF PlayNext
    <2>2. l # NoList
        BY <1>0, <1>1
    <2> QED
        BY <2>1, <2>2
<1>9. CASE ClearPlaylist
    <2>1. /\ ptrack' = IF playing = visible THEN NoTrack ELSE ptrack
          /\ UNCHANGED <<playing, lost>> /\ content' = Emptied(visible)
        BY <1>9 DEF ClearPlaylist, Clear
    <2>2. ptrack' = ptrack /\ playing # visible
        BY <2>1
    <2> QED
        BY <1>0, <1>1, <1>2, <1>3, <2>1, <2>2
<1>10. CASE DeletePlaylist
    <2>1. PICK p \in listed : /\ playing' = Replaced(playing, p, NoList)
                              /\ ptrack' = IF playing = p THEN NoTrack ELSE ptrack
                              /\ UNCHANGED <<content, lost>>
        BY <1>10 DEF DeletePlaylist
    <2>2. UNCHANGED <<playing, ptrack, lost>>
        BY <2>1 DEF Replaced
    <2> QED
        BY <1>2, <2>1, <2>2
<1>11. CASE Continue
    <2>1. /\ UNCHANGED <<playing, ptrack, lost>>
          /\ content' = content \/ (rest \in {"clear", "load"} /\ content' = Emptied(target))
        BY <1>11 DEF Continue, ClearedView, LoadView, ClearedPlaylist, ReloadPlaylist,
            ScheduleDelete, Resumes, Clear
    <2>2. CASE rest \in {"clear", "load"} /\ content' = Emptied(target)
        <3>1. target \in Views /\ target \in Lists
            BY <2>2 DEF Contents, Lists
        <3>2. target # playing
            BY <1>0, <1>1, <1>2, <2>1, <3>1
        <3> QED
            BY <1>2, <1>3, <2>1, <2>2, <3>1, <3>2
    <2> QED
        BY <1>2, <2>1, <2>2
<1>12. CASE HandleAdd
    <2> DEFINE loaded == Head(results).list
    <2>1. /\ lost' = lost
          /\ \/ UNCHANGED <<playing, ptrack>>
             \/ loaded \in Playlists /\ ptrack' \in Range(content'[loaded]) /\ playing' = loaded
        BY <1>12, LoadedChoices
    <2> HIDE DEF loaded
    <2>2. CASE UNCHANGED <<playing, ptrack>>
        BY <1>2, <1>12, <2>1, <2>2, HandleAddContents
    <2>3. CASE loaded \in Playlists /\ ptrack' \in Range(content'[loaded]) /\ playing' = loaded
        BY <1>1, <2>3
    <2> QED
        BY <2>1, <2>2, <2>3
<1>13. CASE HandleDelete
    <2>1. /\ results # <<>> /\ Head(results).kind = "DELETE"
          /\ content' = Emptied(Head(results).list) /\ UNCHANGED <<playing, ptrack, lost>>
          /\ mpc = "handle"
        BY <1>13 DEF HandleDelete
    <2>2. Head(results) \in AddResults \union DeleteResults
        BY <1>0, <2>1
    <2>3. Head(results).list \in Lists
        BY <2>2 DEF AddResults, DeleteResults, Lists
    <2>4. 1 \in DOMAIN results /\ Head(results) = results[1]
        BY <1>0, <2>1
    <2>5. Head(results).list \in Gone
        BY <2>1, <2>4 DEF DInv, Stages, Reported, Deletes
    <2>6. Head(results).list \notin listed
        BY <2>5 DEF Gone
    <2>7. Head(results).list # playing
        BY <1>0, <1>2, <2>1, <2>6 DEF Shown
    <2> QED
        BY <1>2, <1>3, <2>1, <2>3, <2>7
<1>14. CASE Exit \/ Over
    <2>1. UNCHANGED <<content, playing, ptrack, lost>>
        BY <1>14 DEF Exit, ExitAll, StopAtExit, JoinWorker, Over, vars
    <2> QED
        BY <1>2, <2>1
<1>15. CASE RemoveSelected \/ LoseFile
    <2>1. playing' = playing /\ (ptrack' = NoTrack \/ ptrack' = ptrack)
        BY <1>15, TakenOut
    <2>2. PICK l \in Lists : \E gone \in SUBSET Range(content[l]) :
             /\ \A m \in Lists \ {l} : content'[m] = content[m]
             /\ Range(content'[l]) = Range(content[l]) \ gone
             /\ lost' = lost \union ({ptrack'} \intersect gone)
        BY <1>15, TakenTracks
    <2>3. PICK gone \in SUBSET Range(content[l]) :
             /\ \A m \in Lists \ {l} : content'[m] = content[m]
             /\ Range(content'[l]) = Range(content[l]) \ gone
             /\ lost' = lost \union ({ptrack'} \intersect gone)
        BY <2>2
    <2>4. ptrack' = ptrack /\ ptrack \notin lost /\ ptrack \notin gone
        BY <2>1, <2>3
    <2>5. playing # NoList /\ playing \in Lists /\ ptrack \in Range(content[playing])
        BY <1>0, <1>1, <2>4 DEF PlayingKept
    <2> QED
        BY <2>1, <2>3, <2>4, <2>5
<1> QED
    BY <1>4, <1>5, <1>6, <1>7, <1>8, <1>9, <1>10, <1>11, <1>12, <1>13, <1>14, <1>15
    DEF Next, Commands, Handle

\* pl.c, pl_playing_track: as long as it was not taken out by itself, the playing track
\* is in the playing playlist, whatever is cleared, reloaded, deleted, freed or resumed
\* while jobs add to it.
THEOREM PlayingSafe == Spec => []PlayingTrackIsKept
<1>1. Init => Contents /\ PlayingKept
    <2> SUFFICES ASSUME Init PROVE Contents /\ PlayingKept
        OBVIOUS
    <2>1. content = [l \in Lists |-> <<>>] /\ rest = "nothing" /\ ptrack = NoTrack
        BY DEF Init
    <2>2. <<>> \in Seq(Tracks)
        OBVIOUS
    <2> QED
        BY <2>1, <2>2 DEF Contents, PlayingKept
<1>2. PlayingKept => PlayingTrackIsKept
    BY DEF PlayingKept, PlayingTrackIsKept, PlayingTrackIsInItsList
<1> QED
    BY <1>1, <1>2, ContentsStep, PlayingStep, DeletionInvariant, PTL DEF Spec
=============================================================================
