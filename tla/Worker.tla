------------------------------- MODULE Worker -------------------------------
(***************************************************************************)
(* common/worker.c: a queue of jobs, the thread that runs them, and their  *)
(* removal by the main thread.  worker_mutex guards everything but the     *)
(* run of a job, so each critical section is one action here.  A job that  *)
(* runs looks at cancel without the mutex.                                 *)
(*                                                                         *)
(* What a job does is left to the module that extends this one: it takes   *)
(* the thread from "run" to "done", by steps of its own.  The one condition*)
(* variable serves both threads: the worker waits on it for a job, the     *)
(* main thread for the end of a job it cancelled.                          *)
(***************************************************************************)
EXTENDS Integers, SequencesExt, FiniteSets

CONSTANT NoJob  \* cur_job == NULL

VARIABLES
    queue,     \* worker_job_head
    cur,       \* cur_job
    cancel,    \* cancel_current
    state,     \* PAUSED, RUNNING, STOPPED
    waiting,   \* the threads in pthread_cond_wait(&worker_cond)
    wpc,       \* the worker: top (of its loop), run, notify, done, ended
    removing   \* the main thread is in the loop of worker_remove_jobs_by_cb

worker == <<queue, cur, cancel, state, waiting, removing>>

WorkerInit ==
    /\ queue = <<>> /\ cur = NoJob
    /\ cancel = FALSE /\ state = "PAUSED"
    /\ waiting = {}
    /\ wpc = "top" /\ removing = FALSE

\* faulty: the signal is forgotten
SignalNobody == waiting' = waiting

\* pthread_cond_signal wakes one waiter if there is one
Signal ==
    IF waiting = {} THEN waiting' = {}
                    ELSE \E t \in waiting : waiting' = waiting \ {t}

-----------------------------------------------------------------------------
(* The worker thread. *)

WorkerAtTop == wpc = "top" /\ "worker" \notin waiting

TakeJob ==
    /\ WorkerAtTop
    /\ state = "RUNNING" /\ queue # <<>>
    /\ cur' = Head(queue) /\ queue' = Tail(queue)
    /\ wpc' = "run"
    /\ UNCHANGED <<cancel, state, waiting, removing>>

WaitForJob ==
    /\ WorkerAtTop
    /\ state # "STOPPED"
    /\ state = "RUNNING" => queue = <<>>
    /\ waiting' = waiting \union {"worker"}
    /\ UNCHANGED <<queue, cur, cancel, state, wpc, removing>>

StopWorker ==
    /\ WorkerAtTop
    /\ state = "STOPPED"
    /\ wpc' = "ended"
    /\ UNCHANGED worker

\* faulty: the flag stays up
FinishJobCancelling ==
    /\ wpc = "done"
    /\ cur' = NoJob
    /\ IF cancel THEN Signal ELSE UNCHANGED waiting
    /\ wpc' = "top"
    /\ UNCHANGED <<queue, cancel, state, removing>>

\* The job has run: it is freed, and a main thread that waits for it is woken.
FinishJob ==
    /\ wpc = "done"
    /\ cur' = NoJob
    /\ cancel' = FALSE
    /\ IF cancel THEN Signal ELSE UNCHANGED waiting
    /\ wpc' = "top"
    /\ UNCHANGED <<queue, state, removing>>

-----------------------------------------------------------------------------
(* Calls of the main thread. *)

\* faulty: worker_set_state does not signal
SetStateQuietly(s) ==
    /\ state' = s
    /\ UNCHANGED <<queue, cur, cancel, waiting, removing>>

SetState(s) ==
    /\ state' = s
    /\ Signal
    /\ UNCHANGED <<queue, cur, cancel, removing>>

AddJob(job) ==
    /\ queue' = Append(queue, job)
    /\ Signal
    /\ UNCHANGED <<cur, cancel, state, removing>>

\* The elements of q at the indices I, in order (SelectSeq without recursion)
Rank(I, i) == Cardinality({k \in I : k <= i})
AtIndices(q, I) == [k \in 1 .. Cardinality(I) |-> q[CHOOSE i \in I : Rank(I, i) = k]]

Indices(Jobs) == {i \in DOMAIN queue : queue[i] \in Jobs}

\* Jobs is the set of the jobs that match: the queued ones are dropped, and if the
\* running job is one of them it is told to stop and the main thread waits.
RemoveJobs(Jobs) ==
    /\ queue' = AtIndices(queue, DOMAIN queue \ Indices(Jobs))
    /\ IF cur # NoJob /\ cur \in Jobs
       THEN cancel' = TRUE /\ removing' = TRUE /\ waiting' = waiting \union {"main"}
       ELSE UNCHANGED <<cancel, removing, waiting>>
    /\ UNCHANGED <<cur, state>>

\* Woken up: the job may not have ended yet.
RemovalWaits ==
    /\ removing /\ "main" \notin waiting
    /\ cancel
    /\ waiting' = waiting \union {"main"}
    /\ UNCHANGED <<queue, cur, cancel, state, removing, wpc>>

RemovalEnds ==
    /\ removing /\ "main" \notin waiting
    /\ ~cancel
    /\ removing' = FALSE
    /\ UNCHANGED <<queue, cur, cancel, state, waiting, wpc>>

HasJob(Jobs) ==
    \/ Indices(Jobs) # {}
    \/ cur # NoJob /\ cur \in Jobs

SpuriousWakeup ==
    /\ \E t \in waiting : waiting' = waiting \ {t}
    /\ UNCHANGED <<queue, cur, cancel, state, removing, wpc>>

-----------------------------------------------------------------------------
(* Properties. *)

\* worker.c, cancel_current: the flag is up exactly while the main thread waits
\* for the running job, so it can neither cut short the next job nor be left
\* over from a job that ended by itself.
CancelIsForTheRunningJob ==
    /\ cancel => removing /\ cur # NoJob
    /\ cur = NoJob <=> wpc \in {"top", "ended"}

\* worker.c, the waits on worker_cond: a thread sleeps only while it has nothing
\* to do.  Both threads share the condition variable and pthread_cond_signal
\* wakes one of them, so the right one must be the only one there.
NoSleepOverWork ==
    /\ "worker" \in waiting =>
          /\ state # "STOPPED"
          /\ state = "RUNNING" => queue = <<>>
    /\ "main" \in waiting => cancel
=============================================================================
