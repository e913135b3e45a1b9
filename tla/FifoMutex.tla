------------------------------ MODULE FifoMutex ------------------------------
(***************************************************************************)
(* struct fifo_mutex of common/locking.c: a mutex that is given to those    *)
(* who wait for it in the order in which they came. It protects the track   *)
(* cache, whose long scan yields it between any two tracks.                 *)
(*                                                                         *)
(* Waiters form a list: tail is exchanged atomically, the one before is     *)
(* linked to the new one by a second, later store; head is the next one in  *)
(* line, known only to those that hold the inner mutex. A waiter's node is  *)
(* on the stack of its thread. Each access to tail, next, head and the      *)
(* inner mutex that another thread can see is a step of its own; the        *)
(* exchange and the compare-exchange of tail are atomic and of one variable,*)
(* which makes their relaxed ordering as good as any.                       *)
(***************************************************************************)
EXTENDS Integers, Sequences

CONSTANTS Thread, NoThread

ASSUME ThreadAssumption == NoThread \notin Thread

VARIABLES
    tail,   \* fifo->tail: the thread of the last node, or NoThread
    head,   \* fifo->head
    next,   \* the next field of the node of every thread
    mutex,  \* the owner of fifo->mutex
    old,    \* old_tail of every thread
    pc,     \* where every thread is
    asked   \* history: the threads that wait, in the order of their exchanges

vars == <<tail, head, next, mutex, old, pc, asked>>

Places == {"out",       \* outside
           "again",     \* fifo_mutex_yield gave the lock back and asks for it again
           "link",      \* fifo_mutex_lock: before the store into old_tail->next
           "lock",      \* before termus_mutex_lock
           "check",     \* has the inner mutex: is head me?
           "sleep",     \* in pthread_cond_wait
           "woken",     \* signalled, and about to take the inner mutex again
           "dequeue",   \* before the compare-exchange of tail
           "spin",      \* waits for the one behind to store into self.next
           "in"}        \* has the lock

Init ==
    /\ tail = NoThread /\ head = NoThread /\ mutex = NoThread
    /\ next = [t \in Thread |-> NoThread]
    /\ old = [t \in Thread |-> NoThread]
    /\ pc = [t \in Thread |-> "out"]
    /\ asked = <<>>

Goto(t, place) == pc' = [pc EXCEPT ![t] = place]

\* the sequence without the first t in it
Without(s, t) ==
    LET at == CHOOSE i \in DOMAIN s : s[i] = t /\ \A j \in 1 .. i - 1 : s[j] # t
    IN  SubSeq(s, 1, at - 1) \o SubSeq(s, at + 1, Len(s))

\* atomic_exchange(&fifo->tail, &self) with a fresh node
Exchange(t) ==
    /\ pc[t] \in {"out", "again"}
    /\ tail' = t /\ old' = [old EXCEPT ![t] = tail]
    /\ next' = [next EXCEPT ![t] = NoThread]
    /\ asked' = Append(asked, t)
    /\ Goto(t, IF tail = NoThread THEN "lock" ELSE "link")
    /\ UNCHANGED <<head, mutex>>

\* atomic_store(&old_tail->next, &self)
Link(t) ==
    /\ pc[t] = "link"
    /\ next' = [next EXCEPT ![old[t]] = t]
    /\ Goto(t, "lock")
    /\ UNCHANGED <<tail, head, mutex, old, asked>>

\* termus_mutex_lock, also the one inside pthread_cond_wait
Lock(t) ==
    /\ pc[t] \in {"lock", "woken"} /\ mutex = NoThread
    /\ mutex' = t
    /\ Goto(t, IF old[t] = NoThread THEN "dequeue" ELSE "check")
    /\ UNCHANGED <<tail, head, next, old, asked>>

\* pthread_cond_wait may return without a signal
WakeUp(t) ==
    /\ pc[t] = "sleep" /\ Goto(t, "woken")
    /\ UNCHANGED <<tail, head, next, mutex, old, asked>>

\* faulty: who is awake is taken to be the head
CheckNot(t) ==
    /\ pc[t] = "check" /\ Goto(t, "dequeue")
    /\ UNCHANGED <<tail, head, next, mutex, old, asked>>

\* while (fifo->head != &self) pthread_cond_wait
Check(t) ==
    /\ pc[t] = "check"
    /\ IF head = t THEN Goto(t, "dequeue") /\ UNCHANGED mutex
       ELSE Goto(t, "sleep") /\ mutex' = NoThread
    /\ UNCHANGED <<tail, head, next, old, asked>>

\* faulty: the one behind is not waited for
DequeueAtOnce(t) ==
    /\ pc[t] = "dequeue"
    /\ tail' = (IF tail = t THEN NoThread ELSE tail)
    /\ head' = next[t]
    /\ Goto(t, "in") /\ asked' = Without(asked, t)
    /\ UNCHANGED <<next, mutex, old>>

\* the compare-exchange: if nobody came behind, there is no tail any more
Dequeue(t) ==
    /\ pc[t] = "dequeue"
    /\ IF tail = t
       THEN /\ tail' = NoThread /\ head' = NoThread
            /\ Goto(t, "in") /\ asked' = Without(asked, t)
       ELSE Goto(t, "spin") /\ UNCHANGED <<tail, head, asked>>
    /\ UNCHANGED <<next, mutex, old>>

Spin(t) ==
    /\ pc[t] = "spin" /\ next[t] # NoThread
    /\ head' = next[t] /\ Goto(t, "in") /\ asked' = Without(asked, t)
    /\ UNCHANGED <<tail, next, mutex, old>>

\* faulty: nobody is woken
SignalledNobody == pc

\* pthread_cond_signal(&fifo->head->cond): nobody hears it who does not sleep
Signalled == IF head # NoThread /\ pc[head] = "sleep"
             THEN [pc EXCEPT ![head] = "woken"] ELSE pc

\* fifo_mutex_unlock
Unlock(t) ==
    /\ pc[t] = "in"
    /\ mutex' = NoThread
    /\ pc' = [Signalled EXCEPT ![t] = "out"]
    /\ UNCHANGED <<tail, head, next, old, asked>>

\* fifo_mutex_yield with somebody waiting; its lock begins at Exchange
Yield(t) ==
    /\ pc[t] = "in" /\ (head # NoThread \/ tail # NoThread)
    /\ mutex' = NoThread
    /\ pc' = [Signalled EXCEPT ![t] = "again"]
    /\ UNCHANGED <<tail, head, next, old, asked>>

\* what a thread does once it has asked for the lock
Proceed(t) ==
    \/ Link(t) \/ Lock(t) \/ Check(t) \/ Dequeue(t) \/ Spin(t) \/ Unlock(t) \/ Yield(t)

Next == \E t \in Thread : Exchange(t) \/ WakeUp(t) \/ Proceed(t)

\* every thread runs, a thread that has the lock gives it back or yields it, and
\* wakeups without a signal do not keep the inner mutex from a thread for ever
Fairness ==
    \A t \in Thread : /\ WF_vars(Proceed(t)) /\ SF_vars(Lock(t))
                      /\ WF_vars(pc[t] = "again" /\ Exchange(t))

Spec == Init /\ [][Next]_vars
FairSpec == Spec /\ Fairness

-----------------------------------------------------------------------------
(* Properties. *)

Waiting == {"link", "lock", "check", "sleep", "woken", "dequeue", "spin"}
HasMutex == {"check", "dequeue", "spin", "in"}

\* One type invariant.
TypeOK ==
    /\ {tail, head, mutex} \subseteq Thread \cup {NoThread}
    /\ next \in [Thread -> Thread \cup {NoThread}]
    /\ old \in [Thread -> Thread \cup {NoThread}]
    /\ pc \in [Thread -> Places]
    /\ asked \in Seq(Thread)

\* A node is used only while its thread is in fifo_mutex_lock, where it lives:
\* the stores into old_tail->next, the signal to head and the comparison of
\* tail never touch a node of a thread that has the lock or has left.
NodesAreAlive ==
    /\ \A t \in Thread : pc[t] = "link" => pc[old[t]] \in Waiting
    /\ \A t \in {head, tail} \ {NoThread} : pc[t] \in Waiting

\* Nobody sleeps while it is his turn: the head is woken, or will find out, or
\* somebody has the lock who is going to wake it.
NoSleeperForgotten ==
    \A t \in Thread :
        pc[t] = "sleep" /\ mutex = NoThread
        => \E u \in Thread \ {t} : pc[u] \in {"link", "lock", "woken"}

\* No access to the node of a thread that has left, and whoever sleeps at the head
\* of the queue is woken.
WaitersAreSafe == TypeOK /\ NodesAreAlive /\ NoSleeperForgotten

\* The lock is held by one thread at a time and goes round in the order of the
\* exchanges, whatever fifo_mutex_yield does in between, see FifoLock.
FIFO == INSTANCE FifoLock WITH inside <- {t \in Thread : pc[t] = "in"}
ImplementsFifoLock == FIFO!Safety

\* Whoever asks for the lock gets it, and the lock never rests while somebody waits.
LockIsGiven ==
    /\ FIFO!Spec
    /\ \A t \in Thread : (pc[t] \in Waiting \cup {"again"}) ~> (pc[t] = "in")
=============================================================================
