-------------------------- MODULE FifoMutexProofs --------------------------
(***************************************************************************)
(* Proofs about FifoMutex, for any set of threads.                          *)
(*                                                                         *)
(* The waiters form a queue, asked, of which the code keeps only a part:    *)
(* the last one (tail), who comes behind whom once that is stored (next),   *)
(* who came before (old, in the thread itself), and the first one (head)    *)
(* once the one before has left. Queue says that these parts describe the   *)
(* queue, Turn who may act at its front, and FrontIsAwake why nobody is     *)
(* forgotten.                                                               *)
(***************************************************************************)
EXTENDS FifoMutex, TLAPS

Front == asked[1]

\* Those that wait are in the queue, each once.
Members ==
    /\ \A t \in Thread : pc[t] \in Waiting <=> \E i \in DOMAIN asked : asked[i] = t
    /\ \A i, j \in DOMAIN asked : asked[i] = asked[j] => i = j

\* What the fields say of the queue. A waiter behind another has its predecessor in
\* old; its predecessor has it in next from the second store on.
Queue ==
    /\ tail = IF asked = <<>> THEN NoThread ELSE asked[Len(asked)]
    /\ head # NoThread => asked # <<>> /\ head = Front
    /\ asked # <<>> => (head = NoThread <=> old[Front] = NoThread)
    /\ \A i \in DOMAIN asked : i > 1 => old[asked[i]] = asked[i - 1]
    /\ \A i \in DOMAIN asked :
           next[asked[i]] = IF i + 1 \in DOMAIN asked /\ pc[asked[i + 1]] # "link"
                            THEN asked[i + 1] ELSE NoThread

\* Who is where: the inner mutex has one owner, and only the front of the queue
\* goes past the check.
Turn ==
    /\ \A t \in Thread : mutex = t <=> pc[t] \in HasMutex
    /\ \A t \in Thread : pc[t] \in {"dequeue", "spin"} => t = Front
    /\ \A t \in Thread : pc[t] = "spin" => tail # t
    /\ asked # <<>> => pc[Front] # "link"
    /\ \A t \in Thread : pc[t] \in Waiting /\ old[t] = NoThread => pc[t] \in {"lock", "dequeue", "spin"}

\* The front of the queue sleeps only while the lock is held by the one that will
\* wake it.
FrontIsAwake ==
    asked # <<>> /\ pc[Front] = "sleep" => mutex # NoThread /\ pc[mutex] = "in"

\* The inductive invariant.
IInv == TypeOK /\ Members /\ Queue /\ Turn /\ FrontIsAwake


-----------------------------------------------------------------------------

\* Appending to a sequence, element by element.
LEMMA AppendAt ==
    ASSUME NEW S, NEW s \in Seq(S), NEW e \in S
    PROVE  /\ Append(s, e) \in Seq(S) /\ Append(s, e) # <<>>
           /\ Len(Append(s, e)) = Len(s) + 1
           /\ DOMAIN Append(s, e) = 1 .. Len(s) + 1
           /\ \A i \in 1 .. Len(s) : Append(s, e)[i] = s[i]
           /\ Append(s, e)[Len(s) + 1] = e
    OBVIOUS

\* The rest of a sequence, element by element.
LEMMA TailAt ==
    ASSUME NEW S, NEW s \in Seq(S), s # <<>>
    PROVE  /\ Tail(s) \in Seq(S)
           /\ Len(s) \in Nat /\ Len(s) > 0
           /\ Len(Tail(s)) = Len(s) - 1
           /\ DOMAIN Tail(s) = 1 .. Len(s) - 1
           /\ \A i \in 1 .. Len(s) - 1 : Tail(s)[i] = s[i + 1]
           /\ Tail(s) = <<>> <=> Len(s) = 1
<1>1. /\ Tail(s) \in Seq(S) /\ Len(s) \in Nat /\ Len(s) > 0
      /\ Len(Tail(s)) = Len(s) - 1
    OBVIOUS
<1>2. DOMAIN Tail(s) = 1 .. Len(s) - 1
    BY <1>1
<1>3. \A i \in 1 .. Len(s) - 1 : Tail(s)[i] = s[i + 1]
    OBVIOUS
<1>4. \A z \in Seq(S) : z = <<>> <=> Len(z) = 0
    OBVIOUS
<1>5. Tail(s) = <<>> <=> Len(s) = 1
    <2>1. Tail(s) = <<>> <=> Len(Tail(s)) = 0
        BY <1>1, <1>4
    <2>2. Len(Tail(s)) = 0 <=> Len(s) = 1
        BY <1>1
    <2> QED
        BY <2>1, <2>2, Zenon
<1> QED
    BY <1>1, <1>2, <1>3, <1>5

\* Taking the first one out leaves the rest.
LEMMA WithoutFront ==
    ASSUME NEW S, NEW s \in Seq(S), s # <<>>
    PROVE  Without(s, s[1]) = Tail(s)
<1> DEFINE at == CHOOSE i \in DOMAIN s : s[i] = s[1] /\ \A j \in 1 .. i - 1 : s[j] # s[1]
<1>1. Len(s) \in Nat /\ Len(s) > 0 /\ DOMAIN s = 1 .. Len(s)
    BY TailAt
<1>2. at = 1
    <2>1. 1 \in DOMAIN s /\ s[1] = s[1] /\ \A j \in 1 .. 1 - 1 : s[j] # s[1]
        BY <1>1
    <2>2. \A i \in DOMAIN s : (s[i] = s[1] /\ \A j \in 1 .. i - 1 : s[j] # s[1]) => i = 1
        BY <1>1
    <2> QED
        BY <2>1, <2>2
<1> HIDE DEF at
<1>3. Without(s, s[1]) = SubSeq(s, 1, at - 1) \o SubSeq(s, at + 1, Len(s))
    BY DEF Without, at
<1>4. Without(s, s[1]) = SubSeq(s, 1, 0) \o SubSeq(s, 2, Len(s))
    BY <1>2, <1>3
<1>5. SubSeq(s, 1, 0) = <<>>
    OBVIOUS
<1>6. SubSeq(s, 2, Len(s)) \in Seq(S) /\ SubSeq(s, 2, Len(s)) = Tail(s)
    BY <1>1, TailAt
<1> QED
    BY <1>4, <1>5, <1>6


-----------------------------------------------------------------------------

\* What the invariant says of the queue as a sequence.
LEMMA QueueFacts ==
    ASSUME IInv
    PROVE  /\ asked \in Seq(Thread) /\ Len(asked) \in Nat /\ DOMAIN asked = 1 .. Len(asked)
           /\ asked = <<>> <=> Len(asked) = 0
           /\ \A i \in 1 .. Len(asked) : asked[i] \in Thread /\ pc[asked[i]] \in Waiting
           /\ asked # <<>> => 1 \in 1 .. Len(asked) /\ Front \in Thread
           /\ tail # NoThread <=> asked # <<>>
           /\ asked # <<>> => tail = asked[Len(asked)]
<1>1. asked \in Seq(Thread)
    BY DEF IInv, TypeOK
<1>2. /\ Len(asked) \in Nat /\ DOMAIN asked = 1 .. Len(asked)
      /\ asked = <<>> <=> Len(asked) = 0
    BY <1>1
<1>3. \A i \in 1 .. Len(asked) : asked[i] \in Thread
    BY <1>1, <1>2
<1>4. \A i \in 1 .. Len(asked) : pc[asked[i]] \in Waiting
    BY <1>2, <1>3 DEF IInv, Members
<1>5. asked # <<>> => 1 \in 1 .. Len(asked) /\ Len(asked) \in 1 .. Len(asked)
    BY <1>2
<1> QED
    BY <1>1, <1>2, <1>3, <1>4, <1>5, ThreadAssumption DEF IInv, Queue, Front

\* A step in which nobody comes or leaves, and nothing is stored into the queue,
\* keeps the queue.
LEMMA QueueKept ==
    ASSUME IInv, UNCHANGED <<tail, head, next, old, asked>>,
           pc' \in [Thread -> Places], mutex' \in Thread \cup {NoThread},
           \A t \in Thread : /\ pc'[t] \in Waiting <=> pc[t] \in Waiting
                             /\ pc'[t] = "link" <=> pc[t] = "link"
    PROVE  TypeOK' /\ Members' /\ Queue'
<1>1. TypeOK'
    BY DEF IInv, TypeOK
<1>2. Members'
    BY DEF IInv, Members
<1>3. Queue'
    <2>1. \A i \in DOMAIN asked : asked[i] \in Thread
        BY QueueFacts
    <2>2. \A i \in DOMAIN asked' :
              next'[asked'[i]] = IF i + 1 \in DOMAIN asked' /\ pc'[asked'[i + 1]] # "link"
                                 THEN asked'[i + 1] ELSE NoThread
        BY <2>1 DEF IInv, Queue
    <2> QED
        BY <2>2 DEF IInv, Queue, Front
<1> QED
    BY <1>1, <1>2, <1>3

\* Taking the inner mutex.
LEMMA LockKeeps ==
    ASSUME IInv, NEW t \in Thread, Lock(t)
    PROVE  IInv'
<1>1. pc \in [Thread -> Places] /\ mutex = NoThread /\ pc[t] \in {"lock", "woken"} /\ t # NoThread
    BY ThreadAssumption DEF IInv, TypeOK, Lock
<1>2. /\ pc' = [pc EXCEPT ![t] = IF old[t] = NoThread THEN "dequeue" ELSE "check"]
      /\ mutex' = t /\ UNCHANGED <<tail, head, next, old, asked>>
    BY DEF Lock, Goto
<1>3. /\ pc' \in [Thread -> Places] /\ pc'[t] = IF old[t] = NoThread THEN "dequeue" ELSE "check"
      /\ \A u \in Thread \ {t} : pc'[u] = pc[u]
    BY <1>1, <1>2 DEF Places
<1>4. TypeOK' /\ Members' /\ Queue'
    BY <1>1, <1>2, <1>3, QueueKept DEF Waiting
<1>5. \A u \in Thread : pc[u] \notin HasMutex
    BY <1>1, ThreadAssumption DEF IInv, Turn
<1>6. old[t] = NoThread => t = Front
    <2>1. PICK i \in DOMAIN asked : asked[i] = t
        BY <1>1 DEF IInv, Members, Waiting
    <2>2. i > 1 => old[t] = asked[i - 1] /\ asked[i - 1] # NoThread
        BY <2>1, QueueFacts, ThreadAssumption DEF IInv, Queue
    <2> QED
        BY <2>1, <2>2, QueueFacts DEF Front
<1>7. Turn'
    BY <1>1, <1>2, <1>3, <1>5, <1>6, QueueFacts DEF IInv, Turn, HasMutex, Waiting, Front
<1>8. FrontIsAwake'
    BY <1>1, <1>2, <1>3, QueueFacts DEF IInv, FrontIsAwake, Front
<1> QED
    BY <1>4, <1>7, <1>8 DEF IInv


\* Waking up without a signal.
LEMMA WakeUpKeeps ==
    ASSUME IInv, NEW t \in Thread, WakeUp(t)
    PROVE  IInv'
<1>1. /\ pc \in [Thread -> Places] /\ mutex \in Thread \cup {NoThread}
      /\ pc[t] = "sleep" /\ pc' = [pc EXCEPT ![t] = "woken"]
      /\ UNCHANGED <<tail, head, next, mutex, old, asked>>
    BY DEF IInv, TypeOK, WakeUp, Goto
<1>2. /\ pc' \in [Thread -> Places] /\ pc'[t] = "woken"
      /\ \A u \in Thread \ {t} : pc'[u] = pc[u]
    BY <1>1 DEF Places
<1>3. TypeOK' /\ Members' /\ Queue'
    BY <1>1, <1>2, QueueKept DEF Waiting
<1>4. Turn'
    BY <1>1, <1>2, QueueFacts DEF IInv, Turn, HasMutex, Waiting, Front
<1>5. FrontIsAwake'
    BY <1>1, <1>2, QueueFacts DEF IInv, FrontIsAwake, Front
<1> QED
    BY <1>3, <1>4, <1>5 DEF IInv

\* Looking whether it is one's turn. Who finds it is not is not the front, and the
\* front does not sleep meanwhile.
LEMMA CheckKeeps ==
    ASSUME IInv, NEW t \in Thread, Check(t)
    PROVE  IInv'
<1>1. /\ pc \in [Thread -> Places] /\ mutex \in Thread \cup {NoThread}
      /\ pc[t] = "check" /\ t # NoThread
      /\ UNCHANGED <<tail, head, next, old, asked>>
      /\ IF head = t THEN pc' = [pc EXCEPT ![t] = "dequeue"] /\ mutex' = mutex
         ELSE pc' = [pc EXCEPT ![t] = "sleep"] /\ mutex' = NoThread
    BY ThreadAssumption DEF IInv, TypeOK, Check, Goto
<1>2. /\ pc' \in [Thread -> Places] /\ pc'[t] = IF head = t THEN "dequeue" ELSE "sleep"
      /\ \A u \in Thread \ {t} : pc'[u] = pc[u]
    BY <1>1 DEF Places
<1>3. TypeOK' /\ Members' /\ Queue'
    BY <1>1, <1>2, QueueKept DEF Waiting
<1>4. mutex = t /\ old[t] # NoThread /\ (\A u \in Thread \ {t} : pc[u] \notin HasMutex)
    BY <1>1 DEF IInv, Turn, HasMutex, Waiting
<1>5. PICK i \in DOMAIN asked : asked[i] = t
    BY <1>1 DEF IInv, Members, Waiting
<1>6. head = t <=> t = Front
    BY <1>1, <1>4, <1>5 DEF IInv, Queue
<1>7. Turn'
    <2>1. \A u \in Thread : mutex' = u <=> pc'[u] \in HasMutex
        BY <1>1, <1>2, <1>4, ThreadAssumption DEF HasMutex
    <2>2. \A u \in Thread : pc'[u] \in {"dequeue", "spin"} => u = Front'
        BY <1>1, <1>2, <1>6 DEF IInv, Turn, Front
    <2>3. \A u \in Thread : pc'[u] = "spin" => tail' # u
        BY <1>1, <1>2 DEF IInv, Turn
    <2>4. asked' # <<>> => pc'[Front'] # "link"
        BY <1>1, <1>2, QueueFacts DEF IInv, Turn, Front
    <2>5. \A u \in Thread : pc'[u] \in Waiting /\ old'[u] = NoThread => pc'[u] \in {"lock", "dequeue", "spin"}
        BY <1>1, <1>2, <1>4 DEF IInv, Turn, Waiting
    <2> QED
        BY <2>1, <2>2, <2>3, <2>4, <2>5 DEF Turn
<1>8. FrontIsAwake'
    <2>1. asked # <<>> => pc[Front] # "sleep"
        BY <1>1, <1>4 DEF IInv, FrontIsAwake
    <2> QED
        BY <1>1, <1>2, <1>6, <2>1, QueueFacts DEF FrontIsAwake, Front
<1> QED
    BY <1>3, <1>7, <1>8 DEF IInv

\* Giving the lock back, or yielding it: the head, if it sleeps, is woken.
LEMMA LeaveKeeps ==
    ASSUME IInv, NEW t \in Thread, Unlock(t) \/ Yield(t)
    PROVE  IInv'
<1>1. PICK place \in {"out", "again"} :
          /\ pc[t] = "in" /\ mutex' = NoThread /\ pc' = [Signalled EXCEPT ![t] = place]
          /\ UNCHANGED <<tail, head, next, old, asked>>
    BY DEF Unlock, Yield
<1>2. pc \in [Thread -> Places] /\ head \in Thread \cup {NoThread}
    BY DEF IInv, TypeOK
<1>3. /\ Signalled \in [Thread -> Places]
      /\ \A u \in Thread : Signalled[u] = IF u = head /\ pc[u] = "sleep" THEN "woken" ELSE pc[u]
    BY <1>2, ThreadAssumption DEF Signalled, Places
<1>4. /\ pc' \in [Thread -> Places] /\ pc'[t] = place
      /\ \A u \in Thread \ {t} : pc'[u] = IF u = head /\ pc[u] = "sleep" THEN "woken" ELSE pc[u]
    BY <1>1, <1>3 DEF Places
<1>5. TypeOK' /\ Members' /\ Queue'
    BY <1>1, <1>4, QueueKept DEF Waiting
<1>6. mutex = t /\ \A u \in Thread \ {t} : pc[u] \notin HasMutex
    BY <1>1 DEF IInv, Turn, HasMutex
<1>7. Turn'
    BY <1>1, <1>4, <1>6, QueueFacts, ThreadAssumption DEF IInv, Turn, HasMutex, Waiting, Front
<1>8. FrontIsAwake'
    <2>1. asked # <<>> /\ pc[Front] = "sleep" => head = Front
        BY QueueFacts DEF IInv, Queue, Turn, Waiting
    <2> QED
        BY <1>1, <1>4, <2>1, QueueFacts DEF FrontIsAwake, Front
<1> QED
    BY <1>5, <1>7, <1>8 DEF IInv

\* The store that tells the one before who comes next.
LEMMA LinkKeeps ==
    ASSUME IInv, NEW t \in Thread, Link(t)
    PROVE  IInv'
<1>1. /\ pc \in [Thread -> Places] /\ next \in [Thread -> Thread \cup {NoThread}]
      /\ mutex \in Thread \cup {NoThread}
      /\ pc[t] = "link" /\ pc' = [pc EXCEPT ![t] = "lock"]
      /\ next' = [next EXCEPT ![old[t]] = t]
      /\ UNCHANGED <<tail, head, mutex, old, asked>>
    BY DEF IInv, TypeOK, Link, Goto
<1>2. /\ pc' \in [Thread -> Places] /\ pc'[t] = "lock"
      /\ \A u \in Thread \ {t} : pc'[u] = pc[u]
    BY <1>1 DEF Places
<1>3. PICK k \in DOMAIN asked : asked[k] = t
    BY <1>1 DEF IInv, Members, Waiting
<1>4. k > 1 /\ k - 1 \in DOMAIN asked /\ old[t] = asked[k - 1] /\ old[t] \in Thread
    BY <1>1, <1>3, QueueFacts DEF IInv, Turn, Queue, Front
<1>5. next' \in [Thread -> Thread \cup {NoThread}] /\ next'[old[t]] = t
      /\ \A u \in Thread \ {old[t]} : next'[u] = next[u]
    BY <1>1, <1>4
<1>6. TypeOK'
    BY <1>1, <1>2, <1>5 DEF IInv, TypeOK
<1>7. Members'
    BY <1>1, <1>2 DEF IInv, Members, Waiting
<1>8. Queue'
    <2>1. ASSUME NEW i \in DOMAIN asked
          PROVE  next'[asked[i]] = IF i + 1 \in DOMAIN asked /\ pc'[asked[i + 1]] # "link"
                                   THEN asked[i + 1] ELSE NoThread
        <3>1. CASE i = k - 1
            BY <1>2, <1>3, <1>4, <1>5, <3>1, QueueFacts
        <3>2. CASE i # k - 1
            <4>1. asked[i] # old[t]
                BY <1>4, <3>2 DEF IInv, Members
            <4>2. i + 1 \in DOMAIN asked => asked[i + 1] # t
                BY <1>3, <3>2, QueueFacts DEF IInv, Members
            <4> QED
                BY <1>2, <1>5, <4>1, <4>2, QueueFacts DEF IInv, Queue
        <3> QED
            BY <3>1, <3>2
    <2> QED
        BY <1>1, <2>1 DEF IInv, Queue, Front
<1>9. Turn'
    BY <1>1, <1>2, QueueFacts DEF IInv, Turn, HasMutex, Waiting, Front
<1>10. FrontIsAwake'
    BY <1>1, <1>2, QueueFacts DEF IInv, FrontIsAwake, Front
<1> QED
    BY <1>6, <1>7, <1>8, <1>9, <1>10 DEF IInv


\* Somebody is behind the front: it waits for the store into its next.
LEMMA SpinBeginsKeeps ==
    ASSUME IInv, NEW t \in Thread, Dequeue(t), tail # t
    PROVE  IInv'
<1>1. /\ pc \in [Thread -> Places] /\ mutex \in Thread \cup {NoThread}
      /\ pc[t] = "dequeue" /\ pc' = [pc EXCEPT ![t] = "spin"]
      /\ UNCHANGED <<tail, head, next, mutex, old, asked>>
    BY DEF IInv, TypeOK, Dequeue, Goto
<1>2. /\ pc' \in [Thread -> Places] /\ pc'[t] = "spin"
      /\ \A u \in Thread \ {t} : pc'[u] = pc[u]
    BY <1>1 DEF Places
<1>3. TypeOK' /\ Members' /\ Queue'
    BY <1>1, <1>2, QueueKept DEF Waiting
<1>4. Turn'
    BY <1>1, <1>2, QueueFacts DEF IInv, Turn, HasMutex, Waiting, Front
<1>5. FrontIsAwake'
    BY <1>1, <1>2, QueueFacts DEF IInv, FrontIsAwake, Front
<1> QED
    BY <1>3, <1>4, <1>5 DEF IInv

\* The step by which a thread gets the lock.
Enters(t) == (Dequeue(t) /\ tail = t) \/ Spin(t)

\* It is the front that gets the lock, while nobody has it, and it leaves the queue.
LEMMA EntersFront ==
    ASSUME IInv, NEW t \in Thread, Enters(t)
    PROVE  /\ asked # <<>> /\ t = Front /\ asked' = Tail(asked)
           /\ pc[t] \in {"dequeue", "spin"} /\ mutex = t
           /\ \A u \in Thread \ {t} : pc[u] \notin HasMutex
           /\ pc' \in [Thread -> Places] /\ pc'[t] = "in"
           /\ \A u \in Thread \ {t} : pc'[u] = pc[u]
           /\ UNCHANGED <<next, mutex, old>>
           /\ tail' = IF Len(asked) = 1 THEN NoThread ELSE tail
           /\ head' = IF Len(asked) = 1 THEN NoThread ELSE asked[2]
           /\ Len(asked) > 1 => pc[asked[2]] # "link"
<1>1. /\ pc \in [Thread -> Places]
      /\ pc[t] \in {"dequeue", "spin"} /\ pc' = [pc EXCEPT ![t] = "in"]
      /\ asked' = Without(asked, t) /\ UNCHANGED <<next, mutex, old>>
    BY DEF IInv, TypeOK, Enters, Dequeue, Spin, Goto
<1>2. /\ pc' \in [Thread -> Places] /\ pc'[t] = "in"
      /\ \A u \in Thread \ {t} : pc'[u] = pc[u]
    BY <1>1 DEF Places
<1>3. t = Front /\ asked # <<>>
    BY <1>1, QueueFacts DEF IInv, Turn, Members, Waiting
<1>4. asked' = Tail(asked)
    BY <1>1, <1>3, WithoutFront, QueueFacts DEF Front
<1>5. mutex = t /\ \A u \in Thread \ {t} : pc[u] \notin HasMutex
    BY <1>1 DEF IInv, Turn, HasMutex
<1>6. Len(asked) \in Nat /\ Len(asked) > 0 /\ (tail = t <=> Len(asked) = 1)
    <2>1. /\ Len(asked) \in Nat /\ Len(asked) > 0 /\ DOMAIN asked = 1 .. Len(asked)
          /\ tail = asked[Len(asked)] /\ t = asked[1]
        BY <1>3, QueueFacts DEF Front
    <2>2. 1 \in DOMAIN asked /\ Len(asked) \in DOMAIN asked
        BY <2>1
    <2>3. tail = t => 1 = Len(asked)
        BY <2>1, <2>2 DEF IInv, Members
    <2> QED
        BY <2>1, <2>3
<1>7. CASE Dequeue(t) /\ tail = t
    <2>1. tail' = NoThread /\ head' = NoThread /\ Len(asked) = 1
        BY <1>6, <1>7 DEF Dequeue
    <2> QED
        BY <1>1, <1>2, <1>3, <1>4, <1>5, <2>1
<1>8. CASE Spin(t)
    <2>1. pc[t] = "spin" /\ next[t] # NoThread /\ head' = next[t] /\ tail' = tail
        BY <1>8 DEF Spin
    <2>2. Len(asked) > 1
        <3>1. Len(asked) # 1
            BY <1>6, <2>1 DEF IInv, Turn
        <3>2. Len(asked) \in Nat /\ Len(asked) > 0
            BY <1>6
        <3>3. \A k \in Nat : k > 0 /\ k # 1 => k > 1
            OBVIOUS
        <3> QED
            BY <3>1, <3>2, <3>3
    <2>3. next[t] = asked[2] /\ pc[asked[2]] # "link"
        <3>1. /\ 1 \in DOMAIN asked
              /\ next[asked[1]] = IF 1 + 1 \in DOMAIN asked /\ pc[asked[1 + 1]] # "link"
                                  THEN asked[1 + 1] ELSE NoThread
            BY <1>3, QueueFacts DEF IInv, Queue
        <3> QED
            BY <1>3, <2>1, <3>1 DEF Front
    <2> QED
        BY <1>1, <1>2, <1>3, <1>4, <1>5, <2>1, <2>2, <2>3
<1> QED
    BY <1>7, <1>8 DEF Enters

\* Getting the lock.
LEMMA EntersKeeps ==
    ASSUME IInv, NEW t \in Thread, Enters(t)
    PROVE  IInv'
<1>1. asked \in Seq(Thread) /\ asked # <<>> /\ asked' = Tail(asked)
    BY EntersFront, QueueFacts
<1>2. /\ asked' \in Seq(Thread) /\ Len(asked) \in Nat /\ Len(asked) > 0
      /\ DOMAIN asked = 1 .. Len(asked)
      /\ Len(asked') = Len(asked) - 1 /\ DOMAIN asked' = 1 .. Len(asked) - 1
      /\ \A i \in 1 .. Len(asked) - 1 : asked'[i] = asked[i + 1]
      /\ asked' = <<>> <=> Len(asked) = 1
    BY <1>1, TailAt, QueueFacts
<1>3. t = asked[1]
    BY EntersFront DEF Front
<1>4. \A i \in DOMAIN asked : asked[i] \in Thread /\ (asked[i] = t <=> i = 1)
    BY <1>2, <1>3, QueueFacts DEF IInv, Members
<1>5. \A i \in DOMAIN asked' : asked'[i] \in Thread \ {t} /\ i + 1 \in DOMAIN asked /\ asked'[i] = asked[i + 1]
    BY <1>2, <1>4
<1>6. TypeOK'
    BY <1>1, <1>2, <1>4, EntersFront, QueueFacts DEF IInv, TypeOK
<1>7. Members'
    <2>1. ASSUME NEW u \in Thread
          PROVE  pc'[u] \in Waiting <=> \E i \in DOMAIN asked' : asked'[i] = u
        <3>1. CASE u = t
            BY <1>5, <3>1, EntersFront DEF Waiting
        <3>2. CASE u # t
            <4>1. pc'[u] \in Waiting <=> \E i \in DOMAIN asked : asked[i] = u
                BY <3>2, EntersFront DEF IInv, Members
            <4>2. ASSUME NEW i \in DOMAIN asked, asked[i] = u
                  PROVE  \E j \in DOMAIN asked' : asked'[j] = u
                <5>1. i - 1 \in DOMAIN asked' /\ asked'[i - 1] = u
                    BY <1>2, <1>4, <3>2, <4>2
                <5> QED
                    BY <5>1
            <4> QED
                BY <1>5, <4>1, <4>2
        <3> QED
            BY <3>1, <3>2
    <2>2. \A i, j \in DOMAIN asked' : asked'[i] = asked'[j] => i = j
        BY <1>2, <1>5 DEF IInv, Members
    <2> QED
        BY <2>1, <2>2 DEF Members
<1>8. Queue'
    <2>1. tail' = IF asked' = <<>> THEN NoThread ELSE asked'[Len(asked')]
        BY <1>2, EntersFront, QueueFacts
    <2>2. \A i \in DOMAIN asked' : i > 1 => old'[asked'[i]] = asked'[i - 1]
        <3>1. \A i \in DOMAIN asked : i > 1 => old[asked[i]] = asked[i - 1]
            BY DEF IInv, Queue
        <3>2. ASSUME NEW i \in DOMAIN asked', i > 1
              PROVE  old[asked'[i]] = asked'[i - 1]
            <4>1. /\ i + 1 \in DOMAIN asked /\ i + 1 > 1 /\ asked'[i] = asked[i + 1]
                  /\ asked'[i - 1] = asked[i] /\ i + 1 - 1 = i
                BY <1>2, <1>5, <3>2
            <4>2. old[asked[i + 1]] = asked[i + 1 - 1]
                BY <1>2, <3>1, <4>1
            <4>3. asked[i + 1 - 1] = asked[i]
                BY <4>1
            <4> QED
                BY <4>1, <4>2, <4>3
        <3> QED
            BY <3>2, EntersFront
    <2>3. /\ head' # NoThread => asked' # <<>> /\ head' = Front'
          /\ asked' # <<>> => (head' = NoThread <=> old'[Front'] = NoThread)
        <3>1. CASE Len(asked) = 1
            BY <1>2, <3>1, EntersFront
        <3>2. CASE Len(asked) > 1
            <4>1. /\ asked' # <<>> /\ head' = asked[2] /\ asked'[1] = asked[2] /\ asked[2] \in Thread
                BY <1>2, <1>4, <3>2, EntersFront
            <4>2. 2 \in DOMAIN asked /\ 2 > 1 /\ 2 - 1 = 1
                BY <1>2, <3>2
            <4>3. old[asked[2]] = asked[1]
                BY <4>2 DEF IInv, Queue
            <4>4. old' = old
                BY EntersFront
            <4> QED
                BY <1>3, <4>1, <4>3, <4>4, ThreadAssumption DEF Front
        <3> QED
            BY <1>2, <3>1, <3>2
    <2>4. ASSUME NEW i \in DOMAIN asked'
          PROVE  next'[asked'[i]] = IF i + 1 \in DOMAIN asked' /\ pc'[asked'[i + 1]] # "link"
                                    THEN asked'[i + 1] ELSE NoThread
        <3>1. next[asked[i + 1]] = IF i + 1 + 1 \in DOMAIN asked /\ pc[asked[i + 1 + 1]] # "link"
                                   THEN asked[i + 1 + 1] ELSE NoThread
            BY <1>5 DEF IInv, Queue
        <3>2. i + 1 \in DOMAIN asked' <=> i + 1 + 1 \in DOMAIN asked
            BY <1>2
        <3>3. i + 1 \in DOMAIN asked' => pc'[asked'[i + 1]] = pc[asked[i + 1 + 1]]
            BY <1>5, EntersFront
        <3> QED
            BY <1>5, <3>1, <3>2, <3>3, EntersFront
    <2> QED
        BY <2>1, <2>2, <2>3, <2>4 DEF Queue
<1>9. asked' # <<>> => Front' = asked[2] /\ asked[2] \in Thread \ {t} /\ Len(asked) > 1
    BY <1>2, <1>5 DEF Front
<1>10. Turn'
    <2>1. \A u \in Thread : mutex' = u <=> pc'[u] \in HasMutex
        BY EntersFront DEF HasMutex
    <2>2. \A u \in Thread : pc'[u] \notin {"dequeue", "spin"}
        BY EntersFront DEF HasMutex
    <2>3. asked' # <<>> => pc'[Front'] # "link"
        BY <1>9, EntersFront
    <2>4. \A u \in Thread : pc'[u] \in Waiting /\ old'[u] = NoThread => pc'[u] \in {"lock", "dequeue", "spin"}
        BY EntersFront DEF IInv, Turn, Waiting
    <2> QED
        BY <2>1, <2>2, <2>3, <2>4 DEF Turn
<1>11. FrontIsAwake'
    BY EntersFront, ThreadAssumption DEF FrontIsAwake
<1> QED
    BY <1>6, <1>7, <1>8, <1>10, <1>11 DEF IInv


\* Asking for the lock: the thread comes to the end of the queue.
LEMMA ExchangeKeeps ==
    ASSUME IInv, NEW t \in Thread, Exchange(t)
    PROVE  IInv'
<1> DEFINE n == Len(asked)
<1> DEFINE place == IF tail = NoThread THEN "lock" ELSE "link"
<1>1. /\ pc \in [Thread -> Places] /\ old \in [Thread -> Thread \cup {NoThread}]
      /\ next \in [Thread -> Thread \cup {NoThread}]
      /\ {tail, head, mutex} \subseteq Thread \cup {NoThread}
      /\ pc[t] \in {"out", "again"} /\ t # NoThread
      /\ tail' = t /\ old' = [old EXCEPT ![t] = tail] /\ next' = [next EXCEPT ![t] = NoThread]
      /\ asked' = Append(asked, t) /\ UNCHANGED <<head, mutex>>
      /\ pc' = [pc EXCEPT ![t] = place]
    BY ThreadAssumption DEF IInv, TypeOK, Exchange, Goto
<1>2. /\ pc' \in [Thread -> Places] /\ pc'[t] = place /\ place \in {"lock", "link"}
      /\ \A u \in Thread \ {t} : pc'[u] = pc[u]
    BY <1>1 DEF Places
<1>3. /\ old' \in [Thread -> Thread \cup {NoThread}] /\ old'[t] = tail
      /\ \A u \in Thread \ {t} : old'[u] = old[u]
    BY <1>1
<1>4. /\ next' \in [Thread -> Thread \cup {NoThread}] /\ next'[t] = NoThread
      /\ \A u \in Thread \ {t} : next'[u] = next[u]
    BY <1>1
<1> HIDE DEF place
<1>5. /\ n \in Nat /\ asked \in Seq(Thread) /\ DOMAIN asked = 1 .. n
      /\ asked = <<>> <=> n = 0
    BY QueueFacts
<1>6. /\ asked' \in Seq(Thread) /\ asked' # <<>> /\ Len(asked') = n + 1
      /\ DOMAIN asked' = 1 .. n + 1
      /\ \A i \in 1 .. n : asked'[i] = asked[i]
      /\ asked'[n + 1] = t
    BY <1>1, <1>5, AppendAt
<1> HIDE DEF n
<1>7. \A i \in 1 .. n : asked[i] \in Thread \ {t}
    BY <1>1, QueueFacts DEF Waiting, n
<1>8. /\ tail = NoThread <=> n = 0
      /\ n > 0 => tail = asked[n]
    BY <1>5, QueueFacts DEF n
<1>9. n > 0 => Front' = Front /\ Front \in Thread \ {t} /\ 1 \in 1 .. n
    BY <1>5, <1>6, <1>7 DEF Front
<1>10. n = 0 => Front' = t /\ place = "lock" /\ head = NoThread
    BY <1>5, <1>6, <1>8 DEF Front, place, IInv, Queue
<1>11. TypeOK'
    BY <1>1, <1>2, <1>3, <1>4, <1>6 DEF TypeOK
<1>12. Members'
    <2>1. ASSUME NEW u \in Thread
          PROVE  pc'[u] \in Waiting <=> \E i \in DOMAIN asked' : asked'[i] = u
        <3>1. CASE u = t
            <4>1. n + 1 \in DOMAIN asked' /\ asked'[n + 1] = u
                BY <1>5, <1>6, <3>1
            <4> QED
                BY <1>2, <3>1, <4>1 DEF Waiting
        <3>2. CASE u # t
            <4>1. pc'[u] \in Waiting <=> \E i \in 1 .. n : asked[i] = u
                BY <1>2, <1>5, <3>2 DEF IInv, Members
            <4>2. \A i \in DOMAIN asked' : asked'[i] = u => i \in 1 .. n
                BY <1>5, <1>6, <3>2
            <4>3. \A i \in 1 .. n : i \in DOMAIN asked'
                BY <1>5, <1>6
            <4> QED
                BY <1>6, <4>1, <4>2, <4>3
        <3> QED
            BY <3>1, <3>2
    <2>2. ASSUME NEW i \in DOMAIN asked', NEW j \in DOMAIN asked', asked'[i] = asked'[j]
          PROVE  i = j
        <3>1. i \in 1 .. n /\ j \in 1 .. n => i = j
            BY <1>5, <1>6, <2>2 DEF IInv, Members
        <3> QED
            BY <1>5, <1>6, <1>7, <2>2, <3>1
    <2> QED
        BY <2>1, <2>2 DEF Members
<1>13. Queue'
    <2>1. tail' = IF asked' = <<>> THEN NoThread ELSE asked'[Len(asked')]
        BY <1>1, <1>6
    <2>2. /\ head' # NoThread => asked' # <<>> /\ head' = Front'
          /\ asked' # <<>> => (head' = NoThread <=> old'[Front'] = NoThread)
        <3>1. CASE n = 0
            BY <1>1, <1>3, <1>6, <1>8, <1>10, <3>1
        <3>2. CASE n > 0
            BY <1>1, <1>3, <1>5, <1>6, <1>9, <3>2 DEF IInv, Queue
        <3> QED
            BY <1>5, <3>1, <3>2
    <2>3. ASSUME NEW i \in DOMAIN asked', i > 1
          PROVE  old'[asked'[i]] = asked'[i - 1]
        <3>1. CASE i = n + 1
            BY <1>3, <1>5, <1>6, <1>8, <2>3, <3>1
        <3>2. CASE i # n + 1
            <4>1. i \in 1 .. n /\ i - 1 \in 1 .. n
                BY <1>5, <1>6, <2>3, <3>2
            <4>2. old[asked[i]] = asked[i - 1]
                BY <1>5, <2>3, <4>1 DEF IInv, Queue
            <4>3. asked'[i] = asked[i] /\ asked'[i - 1] = asked[i - 1] /\ asked[i] \in Thread \ {t}
                BY <1>6, <1>7, <4>1
            <4>4. old'[asked[i]] = old[asked[i]]
                BY <1>3, <4>3
            <4> QED
                BY <4>2, <4>3, <4>4
        <3> QED
            BY <3>1, <3>2
    <2>4. ASSUME NEW i \in DOMAIN asked'
          PROVE  next'[asked'[i]] = IF i + 1 \in DOMAIN asked' /\ pc'[asked'[i + 1]] # "link"
                                    THEN asked'[i + 1] ELSE NoThread
        <3>1. CASE i = n + 1
            BY <1>4, <1>5, <1>6, <3>1
        <3>2. CASE i = n
            <4>1. i \in 1 .. n /\ i + 1 \in DOMAIN asked' /\ asked'[i + 1] = t /\ i + 1 \notin DOMAIN asked
                BY <1>5, <1>6, <3>2
            <4>2. next[asked[i]] = NoThread
                BY <1>5, <4>1 DEF IInv, Queue
            <4>3. n > 0 /\ pc'[t] = "link"
                BY <1>1, <1>2, <1>5, <1>8, <4>1 DEF place
            <4> QED
                BY <1>4, <1>6, <1>7, <4>1, <4>2, <4>3
        <3>3. CASE i < n
            <4>1. i \in 1 .. n /\ i + 1 \in 1 .. n /\ i + 1 \in DOMAIN asked'
                BY <1>5, <1>6, <3>3
            <4>2. next[asked[i]] = IF pc[asked[i + 1]] # "link" THEN asked[i + 1] ELSE NoThread
                BY <1>5, <4>1 DEF IInv, Queue
            <4> QED
                BY <1>2, <1>4, <1>6, <1>7, <4>1, <4>2
        <3> QED
            BY <1>5, <1>6, <3>1, <3>2, <3>3
    <2> QED
        BY <2>1, <2>2, <2>3, <2>4 DEF Queue
<1>14. Turn'
    <2>1. \A u \in Thread : mutex' = u <=> pc'[u] \in HasMutex
        BY <1>1, <1>2 DEF IInv, Turn, HasMutex
    <2>2. ASSUME NEW u \in Thread, pc'[u] \in {"dequeue", "spin"}
          PROVE  u = Front' /\ (pc'[u] = "spin" => tail' # u)
        <3>1. u # t /\ pc[u] \in {"dequeue", "spin"} /\ u = Front
            BY <1>2, <2>2 DEF IInv, Turn
        <3>2. n > 0
            <4>1. PICK i \in DOMAIN asked : asked[i] = u
                BY <3>1 DEF IInv, Members, Waiting
            <4> QED
                BY <1>5, <4>1
        <3> QED
            BY <1>1, <1>9, <3>1, <3>2
    <2>3. asked' # <<>> => pc'[Front'] # "link"
        BY <1>2, <1>5, <1>9, <1>10 DEF IInv, Turn
    <2>4. ASSUME NEW u \in Thread, pc'[u] \in Waiting, old'[u] = NoThread
          PROVE  pc'[u] \in {"lock", "dequeue", "spin"}
        BY <1>2, <1>3, <2>4 DEF IInv, Turn, place
    <2> QED
        BY <2>1, <2>2, <2>3, <2>4 DEF Turn
<1>15. FrontIsAwake'
    <2>1. CASE n = 0
        BY <1>2, <1>10, <2>1 DEF FrontIsAwake
    <2>2. CASE n > 0
        <3>1. pc'[Front'] = "sleep" => mutex # NoThread /\ pc[mutex] = "in"
            BY <1>2, <1>5, <1>9, <2>2 DEF IInv, FrontIsAwake
        <3> QED
            BY <1>1, <1>2, <3>1 DEF FrontIsAwake
    <2> QED
        BY <1>5, <2>1, <2>2
<1> QED
    BY <1>11, <1>12, <1>13, <1>14, <1>15 DEF IInv


\* Every step keeps the invariant.
LEMMA IInvHolds == Spec => []IInv
<1>1. Init => IInv
    <2> SUFFICES ASSUME Init PROVE IInv
        OBVIOUS
    <2>1. TypeOK
        BY DEF Init, TypeOK, Places
    <2>2. Members /\ Queue /\ FrontIsAwake
        BY DEF Init, Members, Queue, FrontIsAwake, Waiting
    <2>3. Turn
        BY ThreadAssumption DEF Init, Turn, HasMutex, Waiting
    <2> QED
        BY <2>1, <2>2, <2>3 DEF IInv
<1>2. IInv /\ [Next]_vars => IInv'
    <2> SUFFICES ASSUME IInv, [Next]_vars PROVE IInv'
        OBVIOUS
    <2>1. ASSUME NEW t \in Thread, Exchange(t) \/ WakeUp(t) \/ Proceed(t)
          PROVE  IInv'
        <3>1. CASE Dequeue(t)
            BY <3>1, EntersKeeps, SpinBeginsKeeps DEF Enters
        <3>2. CASE Spin(t)
            BY <3>2, EntersKeeps DEF Enters
        <3> QED
            BY <2>1, <3>1, <3>2, ExchangeKeeps, WakeUpKeeps, LinkKeeps, LockKeeps, CheckKeeps,
               LeaveKeeps DEF Proceed
    <2>2. CASE UNCHANGED vars
        BY <2>2 DEF vars, IInv, TypeOK, Members, Queue, Turn, FrontIsAwake, Front
    <2> QED
        BY <2>1, <2>2 DEF Next
<1> QED
    BY <1>1, <1>2, PTL DEF Spec

-----------------------------------------------------------------------------

\* No access to the node of a thread that has left fifo_mutex_lock, and no waiter
\* sleeps through its turn.
THEOREM WaitersSafe == Spec => []WaitersAreSafe
<1>1. ASSUME IInv
      PROVE  NodesAreAlive
    <2>1. ASSUME NEW t \in Thread, pc[t] = "link"
          PROVE  pc[old[t]] \in Waiting
        <3>1. PICK i \in DOMAIN asked : asked[i] = t
            BY <1>1, <2>1 DEF IInv, Members, Waiting
        <3>2. i > 1 /\ i - 1 \in 1 .. Len(asked)
            BY <1>1, <2>1, <3>1, QueueFacts DEF IInv, Turn, Front
        <3>3. old[t] = asked[i - 1]
            BY <1>1, <3>1, <3>2 DEF IInv, Queue
        <3> QED
            BY <1>1, <3>2, <3>3, QueueFacts
    <2>2. ASSUME NEW t \in {head, tail} \ {NoThread}
          PROVE  pc[t] \in Waiting
        <3>1. asked # <<>> /\ t \in {asked[1], asked[Len(asked)]}
            BY <1>1, QueueFacts DEF IInv, Queue, Front
        <3>2. 1 \in 1 .. Len(asked) /\ Len(asked) \in 1 .. Len(asked)
            BY <1>1, <3>1, QueueFacts
        <3> QED
            BY <1>1, <3>1, <3>2, QueueFacts
    <2> QED
        BY <2>1, <2>2 DEF NodesAreAlive
<1>2. ASSUME IInv
      PROVE  NoSleeperForgotten
    <2> SUFFICES ASSUME NEW t \in Thread, pc[t] = "sleep", mutex = NoThread
                 PROVE  \E u \in Thread \ {t} : pc[u] \in {"link", "lock", "woken"}
        BY DEF NoSleeperForgotten
    <2>1. asked # <<>> /\ Front \in Thread /\ pc[Front] \in Waiting
        BY <1>2, QueueFacts DEF IInv, Members, Waiting, Front
    <2>2. pc[Front] \notin HasMutex
        BY <1>2, <2>1, ThreadAssumption DEF IInv, Turn
    <2>3. pc[Front] # "sleep"
        BY <1>2, <2>1 DEF IInv, FrontIsAwake
    <2>4. pc[Front] \in {"link", "lock", "woken"} /\ Front # t
        BY <2>1, <2>2, <2>3 DEF Waiting, HasMutex
    <2> QED
        BY <2>1, <2>4
<1>3. IInv => WaitersAreSafe
    BY <1>1, <1>2 DEF WaitersAreSafe, IInv
<1> QED
    BY <1>3, IInvHolds, PTL

\* One thread at a time has the lock.
THEOREM MutualExclusion ==
    Spec => [](\A t, u \in Thread : pc[t] = "in" /\ pc[u] = "in" => t = u)
<1>1. IInv => \A t, u \in Thread : pc[t] = "in" /\ pc[u] = "in" => t = u
    BY DEF IInv, Turn, HasMutex
<1> QED
    BY <1>1, IInvHolds, PTL

\* The threads that have the lock, as FifoLock sees them.
inside == {t \in Thread : pc[t] = "in"}

\* The exchange of tail asks for the lock, leaving the queue takes it, unlocking and
\* yielding give it back; the other steps cannot be seen.
LEMMA LockStep ==
    ASSUME IInv, Next
    PROVE  FIFO!Next \/ UNCHANGED <<asked, inside>>
<1>1. PICK t \in Thread : Exchange(t) \/ WakeUp(t) \/ Proceed(t)
    BY DEF Next
<1>2. pc \in [Thread -> Places]
    BY DEF IInv, TypeOK
<1>3. CASE Exchange(t)
    <2>1. /\ pc[t] \in {"out", "again"} /\ asked' = Append(asked, t)
          /\ pc' = [pc EXCEPT ![t] = IF tail = NoThread THEN "lock" ELSE "link"]
        BY <1>3 DEF Exchange, Goto
    <2>2. ~FIFO!Waits(t) /\ t \notin inside
        BY <2>1 DEF IInv, Members, Waiting, FIFO!Waits, inside
    <2>3. inside' = inside
        BY <1>2, <2>1 DEF inside
    <2> QED
        BY <2>1, <2>2, <2>3 DEF FIFO!Next, FIFO!Ask, inside
<1>4. CASE Enters(t)
    <2>1. /\ asked # <<>> /\ t = Front /\ asked' = Tail(asked) /\ mutex = t
          /\ pc[t] \in {"dequeue", "spin"} /\ pc' \in [Thread -> Places] /\ pc'[t] = "in"
          /\ \A u \in Thread \ {t} : pc[u] \notin HasMutex /\ pc'[u] = pc[u]
        BY <1>4, EntersFront
    <2>2. inside = {} /\ inside' = {t}
        BY <2>1 DEF inside, HasMutex
    <2>3. t = Head(asked)
        BY <2>1, QueueFacts DEF Front
    <2> QED
        BY <2>1, <2>2, <2>3 DEF FIFO!Next, FIFO!Enter, inside
<1>5. CASE Unlock(t) \/ Yield(t)
    <2>1. PICK place \in {"out", "again"} :
              pc[t] = "in" /\ pc' = [Signalled EXCEPT ![t] = place] /\ asked' = asked
        BY <1>5 DEF Unlock, Yield
    <2>2. Signalled \in [Thread -> Places] /\ \A u \in Thread : Signalled[u] = "in" <=> pc[u] = "in"
        BY <1>2 DEF Signalled, Places
    <2>3. \A u \in Thread : pc'[u] = "in" <=> (u # t /\ pc[u] = "in")
        BY <2>1, <2>2
    <2>4. t \in inside /\ inside' = inside \ {t}
        BY <2>1, <2>3 DEF inside
    <2> QED
        BY <2>1, <2>4 DEF FIFO!Next, FIFO!Leave, inside
<1>6. CASE WakeUp(t) \/ Link(t) \/ Lock(t) \/ Check(t) \/ (Dequeue(t) /\ tail # t)
    <2>1. PICK place \in Places \ {"in"} :
              pc[t] # "in" /\ pc' = [pc EXCEPT ![t] = place] /\ asked' = asked
        BY <1>6 DEF WakeUp, Link, Lock, Check, Dequeue, Goto, Places
    <2> QED
        BY <1>2, <2>1 DEF inside
<1> QED
    BY <1>1, <1>3, <1>4, <1>5, <1>6 DEF Proceed, Enters

\* The mutex of common/locking.c is a lock that is given in the order of asking.
THEOREM ImplementsLock == Spec => ImplementsFifoLock
<1>1. Init => FIFO!Init
    BY DEF Init, FIFO!Init
<1>2. IInv /\ [Next]_vars => [FIFO!Next]_(FIFO!vars)
    <2> SUFFICES ASSUME IInv, [Next]_vars PROVE [FIFO!Next]_(FIFO!vars)
        OBVIOUS
    <2>1. CASE Next
        BY <2>1, LockStep DEF FIFO!vars, inside
    <2>2. CASE UNCHANGED vars
        BY <2>2 DEF vars, FIFO!vars
    <2> QED
        BY <2>1, <2>2
<1> QED
    BY <1>1, <1>2, IInvHolds, PTL DEF Spec, ImplementsFifoLock, FIFO!Safety
=============================================================================
