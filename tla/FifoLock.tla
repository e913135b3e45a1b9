------------------------------ MODULE FifoLock ------------------------------
(***************************************************************************)
(* What the mutex of common/locking.c promises: threads get it one at a     *)
(* time, in the order in which they asked for it, and each one gets it.     *)
(***************************************************************************)
EXTENDS Sequences

CONSTANT Thread

VARIABLES
    asked,  \* the threads that wait, the first one to ask first
    inside  \* the threads that have the mutex

vars == <<asked, inside>>

Init == asked = <<>> /\ inside = {}

Waits(t) == \E i \in DOMAIN asked : asked[i] = t

Ask(t) == ~Waits(t) /\ t \notin inside /\ asked' = Append(asked, t) /\ UNCHANGED inside

Enter(t) ==
    /\ asked # <<>> /\ t = Head(asked) /\ inside = {}
    /\ inside' = {t} /\ asked' = Tail(asked)

Leave(t) == t \in inside /\ inside' = inside \ {t} /\ UNCHANGED asked

\* fifo_mutex_yield leaves and asks again without letting anybody see it outside
Next == \E t \in Thread : Ask(t) \/ Enter(t) \/ Leave(t)

Safety == Init /\ [][Next]_vars

\* those that have the mutex give it back, and then the next one gets it
Spec == Safety /\ WF_vars(\E t \in Thread : Enter(t) \/ Leave(t))
=============================================================================
