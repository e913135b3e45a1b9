------------------------------ MODULE MCRemote ------------------------------
(* Small instances of the two components whose fairness matters: the FIFO   *)
(* mutex and the remote control server. They share no state: focus is the   *)
(* one a behaviour is about, and the other stays as it begins.              *)
EXTENDS FifoMutex

CONSTANTS a, b, c, none, NL, Password, Quit

VARIABLES
    focus,
    script, todo, wire, conn, auth, answers, ran, ready, serving, buf, unix, running

\* lines of one and two words, in one write or in pieces, several in one write, and one
\* that is too long
MCScriptList == <<
    <<<<a, NL>>, <<NL, b, a, NL>>>>,
    <<<<Password, NL, a, b, NL>>, <<Quit, NL>>>>,
    <<<<NL, a>>, <<b, NL>>>>,
    <<<<a, b, a, b, NL>>, <<b, NL>>>>>>
Server == INSTANCE Server WITH Client <- {a, b}, NoClient <- none,
                               Scripts <- {MCScriptList[i] : i \in DOMAIN MCScriptList}, BufSize <- 3

serverVars == <<script, todo, wire, conn, auth, answers, ran, ready, serving, buf, unix, running>>

MCInit ==
    /\ focus \in {"mutex", "server"}
    /\ Init /\ Server!Init
    \* the clients are alike
    /\ \E i, j \in DOMAIN MCScriptList : i <= j /\ script[a] = MCScriptList[i] /\ script[b] = MCScriptList[j]
    /\ focus = "mutex" => script[a] = <<<<a, b, a, b, NL>>, <<b, NL>>>> /\ script[b] = script[a] /\ unix

MutexStep == focus = "mutex" /\ Next /\ UNCHANGED <<focus, serverVars>>
ServerStep == focus = "server" /\ Server!Next /\ UNCHANGED <<focus, vars>>
MCNext == MutexStep \/ ServerStep

MCSpec == MCInit /\ [][MCNext]_<<focus, vars, serverVars>> /\ Fairness /\ Server!Fairness

-----------------------------------------------------------------------------
\* Server: lines run in order, of those that come in pieces the last, and each is answered
\* once.
LinesAreServed == Server!TypeOK /\ Server!LinesRunAsWritten /\ Server!AnswersMatchLines
\* FifoMutex: whoever asks for the lock gets it.
\* Server: nothing that was written is left unread.
EverybodyIsServed == LockIsGiven /\ Server!WritesAreRead
=============================================================================
