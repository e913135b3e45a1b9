------------------------------- MODULE Server -------------------------------
(***************************************************************************)
(* The remote control server: ipc/server.c, the part of main_loop in        *)
(* ui/ui_curses.c that serves it, and what its clients do (app/main.c).     *)
(*                                                                         *)
(* A client writes command lines and the server answers each with text that *)
(* ends in an empty line. The server has no buffer per client: what it read *)
(* of a line is in a local variable of read_commands and is gone when there *)
(* is nothing left to read. A client may write while it is being served, so *)
(* each read is a step; the lines a read completes run at once.             *)
(***************************************************************************)
EXTENDS Integers, Sequences, FiniteSets, SequencesExt

CONSTANTS
    Client,
    NoClient,
    NL,         \* the newline
    Password, Quit,     \* symbols that have a meaning of their own
    Scripts,    \* the sequences of writes a client may make
    BufSize     \* sizeof(buf) in read_commands, in symbols


VARIABLES
    script,     \* history: what every client is going to write, at first
    todo,       \* what of it every client has still to write
    wire,       \* symbols in the socket, on the way to the server
    conn,       \* "none", "asked", "open", "closed" by the server; "gone", as
                \* soon as the client has left
    auth,       \* client->authenticated
    answers,    \* history: answers written to every client
    ran,        \* history: the lines run for every client
    ready,      \* the clients that select found readable and main_loop has to serve
    serving,    \* the client read_commands is called for
    buf,        \* its buffer
    unix,       \* does the server listen on a unix socket (else on TCP)?
    running     \* termus_running

svars == <<conn, auth, answers, ran, ready, serving, buf, running>>
cvars == <<script, todo, unix>>
vars == <<cvars, wire, svars>>

Init ==
    /\ script \in [Client -> Scripts] /\ todo = script
    /\ wire = [c \in Client |-> <<>>]
    /\ conn = [c \in Client |-> "none"]
    /\ auth = [c \in Client |-> FALSE]
    /\ answers = [c \in Client |-> 0]
    /\ ran = [c \in Client |-> <<>>]
    /\ ready = {} /\ serving = NoClient /\ buf = <<>>
    /\ unix \in BOOLEAN /\ running = TRUE

-----------------------------------------------------------------------------
(* Clients. *)

Connect(c) ==
    /\ running /\ conn[c] = "none"
    /\ conn' = [conn EXCEPT ![c] = "asked"]
    /\ UNCHANGED <<cvars, wire, auth, answers, ran, ready, serving, buf, running>>

\* write_line; one that does not wait for answers may write more than a line
Write(c) ==
    /\ conn[c] \in {"asked", "open"} /\ todo[c] # <<>>
    /\ wire' = [wire EXCEPT ![c] = @ \o Head(todo[c])]
    /\ todo' = [todo EXCEPT ![c] = Tail(@)]
    /\ UNCHANGED <<svars, script, unix>>

\* the client leaves, after it has written everything or before
Leave(c) ==
    /\ conn[c] = "open"
    /\ conn' = [conn EXCEPT ![c] = "gone"]
    /\ UNCHANGED <<cvars, wire, auth, answers, ran, ready, serving, buf, running>>

-----------------------------------------------------------------------------
(* The server. *)

\* server_accept
Accept(c) ==
    /\ running /\ serving = NoClient /\ conn[c] = "asked"
    /\ conn' = [conn EXCEPT ![c] = "open"]
    /\ UNCHANGED <<cvars, wire, auth, answers, ran, ready, serving, buf, running>>

Readable(c) == (conn[c] = "open" /\ wire[c] # <<>>) \/ conn[c] = "gone"

\* select in main_loop
Select ==
    /\ running /\ serving = NoClient /\ ready = {}
    /\ ready' = {c \in Client : Readable(c)}
    /\ ready' # {}
    /\ UNCHANGED <<cvars, wire, conn, auth, answers, ran, serving, buf, running>>

\* server_serve: read_commands begins with an empty buffer
Serve(c) ==
    /\ serving = NoClient /\ c \in ready
    /\ ready' = ready \ {c}
    /\ serving' = c /\ buf' = <<>>
    /\ auth' = [auth EXCEPT ![c] = @ \/ unix]
    /\ UNCHANGED <<cvars, wire, conn, answers, ran, running>>

\* write_all of an answer, an empty line or more (cmd_status): it fails when the
\* client is gone. It retries as long as the client does not read
Answered(s) == IF conn[serving] = "gone" THEN [s EXCEPT !.close = TRUE]
               ELSE [s EXCEPT !.answers = @ + 1]

\* faulty: what is no command has no answer
LineUnanswered(s, line) ==
    IF s.close \/ line = <<>> THEN s
    ELSE IF ~s.auth THEN [Answered(s) EXCEPT !.auth = TRUE]
    ELSE [Answered(s) EXCEPT !.ran = Append(@, line)]

\* the answer to the right password: that it could not be written is not looked at
Greeted(s) == [s EXCEPT !.auth = TRUE, !.answers = IF conn[serving] = "gone" THEN @ ELSE @ + 1]

\* What one line does, s being what read_commands and the commands change.
\* The password itself is not run
Line(s, line) ==
    IF s.close THEN s
    ELSE IF ~s.auth THEN IF line = <<Password>> THEN Greeted(s)
                         ELSE [Answered(s) EXCEPT !.close = TRUE]
    ELSE IF line \in {<<>>, <<Password>>} THEN Answered(s)
    ELSE [Answered(s) EXCEPT !.ran = Append(@, line),
                             !.running = s.running /\ line # <<Quit>>]

RECURSIVE Lines(_, _, _)
\* the lines of b, from symbol i, the last line having begun at symbol from
Lines(b, i, from) ==
    IF i > Len(b) THEN <<>>
    ELSE IF b[i] = NL THEN <<SubSeq(b, from, i - 1)>> \o Lines(b, i + 1, i + 1)
    ELSE Lines(b, i + 1, from)

Newlines(b) == {i \in DOMAIN b : b[i] = NL}

\* faulty: what is left behind the last newline is lost
RestForgotten(b) == IF Newlines(b) = {} THEN b ELSE <<>>

\* memmove(buf, buf + s, pos - s)
Rest(b) == IF Newlines(b) = {} THEN b
           ELSE SubSeq(b, (CHOOSE i \in Newlines(b) : \A j \in Newlines(b) : j <= i) + 1, Len(b))

\* faulty: one symbol too many
RoomForOneMore == BufSize + 1 - Len(buf)

Room == BufSize - Len(buf)

\* read has something: all there is and there is room for, and its lines run
Read ==
    /\ serving # NoClient /\ Room > 0 /\ wire[serving] # <<>>
    /\ LET n == IF Len(wire[serving]) < Room THEN Len(wire[serving]) ELSE Room
           all == buf \o SubSeq(wire[serving], 1, n)
           before == [close |-> FALSE, auth |-> auth[serving], running |-> running,
                      answers |-> answers[serving], ran |-> ran[serving]]
           s == FoldLeft(Line, before, Lines(all, 1, 1))
       IN  /\ wire' = [wire EXCEPT ![serving] = SubSeq(@, n + 1, Len(@))]
           /\ auth' = [auth EXCEPT ![serving] = s.auth]
           /\ answers' = [answers EXCEPT ![serving] = s.answers]
           /\ ran' = [ran EXCEPT ![serving] = s.ran]
           /\ running' = s.running
           /\ conn' = [conn EXCEPT ![serving] = IF s.close THEN "closed" ELSE @]
           /\ serving' = (IF s.close THEN NoClient ELSE serving)
           /\ buf' = (IF s.close THEN <<>> ELSE Rest(all))
    /\ UNCHANGED <<cvars, ready>>

\* EAGAIN: what is in buf is forgotten
ReadLater ==
    /\ serving # NoClient /\ Room > 0 /\ wire[serving] = <<>> /\ conn[serving] = "open"
    /\ serving' = NoClient /\ buf' = <<>>
    /\ UNCHANGED <<cvars, wire, conn, auth, answers, ran, ready, running>>

\* faulty: a full buffer is not told from an empty socket
ReadsNothingIfGone == wire[serving] = <<>> /\ conn[serving] = "gone"

\* read returns 0: the client has left, or there is no room in the buffer
ReadsNothing == Room = 0 \/ (wire[serving] = <<>> /\ conn[serving] = "gone")

ReadEnd ==
    /\ serving # NoClient /\ ReadsNothing
    /\ conn' = [conn EXCEPT ![serving] = "closed"]
    /\ serving' = NoClient /\ buf' = <<>>
    /\ UNCHANGED <<cvars, wire, auth, answers, ran, ready, running>>

\* main_loop ends after the clients that select named; server_exit, and the
\* end of the process closes the connections
Exit ==
    /\ ~running /\ serving = NoClient /\ ready = {}
    /\ \E c \in Client : conn[c] # "closed"
    /\ conn' = [c \in Client |-> "closed"]
    /\ UNCHANGED <<cvars, wire, auth, answers, ran, ready, serving, buf, running>>

-----------------------------------------------------------------------------
Serves == Select \/ Read \/ ReadLater \/ ReadEnd \/ Exit \/ \E c \in Client : Accept(c) \/ Serve(c)

Next ==
    \/ Select \/ Read \/ ReadLater \/ ReadEnd \/ Exit
    \/ \E c \in Client : Accept(c) \/ Serve(c)
    \/ \E c \in Client : Connect(c) \/ Write(c) \/ Leave(c)

Spec == Init /\ [][Next]_vars

\* the main loop goes round, and accepts whoever has asked for it
Fairness == WF_vars(Serves) /\ \A c \in Client : SF_vars(Accept(c))

-----------------------------------------------------------------------------
(* Properties. *)

TypeOK ==
    /\ conn \in [Client -> {"none", "asked", "open", "closed", "gone"}]
    /\ auth \in [Client -> BOOLEAN] /\ answers \in [Client -> Nat]
    /\ ready \subseteq Client /\ serving \in Client \cup {NoClient}
    /\ Len(buf) <= BufSize /\ (serving = NoClient => buf = <<>>)

All(c) == FlattenSeq(script[c])
Commands(lines) == SelectSeq(lines, LAMBDA l : l \notin {<<>>, <<Password>>})
Written(c) == LET n == Len(script[c]) - Len(todo[c])
              IN  Lines(FlattenSeq(SubSeq(script[c], 1, n)), 1, 1)

\* where a write of c ended, in symbols: a line that comes in pieces is cut there
Borders(c) == {Len(FlattenSeq(SubSeq(script[c], 1, n))) : n \in 0..Len(script[c])}
\* what can be left of the line that ends in front of symbol end: all of it, or what
\* came behind a border
Remains(c, end) ==
    LET from == CHOOSE i \in 0..end - 1 : /\ i = 0 \/ All(c)[i] = NL
                                         /\ \A j \in i + 1..end - 1 : All(c)[j] # NL
    IN  {SubSeq(All(c), i + 1, end - 1) : i \in {from} \cup (Borders(c) \cap from..end - 1)}

\* Whatever the reads cut it into, the server runs the lines of a client in order, none
\* twice, and leaves out only those that are no commands. A line that was written at
\* once is run whole; of one that was written in pieces the first of them may be lost
\* and what is left run as a command (read_commands gives up its buffer on EAGAIN), but
\* never is a part of a piece.
LinesRunAsWritten ==
    \A c \in Client :
        LET ends == SetToSortSeq(Newlines(All(c)), <)
        IN  \E left \in [DOMAIN ends -> UNION {Remains(c, e) : e \in Newlines(All(c))}] :
                /\ \A i \in DOMAIN ends : left[i] \in Remains(c, ends[i])
                /\ IsPrefix(ran[c], Commands(left))

\* A client never waits for an answer in vain, and has none too many: when all
\* it wrote is read and it is not being served, each line has its answer.
AnswersMatchLines ==
    \A c \in Client :
        conn[c] = "open" /\ serving # c /\ wire[c] = <<>> => answers[c] = Len(Written(c))

\* What a client wrote is read, or its connection is closed.
WritesAreRead ==
    \A c \in Client : (wire[c] # <<>>) ~> (wire[c] = <<>> \/ conn[c] = "closed")
=============================================================================
