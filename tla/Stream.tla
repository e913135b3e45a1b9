------------------------------- MODULE Stream -------------------------------
(***************************************************************************)
(* Opening what is to be played and reading it (core/input.c, core/http.c,  *)
(* common/read_wrapper.c): files with the plugins that may know them,       *)
(* and streams, by way of redirections and of playlists, with every call of *)
(* the system that can fail, next to another thread that opens and closes   *)
(* files too. A descriptor is a number, and the lowest free one is taken.   *)
(***************************************************************************)
EXTENDS Integers, Sequences, FiniteSets

CONSTANTS
    MaxFd,          \* the table of descriptors
    MaxLines,       \* bound: lines of a playlist
    Plugins,        \* by priority: [ext, priority]; "*" is any extension
    MetaUnit,       \* 16 in the code
    Streams,        \* what servers send: [bytes, metaint]; a byte is [kind, value]
    Words           \* parts of URIs, as characters

VARIABLES
    phase,          \* where ip_open is
    table,          \* whose each descriptor is: "free", "ip" or "other"
    fd,             \* hg.fd
    context,        \* who has called do_http_get: "open_remote" or "handle_line"
    redirections, lines, count,
    plugin,         \* ip->ops of a file
    data_fd,        \* ip->data.fd
    lost,           \* for the properties: the descriptors that were left behind
    wronged,        \* who closed one of the other thread, which then opens no more, or "none"
    stream, pos,    \* what is sent, and how much of it was read
    counter, metadata,
    audio           \* for the properties: bytes that were given to the plugin

vars == <<phase, table, fd, context, redirections, lines, count, plugin, data_fd, lost,
          wronged, stream, pos, counter, metadata, audio>>
reading == <<stream, pos, counter, metadata, audio>>

Fds == 0..MaxFd
Free == {n \in Fds : table[n] = "free"}
Lowest == CHOOSE n \in Free : \A m \in Free : n <= m

-----------------------------------------------------------------------------
(* URIs: what follows http://. *)

At(str, ch) == {i \in DOMAIN str : str[i] = ch}
First(set) == CHOOSE i \in set : \A j \in set : i <= j
Digits == {"0", "8"}
Bad == [host |-> "bad"]

\* faulty: a colon of the path is taken for that of the port
ParseUriColon(str) ==
    LET slash == IF At(str, "/") = {} THEN Len(str) + 1 ELSE First(At(str, "/"))
        ats == {i \in At(str, "@") : i < slash}
        from == IF ats = {} THEN 1 ELSE First(ats) + 1
        ports == {i \in At(str, ":") : i >= from}
        colon == First(ports)
    IN  [user |-> IF ats = {} THEN << >> ELSE SubSeq(str, 1, First(ats) - 1), pass |-> << >>,
         host |-> SubSeq(str, from, (IF ports = {} THEN slash ELSE colon) - 1),
         port |-> IF ports = {} THEN <<"8", "0">> ELSE SubSeq(str, colon + 1, slash - 1),
         path |-> IF slash > Len(str) THEN <<"/">> ELSE SubSeq(str, slash, Len(str))]
\* http_parse_uri
ParseUri(str) ==
    LET slash == IF At(str, "/") = {} THEN Len(str) + 1 ELSE First(At(str, "/"))
        ats == {i \in At(str, "@") : i < slash}
        at == First(ats)
        colons == {i \in At(str, ":") : i < at}
        from == IF ats = {} THEN 1 ELSE at + 1
        ports == {i \in At(str, ":") : i >= from /\ i < slash}
        colon == First(ports)
    IN  IF ports # {} /\ (colon + 1 = slash \/ \E i \in colon + 1..slash - 1 : str[i] \notin Digits)
        THEN Bad
        ELSE [user |-> IF ats = {} THEN << >>
                       ELSE SubSeq(str, 1, (IF colons = {} THEN at ELSE First(colons)) - 1),
              pass |-> IF ats = {} THEN << >>
                       ELSE IF colons = {} THEN << >> ELSE SubSeq(str, First(colons) + 1, at - 1),
              host |-> SubSeq(str, from, (IF ports = {} THEN slash ELSE colon) - 1),
              port |-> IF ports = {} THEN <<"8", "0">> ELSE SubSeq(str, colon + 1, slash - 1),
              path |-> IF slash > Len(str) THEN <<"/">> ELSE SubSeq(str, slash, Len(str))]

-----------------------------------------------------------------------------
Init ==
    /\ phase = "closed" /\ table = [n \in Fds |-> "free"] /\ fd = -1
    /\ context = "open_remote" /\ redirections = 0 /\ lines = 0 /\ count = 0
    /\ plugin = 0 /\ data_fd = -1 /\ lost = {} /\ wronged = "none"
    /\ stream = [bytes |-> << >>, metaint |-> 0] /\ pos = 0 /\ counter = 0 /\ metadata = 0 /\ audio = 0

Closed(n) == [table EXCEPT ![n] = "free"]
\* close(n), by a function that takes the number for its own
CloseOwn(n, function) ==
    /\ table' = Closed(n) /\ wronged' = IF table[n] = "other" THEN function ELSE wronged

\* ip_open fails: ip_reset closes the descriptor it knows of
Failed ==
    /\ phase' = "closed" /\ data_fd' = -1 /\ fd' = -1
    /\ IF data_fd >= 0 THEN CloseOwn(data_fd, "ip_open") ELSE UNCHANGED <<table, wronged>>
FailedKeeps == UNCHANGED <<context, redirections, lines, count, plugin, reading>>

-----------------------------------------------------------------------------
(* Files. *)

\* get_ops_by_extension: the next plugin that may know the file, 0 if there is none
NextPlugin(ext, after) ==
    LET fit == {i \in DOMAIN Plugins :
                  /\ i > after /\ Plugins[i].ext \in {ext, "*"}
                  /\ \A j \in 1..i : Plugins[j].priority > 0}
    IN  IF fit = {} THEN 0 ELSE First(fit)

\* open_file, as far as the first plugin
OpenFile ==
    /\ phase = "closed" /\ Free # {}
    /\ \E ext \in {Plugins[i].ext : i \in DOMAIN Plugins} :
          /\ NextPlugin(ext, 0) # 0 /\ plugin' = NextPlugin(ext, 0) /\ context' = ext
    /\ data_fd' = Lowest /\ table' = [table EXCEPT ![Lowest] = "ip"] /\ phase' = "plugin"
    /\ UNCHANGED <<fd, redirections, lines, count, lost, wronged, reading>>
\* the plugin does not know the type of the file, and there is another one
Fallback ==
    /\ phase = "plugin" /\ NextPlugin(context, plugin) # 0
    /\ plugin' = NextPlugin(context, plugin)
    /\ UNCHANGED <<phase, table, fd, context, redirections, lines, count, data_fd, lost,
                   wronged, reading>>
\* it opens the file, or fails
OpenPlugin ==
    /\ phase \in {"plugin", "remote plugin"}
    /\ \/ phase' = "open" /\ UNCHANGED <<table, fd, data_fd, lost, wronged>>
       \/ Failed /\ UNCHANGED lost
    /\ FailedKeeps
\* ip_open: what it has opened has no rate, channels or bits, and neither it nor the
\* descriptor is closed any more, as ip->open is not set
Corrupt ==
    /\ phase \in {"plugin", "remote plugin"}
    /\ phase' = "closed" /\ data_fd' = -1 /\ fd' = -1 /\ lost' = lost \cup {data_fd}
    /\ UNCHANGED <<table, wronged>>
    /\ FailedKeeps

-----------------------------------------------------------------------------
(* Streams. *)

Get(from) == phase' = "get" /\ fd' = -1 /\ context' = from

\* open_remote
OpenRemote ==
    /\ phase = "closed" /\ Get("open_remote") /\ redirections' = 0 /\ lines' = 0 /\ count' = 0
    /\ \E s \in Streams : stream' = s
    /\ pos' = 0 /\ counter' = 0 /\ metadata' = 0 /\ audio' = 0
    /\ UNCHANGED <<table, plugin, data_fd, lost, wronged>>
GetKeeps == UNCHANGED <<context, lines, count, plugin, data_fd, lost, reading>>

\* do_http_get: the URI or the name of the host is bad, or there is no descriptor
BadUri ==
    /\ phase = "get" /\ phase' = "failed" /\ UNCHANGED <<table, fd, redirections, wronged>> /\ GetKeeps
Socket ==
    /\ phase = "get" /\ Free # {} /\ fd' = Lowest /\ table' = [table EXCEPT ![Lowest] = "ip"]
    /\ phase' = "connect" /\ UNCHANGED <<redirections, wronged>> /\ GetKeeps
\* http_open: connected, refused or timed out; it is closed then, and hg.fd still its number
Connect ==
    /\ phase = "connect"
    /\ \/ phase' = "request" /\ UNCHANGED <<table, wronged>>
       \/ phase' = "failed" /\ CloseOwn(fd, "http_open")
    /\ UNCHANGED <<fd, redirections>> /\ GetKeeps
\* faulty: the connection stays open
RedirectedOpen == fd' = -1 /\ UNCHANGED <<table, wronged>>
\* the connection is closed before the next one
Redirected == fd' = -1 /\ CloseOwn(fd, "do_http_get")
\* http_get and what do_http_get makes of the answer: none, a bad one, a page, another
\* place, or a status that is an error
Answer ==
    /\ phase = "request"
    /\ \/ phase' \in {"failed", "answer"} /\ UNCHANGED <<fd, table, redirections, wronged>>
       \/ /\ redirections' = redirections + 1
          /\ IF redirections' > 2 THEN phase' = "failed" /\ UNCHANGED <<fd, table, wronged>>
             ELSE Redirected /\ phase' = "get"
    /\ GetKeeps

\* open_remote: nobody closes hg.fd
FirstFailed ==
    /\ phase = "failed" /\ context = "open_remote"
    /\ lost' = IF fd >= 0 /\ table[fd] = "ip" THEN lost \cup {fd} ELSE lost
    /\ Failed /\ FailedKeeps
\* handle_line: hg.fd is closed, if it is closed already as well; then the next line
LineFailed ==
    /\ phase = "failed" /\ context = "handle_line"
    /\ IF fd >= 0 THEN CloseOwn(fd, "handle_line") ELSE UNCHANGED <<table, wronged>>
    /\ phase' = "playlist" /\ fd' = -1
    /\ UNCHANGED <<context, redirections, lines, count, plugin, data_fd, lost, reading>>

\* setup_remote: the type is known, and the descriptor the input's, or it is closed
Setup ==
    /\ phase = "answer"
    /\ \/ phase' = "remote plugin" /\ data_fd' = fd /\ UNCHANGED <<table, wronged>>
       \/ phase' = "closed" /\ CloseOwn(fd, "setup_remote") /\ UNCHANGED data_fd
    /\ fd' = -1
    /\ UNCHANGED <<context, redirections, lines, count, plugin, lost, reading>>
\* read_playlist; a playlist in a playlist is of no known type
ReadPlaylist ==
    /\ phase = "answer" /\ context = "open_remote"
    /\ CloseOwn(fd, "read_playlist") /\ fd' = -1
    /\ \E n \in 0..MaxLines : lines' = n
    /\ phase' = "playlist"
    /\ UNCHANGED <<context, redirections, count, plugin, data_fd, lost, reading>>
Line ==
    /\ phase = "playlist" /\ lines > 0
    /\ Get("handle_line") /\ lines' = lines - 1 /\ count' = count + 1 /\ redirections' = 0
    /\ UNCHANGED <<table, plugin, data_fd, lost, wronged, reading>>
\* none could be opened
EndOfPlaylist ==
    /\ phase = "playlist" /\ lines = 0 /\ Failed
    /\ UNCHANGED <<context, redirections, lines, count, plugin, lost, reading>>

\* ip_close
Close ==
    /\ phase = "open" /\ phase' = "closed"
    /\ CloseOwn(data_fd, "ip_close") /\ data_fd' = -1
    /\ UNCHANGED <<fd, context, redirections, lines, count, plugin, lost, reading>>

\* another thread, a file of its own at a time
Other == \E n \in Fds : table[n] = "other"
OtherOpens ==
    /\ ~Other /\ wronged = "none" /\ Free # {} /\ table' = [table EXCEPT ![Lowest] = "other"]
    /\ UNCHANGED <<phase, fd, context, redirections, lines, count, plugin, data_fd, lost,
                   wronged, reading>>
OtherCloses ==
    /\ \E n \in Fds : table[n] = "other" /\ table' = Closed(n)
    /\ UNCHANGED <<phase, fd, context, redirections, lines, count, plugin, data_fd, lost,
                   wronged, reading>>

-----------------------------------------------------------------------------
(* Reading a stream: after every metaint bytes come a byte and as many times *)
(* MetaUnit bytes of metadata.                                               *)

Left == Len(stream.bytes) - pos
Least(a, b) == IF a < b THEN a ELSE b
\* read returns rc bytes of those that were asked for
Given(at, rc) ==
    /\ pos' = at + rc
    /\ audio' = IF rc > 0 /\ \A i \in at + 1..at + rc : stream.bytes[i].kind = "audio"
                THEN audio + rc ELSE audio
\* faulty: a read that is cut short by the metadata starts over
ReadWrapperOver(asked) ==
    \E rc \in 1..Least(asked, Left) : Given(pos, rc) /\ counter' = rc /\ UNCHANGED <<stream, metadata>>
\* read_wrapper; what it reads is all of the kind it takes it for. A read that fails (rc is
\* -1 then) takes nothing from the stream, like one of which rc is 0; within the metadata,
\* where read_all goes on after a signal, the connection is gone with it.
ReadWrapper(asked) ==
    IF stream.metaint = 0
    THEN \E rc \in 0..Least(asked, Left) : Given(pos, rc) /\ UNCHANGED <<stream, counter, metadata>>
    ELSE LET due == counter = stream.metaint
             len == IF due THEN MetaUnit * stream.bytes[pos + 1].value ELSE 0
             at == IF due THEN pos + 1 + len ELSE pos
             from == IF due THEN 0 ELSE counter
         IN  \/ due /\ UNCHANGED reading    \* the length cannot be read
             \* all of the metadata cannot be read
             \/ /\ \E n \in 0..Least(len, Left) - 1 : pos' = pos + 1 + n
                /\ stream' = [stream EXCEPT !.bytes = SubSeq(@, 1, pos')]
                /\ metadata' = 0 /\ UNCHANGED <<counter, audio>>
             \/ /\ at <= Len(stream.bytes)
                /\ metadata' = IF len > 0 THEN at ELSE metadata
                /\ \E rc \in 0..Least(Least(asked, stream.metaint - from), Len(stream.bytes) - at) :
                      Given(at, rc) /\ counter' = from + rc
                /\ UNCHANGED stream
ReadStream ==
    /\ phase = "open" /\ context \in {"open_remote", "handle_line"} /\ Left > 0
    /\ \E asked \in 1..3 : ReadWrapper(asked)
    /\ UNCHANGED <<phase, table, fd, context, redirections, lines, count, plugin, data_fd, lost, wronged>>

Next ==
    \/ OpenFile \/ Fallback \/ OpenPlugin \/ Corrupt
    \/ OpenRemote \/ BadUri \/ Socket \/ Connect \/ Answer \/ FirstFailed \/ LineFailed
    \/ Setup \/ ReadPlaylist \/ Line \/ EndOfPlaylist \/ Close \/ OtherOpens \/ OtherCloses
    \/ ReadStream

-----------------------------------------------------------------------------
Owned == {n \in Fds : table[n] = "ip"} \ lost
\* ip_open, do_http_get and read_playlist: whatever fails, what is open has its descriptor
\* and one only, and what is not has none but those that are lost: a first request that is
\* answered with an error leaves its descriptor behind, and so does what is corrupt. A
\* descriptor of another thread is closed by handle_line alone, which closes a connection
\* that has failed a second time; open, close and all else in between never do.
DescriptorsAreKept ==
    /\ phase \in {"closed", "get", "playlist"} => Owned = {}
    /\ phase \in {"plugin", "remote plugin", "open"} => Owned = {data_fd}
    /\ phase \in {"connect", "request", "answer"} => Owned = {fd}
    /\ wronged \in {"none", "handle_line"}
    /\ redirections <= 3 /\ count <= MaxLines

\* read_wrapper: however the reads are cut, the plugin is given every byte of audio that
\* has come and nothing else, and the metadata is the last that has come as a whole.
OnlyAudioIsPlayed ==
    /\ audio = Cardinality({i \in 1..pos : stream.bytes[i].kind = "audio"})
    /\ metadata # 0 =>
          /\ stream.bytes[metadata].kind = "meta"
          /\ \A i \in metadata + 1..pos : stream.bytes[i].kind = "meta" => pos = Len(stream.bytes)

\* http_parse_uri: the parts of a URI are found again, whatever the path and the password
\* have in them.
UrisAreRead ==
    \A user, pass, host \in Words : \A port \in {<< >>, <<"8">>, <<"8", "0">>} : \A path \in Words \cup {<<":", "@">>} :
        LET whole == (IF user = << >> THEN << >> ELSE user \o (IF pass = << >> THEN << >> ELSE <<":">> \o pass) \o <<"@">>)
                     \o host \o (IF port = << >> THEN << >> ELSE <<":">> \o port) \o <<"/">> \o path
        IN  ParseUri(whole) =
               [user |-> user, pass |-> IF user = << >> THEN << >> ELSE pass, host |-> host,
                port |-> IF port = << >> THEN <<"8", "0">> ELSE port, path |-> <<"/">> \o path]
=============================================================================
