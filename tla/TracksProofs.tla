---------------------------- MODULE TracksProofs ----------------------------
(***************************************************************************)
(* More about Jobs, with JobsProofs: the way of every track from the       *)
(* file system to its list.                                                 *)
(*                                                                         *)
(* Jobs run one after the other and a job goes through its entries in one   *)
(* direction, so the tracks that were found have an order.  InPipe says     *)
(* that the places a track passes, the buffer, the results and the lists,   *)
(* never disagree with it: what is further on was found sooner.  As nothing *)
(* was found sooner than itself, no track is in two places.                 *)
(***************************************************************************)
EXTENDS JobsProofs

\* s was found before t by the jobs of the order of their numbers; front is the
\* direction in which the job of t goes through its entries.
Sooner(s, t, front) ==
    \/ s[1] < t[1]
    \/ s[1] = t[1] /\ IF front THEN t[2] < s[2] ELSE s[2] < t[2]

\* The tracks of a batch, without the NULL, those of a result and of all results.
TracksOf(seq) == {seq[k] : k \in DOMAIN seq} \ {EndOfLoad}
Sent(res) == IF res.kind = "ADD" THEN TracksOf(res.items) ELSE {}
AllSent(rs) == UNION {Sent(rs[i]) : i \in DOMAIN rs}

\* What has come to the lists, some of it cleared since.
Listed == UNION {TracksOf(content[l]) : l \in Lists}
Settled == dropped \union Listed

AllSooner(A, B, front) == \A s \in A, t \in B : Sooner(s, t, front)
Ascends(seq, front) ==
    \A i, k \in DOMAIN seq :
        i < k /\ seq[i] # EndOfLoad /\ seq[k] # EndOfLoad => Sooner(seq[i], seq[k], front)

\* The settled tracks A, the results rs and the buffer b of a job with direction f
\* are in the order of finding.
InPipe(A, rs, b, f) ==
    /\ \A i \in DOMAIN rs : rs[i].kind = "ADD" =>
           AllSooner(A, TracksOf(rs[i].items), rs[i].front) /\ Ascends(rs[i].items, rs[i].front)
    /\ \A i, k \in DOMAIN rs : i < k /\ rs[k].kind = "ADD" =>
           AllSooner(Sent(rs[i]), TracksOf(rs[k].items), rs[k].front)
    /\ AllSooner(A \union AllSent(rs), TracksOf(b), f)
    /\ Ascends(b, f)

Adding == cur # NoJob /\ cur.kind = "ADD"
Known(jobs, job) ==
    /\ job.id \in 1 .. Len(jobs) /\ jobs[job.id] = job.list
    /\ job.front => job.list = Queue

\* Jobs are numbered in the order in which they run.
JobsNumbered ==
    /\ \A i \in DOMAIN queue : queue[i].kind = "ADD" => Known(log, queue[i])
    /\ Adding => Known(log, cur)
    /\ \A i, k \in DOMAIN queue :
           i < k /\ queue[i].kind = "ADD" /\ queue[k].kind = "ADD" => queue[i].id < queue[k].id
    /\ \A i \in DOMAIN queue : queue[i].kind = "ADD" /\ Adding => cur.id < queue[i].id

\* What was found is of jobs that have run, and of the entries the running one has
\* gone through.
FoundNumbered ==
    /\ found \subseteq Tracks
    /\ \A t \in found : t[1] \in 1 .. Len(log)
    /\ \A t \in found, i \in DOMAIN queue : queue[i].kind = "ADD" => t[1] < queue[i].id
    /\ Adding => \A t \in found :
           \/ t[1] < cur.id
           \/ t[1] = cur.id /\ IF cur.front THEN cur.n - seen < t[2] ELSE t[2] <= seen

\* What was found is somewhere, and where it belongs.
Whereabouts ==
    /\ found = Settled \union AllSent(results) \union TracksOf(buffer)
    /\ dropped \intersect Listed = {}
    /\ buffer # <<>> => Adding /\ wpc # "done"
    /\ \A l \in Lists : \A t \in TracksOf(content[l]) : log[t[1]] = l
    /\ \A i \in DOMAIN results : results[i].kind = "ADD" =>
           /\ results[i].front => results[i].list = Queue
           /\ \A t \in TracksOf(results[i].items) : log[t[1]] = results[i].list
    /\ \A t \in TracksOf(buffer) : log[t[1]] = cur.list

Piped == InPipe(Settled, results, buffer, cur.front)

-----------------------------------------------------------------------------
(* The rest of the types. *)

\* The buffer and the batches are no longer than a batch may be, and no batch is empty.
Sizes ==
    /\ seen <= MaxTracks /\ Len(buffer) <= TI_CAP /\ Len(log) <= MaxJobs
    /\ \A i \in DOMAIN results : results[i].kind = "ADD" => Len(results[i].items) \in 1 .. TI_CAP

\* A playlist that is deleted, at whatever stage, was made.
OnceMade ==
    /\ rest = "delete" => target \in 1 .. made
    /\ \A i \in DOMAIN queue : queue[i].kind = "DELETE" => queue[i].list \in 1 .. made
    /\ cur # NoJob /\ cur.kind = "DELETE" => cur.list \in 1 .. made
    /\ \A i \in DOMAIN results : results[i].kind = "DELETE" => results[i].list \in 1 .. made
    /\ freed \subseteq 1 .. made

Flags ==
    /\ cancel \in BOOLEAN /\ removing \in BOOLEAN /\ state \in {"PAUSED", "RUNNING", "STOPPED"}
    /\ ended \in BOOLEAN /\ pipe \in BOOLEAN
    /\ resume \in BOOLEAN /\ quitting \in BOOLEAN /\ asked \in BOOLEAN
    /\ mpc \in {"loop", "remove", "handle", "join", "over", "bug"}
    /\ rest \in {"nothing", "clear", "load", "reload", "delete", "stop"}
    /\ target \in Lists \union {NoList}

Played == ptrack \in Tracks \union {NoTrack} /\ lost \subseteq Tracks

-----------------------------------------------------------------------------
(* Sequences of tracks. *)

\* The tracks of a sequence that grows, and those of two in a row.
LEMMA TracksOfJoined ==
    ASSUME NEW S, NEW s \in Seq(S), NEW t \in Seq(S)
    PROVE  /\ TracksOf(<<>>) = {}
           /\ \A x \in S : TracksOf(Append(s, x)) = TracksOf(s) \union ({x} \ {EndOfLoad})
           /\ TracksOf(s \o t) = TracksOf(s) \union TracksOf(t)
<1>1. TracksOf(<<>>) = {}
    BY DEF TracksOf
<1>2. Len(s) \in Nat /\ Len(t) \in Nat /\ DOMAIN s = 1 .. Len(s) /\ DOMAIN t = 1 .. Len(t)
    OBVIOUS
<1>3. ASSUME NEW x \in S PROVE TracksOf(Append(s, x)) = TracksOf(s) \union ({x} \ {EndOfLoad})
    <2> DEFINE u == Append(s, x)
    <2>1. /\ DOMAIN u = 1 .. Len(s) + 1
          /\ u[Len(s) + 1] = x
          /\ \A k \in 1 .. Len(s) : u[k] = s[k]
        BY <1>2
    <2>2. \A k \in 1 .. Len(s) + 1 : k \in 1 .. Len(s) \/ k = Len(s) + 1
        BY <1>2
    <2>3. 1 .. Len(s) \subseteq 1 .. Len(s) + 1 /\ Len(s) + 1 \in 1 .. Len(s) + 1
        BY <1>2
    <2> HIDE DEF u
    <2>4. {u[k] : k \in DOMAIN u} = {s[k] : k \in DOMAIN s} \union {x}
        BY <1>2, <2>1, <2>2, <2>3
    <2>5. TracksOf(u) = TracksOf(s) \union ({x} \ {EndOfLoad})
        BY <2>4, Zenon DEF TracksOf
    <2> QED
        BY <2>5 DEF u
<1>4. TracksOf(s \o t) = TracksOf(s) \union TracksOf(t)
    <2> DEFINE u == s \o t
    <2>1. /\ DOMAIN u = 1 .. Len(s) + Len(t)
          /\ \A k \in 1 .. Len(s) : u[k] = s[k]
          /\ \A k \in 1 .. Len(t) : u[Len(s) + k] = t[k]
        BY <1>2
    <2>2. \A k \in DOMAIN u : k \in 1 .. Len(s) \/ (k - Len(s) \in 1 .. Len(t) /\ k = Len(s) + (k - Len(s)))
        BY <1>2, <2>1
    <2>3. \A k \in 1 .. Len(s) : k \in DOMAIN u
        BY <1>2, <2>1
    <2>4. \A k \in 1 .. Len(t) : Len(s) + k \in DOMAIN u
        BY <1>2, <2>1
    <2> HIDE DEF u
    <2>5. ASSUME NEW y PROVE (\E k \in DOMAIN u : u[k] = y) <=> (\E k \in DOMAIN s : s[k] = y) \/ (\E k \in DOMAIN t : t[k] = y)
        <3>1. ASSUME NEW k \in DOMAIN u, u[k] = y
              PROVE  (\E m \in DOMAIN s : s[m] = y) \/ (\E m \in DOMAIN t : t[m] = y)
            <4>1. CASE k \in 1 .. Len(s)
                BY <1>2, <2>1, <3>1, <4>1
            <4>2. CASE k - Len(s) \in 1 .. Len(t) /\ k = Len(s) + (k - Len(s))
                <5>1. t[k - Len(s)] = u[k] /\ k - Len(s) \in DOMAIN t
                    BY <1>2, <2>1, <4>2
                <5> QED
                    BY <3>1, <5>1
            <4> QED
                BY <2>2, <3>1, <4>1, <4>2
        <3>2. ASSUME NEW k \in DOMAIN s, s[k] = y PROVE \E m \in DOMAIN u : u[m] = y
            BY <1>2, <2>1, <2>3, <3>2
        <3>3. ASSUME NEW k \in DOMAIN t, t[k] = y PROVE \E m \in DOMAIN u : u[m] = y
            BY <1>2, <2>1, <2>4, <3>3
        <3> QED
            BY <3>1, <3>2, <3>3
    <2>6. TracksOf(u) = TracksOf(s) \union TracksOf(t)
        BY <2>5 DEF TracksOf
    <2> QED
        BY <2>6 DEF u
<1> QED
    BY <1>1, <1>3, <1>4

\* Turning a sequence round keeps its tracks.
LEMMA TracksOfReverse ==
    ASSUME NEW S, NEW s \in Seq(S)
    PROVE  /\ DOMAIN Reverse(s) = DOMAIN s
           /\ \A k \in DOMAIN s : (Len(s) - k) + 1 \in DOMAIN s /\ Reverse(s)[k] = s[(Len(s) - k) + 1]
           /\ TracksOf(Reverse(s)) = TracksOf(s)
<1>1. Len(s) \in Nat /\ DOMAIN s = 1 .. Len(s)
    OBVIOUS
<1>2. Reverse(s) = [i \in 1 .. Len(s) |-> s[(Len(s) - i) + 1]]
    BY DEF Reverse
<1>3. \A k \in 1 .. Len(s) : (Len(s) - k) + 1 \in 1 .. Len(s) /\ (Len(s) - ((Len(s) - k) + 1)) + 1 = k
    BY <1>1
<1>4. \A k \in 1 .. Len(s) : Reverse(s)[k] = s[(Len(s) - k) + 1]
    BY <1>2
<1>5. \A k \in 1 .. Len(s) : s[k] = Reverse(s)[(Len(s) - k) + 1]
    BY <1>3, <1>4
<1>6. DOMAIN Reverse(s) = 1 .. Len(s)
    BY <1>2
<1>7. {Reverse(s)[k] : k \in DOMAIN Reverse(s)} = {s[k] : k \in DOMAIN s}
    BY <1>1, <1>3, <1>4, <1>5, <1>6
<1> QED
    BY <1>1, <1>3, <1>4, <1>6, <1>7 DEF TracksOf

-----------------------------------------------------------------------------
(* The pipe of tracks. *)

\* What is there of a result that is added.
LEMMA SentFacts ==
    ASSUME NEW rs, NEW i \in DOMAIN rs
    PROVE  /\ Sent(rs[i]) \subseteq AllSent(rs)
           /\ rs[i].kind = "ADD" => Sent(rs[i]) = TracksOf(rs[i].items)
           /\ rs[i].kind # "ADD" => Sent(rs[i]) = {}
    BY DEF Sent, AllSent

\* A result behind the others.
LEMMA SentAppended ==
    ASSUME NEW S, NEW rs \in Seq(S), NEW x \in S
    PROVE  AllSent(Append(rs, x)) = AllSent(rs) \union Sent(x)
<1> DEFINE u == Append(rs, x)
<1>1. Len(rs) \in Nat /\ DOMAIN rs = 1 .. Len(rs)
    OBVIOUS
<1>2. /\ DOMAIN u = 1 .. Len(rs) + 1
      /\ u[Len(rs) + 1] = x
      /\ \A k \in 1 .. Len(rs) : u[k] = rs[k]
    BY <1>1
<1>3. \A k \in 1 .. Len(rs) + 1 : k \in 1 .. Len(rs) \/ k = Len(rs) + 1
    BY <1>1
<1>4. 1 .. Len(rs) \subseteq 1 .. Len(rs) + 1 /\ Len(rs) + 1 \in 1 .. Len(rs) + 1
    BY <1>1
<1> HIDE DEF u
<1>5. ASSUME NEW t PROVE t \in AllSent(u) <=> t \in AllSent(rs) \/ t \in Sent(x)
    <2>1. t \in AllSent(u) <=> \E k \in 1 .. Len(rs) + 1 : t \in Sent(u[k])
        BY <1>2 DEF AllSent
    <2>2. t \in AllSent(rs) <=> \E k \in 1 .. Len(rs) : t \in Sent(rs[k])
        BY <1>1 DEF AllSent
    <2> QED
        BY <1>2, <1>3, <1>4, <2>1, <2>2
<1>6. AllSent(u) = AllSent(rs) \union Sent(x)
    BY <1>5
<1> QED
    BY <1>6 DEF u

\* The first result taken away.
LEMMA SentHandled ==
    ASSUME NEW S, NEW rs \in Seq(S), rs # <<>>
    PROVE  /\ AllSent(rs) = Sent(Head(rs)) \union AllSent(Tail(rs))
           /\ DOMAIN Tail(rs) = 1 .. Len(rs) - 1
           /\ \A k \in 1 .. Len(rs) - 1 : k + 1 \in DOMAIN rs /\ Tail(rs)[k] = rs[k + 1]
           /\ 1 \in DOMAIN rs /\ Head(rs) = rs[1]
<1>1. Len(rs) \in Nat /\ DOMAIN rs = 1 .. Len(rs) /\ Len(rs) # 0
    OBVIOUS
<1>2. /\ DOMAIN Tail(rs) = 1 .. Len(rs) - 1
      /\ \A k \in 1 .. Len(rs) - 1 : Tail(rs)[k] = rs[k + 1]
      /\ Head(rs) = rs[1]
    BY <1>1
<1>3. 1 \in DOMAIN rs /\ \A k \in 1 .. Len(rs) - 1 : k + 1 \in DOMAIN rs
    BY <1>1
<1>4. \A k \in DOMAIN rs : k = 1 \/ (k - 1 \in 1 .. Len(rs) - 1 /\ k = (k - 1) + 1)
    BY <1>1
<1>5. ASSUME NEW t PROVE t \in AllSent(rs) <=> t \in Sent(Head(rs)) \/ t \in AllSent(Tail(rs))
    <2>1. t \in AllSent(Tail(rs)) <=> \E k \in 1 .. Len(rs) - 1 : t \in Sent(rs[k + 1])
        BY <1>2 DEF AllSent
    <2>2. t \in AllSent(rs) <=> \E k \in DOMAIN rs : t \in Sent(rs[k])
        BY DEF AllSent
    <2>3. ASSUME NEW k \in DOMAIN rs, t \in Sent(rs[k])
          PROVE  t \in Sent(Head(rs)) \/ t \in AllSent(Tail(rs))
        BY <1>2, <1>4, <2>1, <2>3
    <2> QED
        BY <1>2, <1>3, <2>1, <2>2, <2>3
<1> QED
    BY <1>2, <1>3, <1>5

\* With an empty buffer the direction does not matter.
LEMMA NothingBuffered ==
    ASSUME NEW A, NEW rs, NEW f, InPipe(A, rs, <<>>, f), NEW g
    PROVE  InPipe(A, rs, <<>>, g)
<1>1. TracksOf(<<>>) = {} /\ DOMAIN <<>> = {}
    BY DEF TracksOf
<1> QED
    BY <1>1 DEF InPipe, AllSooner, Ascends

\* A batch is sent: what was in the buffer is a result behind the others.
LEMMA Pushed ==
    ASSUME NEW A, NEW S, NEW rs \in Seq(S), NEW b, NEW f, InPipe(A, rs, b, f),
           NEW x \in S, x.kind = "ADD", x.items = b, x.front = f
    PROVE  InPipe(A, Append(rs, x), <<>>, f)
<1> DEFINE u == Append(rs, x)
<1>1. Len(rs) \in Nat /\ DOMAIN rs = 1 .. Len(rs)
    OBVIOUS
<1>2. /\ DOMAIN u = 1 .. Len(rs) + 1
      /\ u[Len(rs) + 1] = x
      /\ \A k \in 1 .. Len(rs) : u[k] = rs[k]
    BY <1>1
<1>3. \A k \in 1 .. Len(rs) + 1 : k \in 1 .. Len(rs) \/ k = Len(rs) + 1
    BY <1>1
<1> HIDE DEF u
<1>4. ASSUME NEW i \in DOMAIN u, u[i].kind = "ADD"
      PROVE  AllSooner(A, TracksOf(u[i].items), u[i].front) /\ Ascends(u[i].items, u[i].front)
    <2>1. CASE i \in 1 .. Len(rs)
        BY <1>1, <1>2, <1>4, <2>1 DEF InPipe
    <2>2. CASE i = Len(rs) + 1
        BY <1>2, <2>2 DEF InPipe, AllSooner
    <2> QED
        BY <1>2, <1>3, <2>1, <2>2
<1>5. ASSUME NEW i \in DOMAIN u, NEW k \in DOMAIN u, i < k, u[k].kind = "ADD"
      PROVE  AllSooner(Sent(u[i]), TracksOf(u[k].items), u[k].front)
    <2>1. i \in 1 .. Len(rs)
        BY <1>1, <1>2, <1>5
    <2>2. u[i] = rs[i] /\ Sent(rs[i]) \subseteq AllSent(rs)
        BY <1>1, <1>2, <2>1, SentFacts
    <2>3. CASE k \in 1 .. Len(rs)
        BY <1>1, <1>2, <1>5, <2>1, <2>3 DEF InPipe
    <2>4. CASE k = Len(rs) + 1
        BY <1>2, <2>2, <2>4 DEF InPipe, AllSooner
    <2> QED
        BY <1>2, <1>3, <2>3, <2>4
<1>6. TracksOf(<<>>) = {} /\ DOMAIN <<>> = {}
    BY DEF TracksOf
<1>7. InPipe(A, u, <<>>, f)
    BY <1>4, <1>5, <1>6 DEF InPipe, AllSooner, Ascends
<1> QED
    BY <1>7 DEF u

\* A track that was found after all others, or a NULL, goes to the buffer.
LEMMA Buffered ==
    ASSUME NEW A, NEW rs, NEW S, NEW b \in Seq(S), NEW f, InPipe(A, rs, b, f),
           NEW x \in S,
           x # EndOfLoad => \A s \in A \union AllSent(rs) \union TracksOf(b) : Sooner(s, x, f)
    PROVE  InPipe(A, rs, Append(b, x), f)
<1> DEFINE u == Append(b, x)
<1>1. Len(b) \in Nat /\ DOMAIN b = 1 .. Len(b)
    OBVIOUS
<1>2. /\ DOMAIN u = 1 .. Len(b) + 1
      /\ u[Len(b) + 1] = x
      /\ \A k \in 1 .. Len(b) : u[k] = b[k]
    BY <1>1
<1>3. \A k \in 1 .. Len(b) + 1 : k \in 1 .. Len(b) \/ k = Len(b) + 1
    BY <1>1
<1>4. TracksOf(u) = TracksOf(b) \union ({x} \ {EndOfLoad})
    BY TracksOfJoined
<1> HIDE DEF u
<1>5. AllSooner(A \union AllSent(rs), TracksOf(u), f)
    BY <1>4 DEF InPipe, AllSooner
<1>6. ASSUME NEW i \in DOMAIN u, NEW k \in DOMAIN u, i < k, u[i] # EndOfLoad, u[k] # EndOfLoad
      PROVE  Sooner(u[i], u[k], f)
    <2>1. i \in 1 .. Len(b)
        BY <1>1, <1>2, <1>6
    <2>2. u[i] = b[i] /\ b[i] \in TracksOf(b)
        BY <1>1, <1>2, <1>6, <2>1 DEF TracksOf
    <2>3. CASE k \in 1 .. Len(b)
        BY <1>1, <1>2, <1>6, <2>1, <2>3 DEF InPipe, Ascends
    <2>4. CASE k = Len(b) + 1
        BY <1>2, <1>6, <2>2, <2>4
    <2> QED
        BY <1>2, <1>3, <2>3, <2>4
<1>7. InPipe(A, rs, u, f)
    BY <1>5, <1>6 DEF InPipe, Ascends
<1> QED
    BY <1>7 DEF u

\* Reports of deletions send no track.
LEMMA ReportsSend ==
    ASSUME NEW S, NEW rs \in Seq(S), NEW ds \in Seq(S), \A i \in DOMAIN ds : ds[i].kind = "DELETE",
           NEW u, u = rs \o ds
    PROVE  /\ AllSent(u) = AllSent(rs)
           /\ \A k \in DOMAIN rs : k \in DOMAIN u /\ u[k] = rs[k]
           /\ \A k \in DOMAIN u : (k \in DOMAIN rs /\ u[k] = rs[k]) \/ u[k].kind = "DELETE"
<1>1. /\ Len(rs) \in Nat /\ DOMAIN rs = 1 .. Len(rs)
      /\ Len(ds) \in Nat /\ DOMAIN ds = 1 .. Len(ds)
    OBVIOUS
<1>2. /\ DOMAIN u = 1 .. Len(rs) + Len(ds)
      /\ \A k \in 1 .. Len(rs) : u[k] = rs[k]
      /\ \A k \in 1 .. Len(ds) : u[Len(rs) + k] = ds[k]
    BY <1>1
<1>3. \A k \in DOMAIN u : k \in 1 .. Len(rs) \/ (k - Len(rs) \in 1 .. Len(ds) /\ k = Len(rs) + (k - Len(rs)))
    BY <1>1, <1>2
<1>4. \A k \in DOMAIN rs : k \in DOMAIN u /\ u[k] = rs[k]
    BY <1>1, <1>2
<1>5. \A k \in DOMAIN u : (k \in DOMAIN rs /\ u[k] = rs[k]) \/ u[k].kind = "DELETE"
    BY <1>1, <1>2, <1>3
<1>6. \A k \in DOMAIN u : u[k].kind = "DELETE" => Sent(u[k]) = {}
    BY DEF Sent
<1>7. AllSent(u) = AllSent(rs)
    <2>1. \A k \in DOMAIN rs : k \in DOMAIN u /\ Sent(u[k]) = Sent(rs[k])
        BY <1>4, Zenon
    <2>2. \A k \in DOMAIN u : (k \in DOMAIN rs /\ Sent(u[k]) = Sent(rs[k])) \/ Sent(u[k]) = {}
        BY <1>5, <1>6, Zenon
    <2>3. /\ AllSent(u) = UNION {Sent(u[k]) : k \in DOMAIN u}
          /\ AllSent(rs) = UNION {Sent(rs[k]) : k \in DOMAIN rs}
        BY DEF AllSent
    <2>4. ASSUME NEW x, x \in AllSent(u) PROVE x \in AllSent(rs)
        <3>1. PICK k \in DOMAIN u : x \in Sent(u[k])
            BY <2>3, <2>4
        <3>2. k \in DOMAIN rs /\ x \in Sent(rs[k])
            BY <2>2, <3>1, Zenon
        <3> QED
            BY <2>3, <3>2
    <2>5. ASSUME NEW x, x \in AllSent(rs) PROVE x \in AllSent(u)
        BY <2>1, <2>3, <2>5
    <2> QED
        BY <2>4, <2>5
<1> QED
    BY <1>4, <1>5, <1>7

\* Nor do they disturb the order.
LEMMA ReportsAdded ==
    ASSUME NEW A, NEW S, NEW rs \in Seq(S), NEW b, NEW f, InPipe(A, rs, b, f),
           NEW ds \in Seq(S), \A i \in DOMAIN ds : ds[i].kind = "DELETE",
           NEW u, u = rs \o ds
    PROVE  InPipe(A, u, b, f)
<1>0. AllSent(u) = AllSent(rs)
    BY ReportsSend
<1>1. \A k \in DOMAIN u : (k \in DOMAIN rs /\ u[k] = rs[k]) \/ u[k].kind = "DELETE"
    BY ReportsSend
<1>2. \A k \in DOMAIN u : u[k].kind = "ADD" => k \in DOMAIN rs /\ u[k] = rs[k]
    BY <1>1
<1>3. ASSUME NEW i \in DOMAIN u, NEW k \in DOMAIN u, i < k, u[k].kind = "ADD"
      PROVE  AllSooner(Sent(u[i]), TracksOf(u[k].items), u[k].front)
    <2>1. k \in DOMAIN rs /\ u[k] = rs[k]
        BY <1>2, <1>3
    <2>2. CASE i \in DOMAIN rs /\ u[i] = rs[i]
        BY <1>3, <2>1, <2>2 DEF InPipe
    <2>3. CASE u[i].kind = "DELETE"
        BY <2>3 DEF AllSooner, Sent
    <2> QED
        BY <1>1, <2>2, <2>3
<1> QED
    BY <1>0, <1>2, <1>3 DEF InPipe

\* The first result is handled: what it sent has settled.
LEMMA Handled ==
    ASSUME NEW A, NEW S, NEW rs \in Seq(S), rs # <<>>, NEW b, NEW f, InPipe(A, rs, b, f)
    PROVE  InPipe(A \union Sent(Head(rs)), Tail(rs), b, f)
<1> DEFINE u == Tail(rs)
<1>1. /\ AllSent(rs) = Sent(Head(rs)) \union AllSent(u)
      /\ DOMAIN u = 1 .. Len(rs) - 1
      /\ \A k \in 1 .. Len(rs) - 1 : k + 1 \in DOMAIN rs /\ u[k] = rs[k + 1]
      /\ 1 \in DOMAIN rs /\ Head(rs) = rs[1]
    BY SentHandled
<1> HIDE DEF u
<1>2. ASSUME NEW i \in DOMAIN u, u[i].kind = "ADD"
      PROVE  /\ AllSooner(A \union Sent(Head(rs)), TracksOf(u[i].items), u[i].front)
             /\ Ascends(u[i].items, u[i].front)
    <2>1. i + 1 \in DOMAIN rs /\ u[i] = rs[i + 1] /\ 1 < i + 1
        BY <1>1
    <2>2. AllSooner(A, TracksOf(u[i].items), u[i].front) /\ Ascends(u[i].items, u[i].front)
        BY <1>2, <2>1 DEF InPipe
    <2>3. AllSooner(Sent(Head(rs)), TracksOf(u[i].items), u[i].front)
        BY <1>1, <1>2, <2>1 DEF InPipe
    <2> QED
        BY <2>2, <2>3 DEF AllSooner
<1>3. ASSUME NEW i \in DOMAIN u, NEW k \in DOMAIN u, i < k, u[k].kind = "ADD"
      PROVE  AllSooner(Sent(u[i]), TracksOf(u[k].items), u[k].front)
    <2>1. /\ i + 1 \in DOMAIN rs /\ u[i] = rs[i + 1]
          /\ k + 1 \in DOMAIN rs /\ u[k] = rs[k + 1]
          /\ i + 1 < k + 1
        BY <1>1, <1>3
    <2> QED
        BY <1>3, <2>1 DEF InPipe
<1>4. (A \union Sent(Head(rs))) \union AllSent(u) = A \union AllSent(rs)
    BY <1>1
<1>5. InPipe(A \union Sent(Head(rs)), u, b, f)
    BY <1>2, <1>3, <1>4 DEF InPipe
<1> QED
    BY <1>5 DEF u

-----------------------------------------------------------------------------
(* Tracks and lists. *)

\* A track is a pair of numbers and not the NULL.
LEMMA TrackFacts ==
    ASSUME NEW t \in Tracks
    PROVE  /\ t[1] \in 1 .. MaxJobs /\ t[2] \in 1 .. MaxTracks
           /\ t[1] \in Nat /\ t[2] \in Nat
           /\ t = <<t[1], t[2]>>
           /\ t # EndOfLoad
<1>1. /\ t[1] \in 1 .. MaxJobs /\ t[2] \in 1 .. MaxTracks
      /\ t = <<t[1], t[2]>>
    BY DEF Tracks
<1>2. EndOfLoad[1] = 0
    BY DEF EndOfLoad
<1>3. MaxJobs \in Nat /\ MaxTracks \in Nat
    BY JobsAssumption
<1>4. t[1] \in Nat /\ t[2] \in Nat /\ t[1] # 0
    BY <1>1, <1>3
<1> QED
    BY <1>1, <1>2, <1>4

\* No track was found sooner than itself.
LEMMA SoonerDiffers ==
    ASSUME NEW s \in Tracks, NEW t \in Tracks, NEW f, Sooner(s, t, f)
    PROVE  s # t
<1>1. s[1] \in Nat /\ s[2] \in Nat
    BY TrackFacts
<1>2. ~(s[1] < s[1]) /\ ~(s[2] < s[2])
    BY <1>1
<1> QED
    BY <1>2 DEF Sooner

\* A sequence of tracks alone: its range has no NULL to leave out.
LEMMA TracksAlone ==
    ASSUME NEW s \in Seq(Tracks)
    PROVE  TracksOf(s) = Range(s) /\ TracksOf(s) \subseteq Tracks
<1>1. \A k \in DOMAIN s : s[k] \in Tracks
    OBVIOUS
<1>2. \A k \in DOMAIN s : s[k] # EndOfLoad
    BY <1>1, TrackFacts
<1> QED
    BY <1>1, <1>2 DEF TracksOf, Range

\* job_handle takes the NULL out of a batch and keeps the rest as it is.
LEMMA ItemsKept ==
    ASSUME NEW items \in Seq(Tracks \union {EndOfLoad}), NEW front, Ascends(items, front),
           NEW kept \in SUBSET DOMAIN items,
           \A i \in DOMAIN items : i \in kept <=> items[i] # EndOfLoad,
           NEW tracks, tracks = AtIndices(items, kept)
    PROVE  /\ tracks \in Seq(Tracks)
           /\ TracksOf(tracks) = TracksOf(items)
           /\ \A i, k \in DOMAIN tracks : i < k => Sooner(tracks[i], tracks[k], front)
<1>1. /\ kept \in SUBSET DOMAIN items
      /\ \A i \in kept : i \in DOMAIN items /\ items[i] # EndOfLoad /\ items[i] \in Tracks
      /\ \A i \in DOMAIN items : items[i] # EndOfLoad => i \in kept
    OBVIOUS
<1>2. /\ tracks \in Seq(Tracks \union {EndOfLoad})
      /\ \A k \in DOMAIN tracks : \E i \in kept : tracks[k] = items[i]
    <2>1. kept \in SUBSET DOMAIN items
        BY <1>1
    <2> QED
        BY <2>1, AtIndicesKeeps
<1>3. /\ \A k, m \in DOMAIN tracks : k < m =>
             \E i, j \in kept : i < j /\ tracks[k] = items[i] /\ tracks[m] = items[j]
      /\ \A i \in kept : \E k \in DOMAIN tracks : tracks[k] = items[i]
    <2>1. kept \in SUBSET DOMAIN items
        BY <1>1
    <2> QED
        BY <2>1, AtIndicesOrdered
<1>4. \A k \in DOMAIN tracks : tracks[k] \in Tracks
    BY <1>1, <1>2
<1>5. tracks \in Seq(Tracks)
    BY <1>2, <1>4
<1>6. ASSUME NEW x PROVE x \in TracksOf(tracks) <=> x \in TracksOf(items)
    <2>1. x \in TracksOf(items) <=> \E i \in kept : x = items[i]
        BY <1>1 DEF TracksOf
    <2>2. x \in TracksOf(tracks) <=> \E k \in DOMAIN tracks : x = tracks[k]
        BY <1>1, <1>2 DEF TracksOf
    <2>3. ASSUME NEW k \in DOMAIN tracks, x = tracks[k] PROVE \E i \in kept : x = items[i]
        BY <1>2, <2>3
    <2>4. ASSUME NEW i \in kept, x = items[i] PROVE \E k \in DOMAIN tracks : x = tracks[k]
        BY <1>3, <2>4
    <2> QED
        BY <2>1, <2>2, <2>3, <2>4
<1>7. ASSUME NEW i \in DOMAIN tracks, NEW k \in DOMAIN tracks, i < k
      PROVE  Sooner(tracks[i], tracks[k], front)
    <2>1. PICK a \in kept, b \in kept : a < b /\ tracks[i] = items[a] /\ tracks[k] = items[b]
        BY <1>3, <1>7
    <2> QED
        BY <1>1, <2>1 DEF Ascends
<1> QED
    BY <1>5, <1>6, <1>7

\* The order of a list, see TracksInOrder.
ListOrder(l, seq) ==
    \A i, k \in DOMAIN seq :
        i < k => \/ l # Queue /\ Follows(seq[i], seq[k])
                 \/ l = Queue /\ (seq[i][1] = seq[k][1] => seq[i][2] < seq[k][2])

\* Where the elements of two sequences in a row are.
LEMMA JoinedAt ==
    ASSUME NEW S, NEW s \in Seq(S), NEW t \in Seq(S), NEW u, u = s \o t
    PROVE  /\ u \in Seq(S) /\ DOMAIN u = 1 .. Len(s) + Len(t)
           /\ \A k \in 1 .. Len(s) : u[k] = s[k]
           /\ \A k \in 1 .. Len(t) : u[Len(s) + k] = t[k]
           /\ \A k \in DOMAIN u :
                 \/ k \in 1 .. Len(s)
                 \/ k - Len(s) \in 1 .. Len(t) /\ u[k] = t[k - Len(s)]
<1>1. /\ Len(s) \in Nat /\ DOMAIN s = 1 .. Len(s)
      /\ Len(t) \in Nat /\ DOMAIN t = 1 .. Len(t)
    OBVIOUS
<1>2. /\ u \in Seq(S) /\ DOMAIN u = 1 .. Len(s) + Len(t)
      /\ \A k \in 1 .. Len(s) : u[k] = s[k]
      /\ \A k \in 1 .. Len(t) : u[Len(s) + k] = t[k]
    BY <1>1
<1>3. \A k \in DOMAIN u :
          \/ k \in 1 .. Len(s)
          \/ k - Len(s) \in 1 .. Len(t) /\ k = Len(s) + (k - Len(s))
    BY <1>1, <1>2
<1> QED
    BY <1>2, <1>3

\* Tracks found later, behind those of a list.
LEMMA GrowsBehind ==
    ASSUME NEW l, NEW s \in Seq(Tracks), ListOrder(l, s), NEW t \in Seq(Tracks),
           \A i, k \in DOMAIN t : i < k => Sooner(t[i], t[k], FALSE),
           \A a \in DOMAIN s, b \in DOMAIN t : Sooner(s[a], t[b], FALSE)
    PROVE  ListOrder(l, s \o t)
<1> DEFINE u == s \o t
<1>1. /\ Len(s) \in Nat /\ DOMAIN s = 1 .. Len(s)
      /\ Len(t) \in Nat /\ DOMAIN t = 1 .. Len(t)
    OBVIOUS
<1>2. /\ u \in Seq(Tracks) /\ DOMAIN u = 1 .. Len(s) + Len(t)
      /\ \A k \in 1 .. Len(s) : u[k] = s[k]
    BY JoinedAt
<1>3. \A k \in DOMAIN u :
          k \in 1 .. Len(s) \/ (k - Len(s) \in 1 .. Len(t) /\ u[k] = t[k - Len(s)])
    BY JoinedAt
<1>4. \A k \in DOMAIN u : u[k] \in Tracks
    BY <1>2
<1> HIDE DEF u
<1>5. ASSUME NEW i \in DOMAIN u, NEW k \in DOMAIN u, i < k, Sooner(u[i], u[k], FALSE)
      PROVE  \/ l # Queue /\ Follows(u[i], u[k])
             \/ l = Queue /\ (u[i][1] = u[k][1] => u[i][2] < u[k][2])
    <2>1. u[i][1] \in Nat /\ u[k][1] \in Nat
        BY <1>4, TrackFacts
    <2> QED
        BY <1>5, <2>1 DEF Sooner, Follows
<1>6. ASSUME NEW i \in DOMAIN u, NEW k \in DOMAIN u, i < k
      PROVE  \/ l # Queue /\ Follows(u[i], u[k])
             \/ l = Queue /\ (u[i][1] = u[k][1] => u[i][2] < u[k][2])
    <2>1. CASE i \in 1 .. Len(s) /\ k \in 1 .. Len(s)
        BY <1>1, <1>2, <1>6, <2>1 DEF ListOrder
    <2>2. CASE i \in 1 .. Len(s) /\ k \notin 1 .. Len(s)
        <3>1. k - Len(s) \in DOMAIN t /\ u[k] = t[k - Len(s)] /\ i \in DOMAIN s /\ u[i] = s[i]
            BY <1>1, <1>2, <1>3, <2>2
        <3>2. Sooner(u[i], u[k], FALSE)
            BY <3>1
        <3> QED
            BY <1>5, <1>6, <3>2
    <2>3. CASE i \notin 1 .. Len(s)
        <3>1. i - Len(s) \in DOMAIN t /\ u[i] = t[i - Len(s)]
            BY <1>1, <1>3, <2>3
        <3>2. k \notin 1 .. Len(s)
            BY <1>1, <1>2, <1>6, <2>3
        <3>3. k - Len(s) \in DOMAIN t /\ u[k] = t[k - Len(s)]
            BY <1>1, <1>3, <3>2
        <3>4. i - Len(s) < k - Len(s)
            BY <1>1, <1>2, <1>6
        <3>5. Sooner(u[i], u[k], FALSE)
            BY <3>1, <3>3, <3>4
        <3> QED
            BY <1>5, <1>6, <3>5
    <2> QED
        BY <2>1, <2>2, <2>3
<1>7. ListOrder(l, u)
    BY <1>6 DEF ListOrder
<1> QED
    BY <1>7 DEF u

\* Tracks of later entries of a job, turned round, before those of the queue.
LEMMA GrowsBefore ==
    ASSUME NEW s \in Seq(Tracks), ListOrder(Queue, s), NEW t \in Seq(Tracks),
           \A i, k \in DOMAIN t : i < k => Sooner(t[i], t[k], TRUE),
           \A a \in DOMAIN s, b \in DOMAIN t : Sooner(s[a], t[b], TRUE)
    PROVE  ListOrder(Queue, Reverse(t) \o s)
<1> DEFINE r == Reverse(t)
<1>1. /\ Len(s) \in Nat /\ DOMAIN s = 1 .. Len(s)
      /\ Len(t) \in Nat /\ DOMAIN t = 1 .. Len(t)
    OBVIOUS
<1>2. r \in Seq(Tracks) /\ Len(r) = Len(t)
    BY ReverseKeeps
<1>3. \A k \in DOMAIN t : (Len(t) - k) + 1 \in DOMAIN t /\ r[k] = t[(Len(t) - k) + 1]
    BY TracksOfReverse
<1> HIDE DEF r
<1> DEFINE u == r \o s
<1>4. /\ u \in Seq(Tracks) /\ DOMAIN u = 1 .. Len(r) + Len(s)
      /\ \A k \in 1 .. Len(r) : u[k] = r[k]
    <2>1. r \in Seq(Tracks)
        BY <1>2
    <2>2. u \in Seq(Tracks) /\ DOMAIN u = 1 .. Len(r) + Len(s)
        BY <2>1, JoinedAt
    <2>3. \A k \in 1 .. Len(r) : u[k] = r[k]
        BY <2>1, JoinedAt
    <2> QED
        BY <2>2, <2>3
<1>5. \A k \in DOMAIN u :
          k \in 1 .. Len(r) \/ (k - Len(r) \in 1 .. Len(s) /\ u[k] = s[k - Len(r)])
    BY <1>2, JoinedAt
<1>6. \A k \in DOMAIN u : u[k] \in Tracks
    BY <1>4
<1> HIDE DEF u
<1>7. ASSUME NEW i \in DOMAIN u, NEW k \in DOMAIN u, u[i][1] = u[k][1], Sooner(u[k], u[i], TRUE)
      PROVE  u[i][2] < u[k][2]
    <2>1. u[i][1] \in Nat /\ u[k][1] \in Nat
        BY <1>6, TrackFacts
    <2> QED
        BY <1>7, <2>1 DEF Sooner
<1>8. \A k \in 1 .. Len(t) : (Len(t) - k) + 1 \in DOMAIN t /\ u[k] = t[(Len(t) - k) + 1]
    BY <1>1, <1>2, <1>3, <1>4
<1>9. \A k \in DOMAIN u : k \notin 1 .. Len(t) => k - Len(t) \in DOMAIN s /\ u[k] = s[k - Len(t)]
    BY <1>1, <1>2, <1>5
<1>10. ASSUME NEW i \in DOMAIN u, NEW k \in DOMAIN u, i < k, u[i][1] = u[k][1]
       PROVE  u[i][2] < u[k][2]
    <2>1. CASE i \notin 1 .. Len(t)
        <3>1. k \notin 1 .. Len(t) /\ i - Len(t) < k - Len(t)
            BY <1>1, <1>2, <1>4, <1>10, <2>1
        <3>2. /\ i - Len(t) \in DOMAIN s /\ u[i] = s[i - Len(t)]
              /\ k - Len(t) \in DOMAIN s /\ u[k] = s[k - Len(t)]
            BY <1>9, <2>1, <3>1
        <3> QED
            BY <1>10, <3>1, <3>2 DEF ListOrder
    <2>2. CASE i \in 1 .. Len(t) /\ k \in 1 .. Len(t)
        <3>1. /\ (Len(t) - i) + 1 \in DOMAIN t /\ u[i] = t[(Len(t) - i) + 1]
              /\ (Len(t) - k) + 1 \in DOMAIN t /\ u[k] = t[(Len(t) - k) + 1]
            BY <1>8, <2>2
        <3>2. (Len(t) - k) + 1 < (Len(t) - i) + 1
            BY <1>1, <1>10, <2>2
        <3>3. Sooner(u[k], u[i], TRUE)
            BY <3>1, <3>2
        <3> QED
            BY <1>7, <1>10, <3>3
    <2>3. CASE i \in 1 .. Len(t) /\ k \notin 1 .. Len(t)
        <3>1. /\ (Len(t) - i) + 1 \in DOMAIN t /\ u[i] = t[(Len(t) - i) + 1]
              /\ k - Len(t) \in DOMAIN s /\ u[k] = s[k - Len(t)]
            BY <1>8, <1>9, <2>3
        <3>2. Sooner(u[k], u[i], TRUE)
            BY <3>1
        <3> QED
            BY <1>7, <1>10, <3>2
    <2> QED
        BY <2>1, <2>2, <2>3
<1>11. ListOrder(Queue, u)
    BY <1>10 DEF ListOrder
<1> QED
    BY <1>11 DEF u, r

\* Tracks that come behind those of a list, or before them to the front of the queue,
\* keep its order.
LEMMA ListGrows ==
    ASSUME NEW l, NEW s \in Seq(Tracks), ListOrder(l, s),
           NEW t \in Seq(Tracks), NEW front \in BOOLEAN,
           \A i, k \in DOMAIN t : i < k => Sooner(t[i], t[k], front),
           AllSooner(TracksOf(s), TracksOf(t), front),
           front => l = Queue
    PROVE  /\ front => TracksOf(Reverse(t) \o s) = TracksOf(s) \union TracksOf(t)
           /\ front => ListOrder(l, Reverse(t) \o s)
           /\ ~front => TracksOf(s \o t) = TracksOf(s) \union TracksOf(t)
           /\ ~front => ListOrder(l, s \o t)
<1>1. \A k \in DOMAIN t : t[k] \in TracksOf(t)
    <2>1. \A k \in DOMAIN t : t[k] \in Tracks
        OBVIOUS
    <2> QED
        BY <2>1, TrackFacts DEF TracksOf
<1>2. \A k \in DOMAIN s : s[k] \in TracksOf(s)
    <2>1. \A k \in DOMAIN s : s[k] \in Tracks
        OBVIOUS
    <2> QED
        BY <2>1, TrackFacts DEF TracksOf
<1>3. \A a \in DOMAIN s, b \in DOMAIN t : Sooner(s[a], t[b], front)
    BY <1>1, <1>2 DEF AllSooner
<1>4. CASE front
    <2>1. ListOrder(l, Reverse(t) \o s)
        BY <1>3, <1>4, GrowsBefore
    <2>2. Reverse(t) \in Seq(Tracks) /\ TracksOf(Reverse(t)) = TracksOf(t)
        BY ReverseKeeps, TracksOfReverse
    <2>3. TracksOf(Reverse(t) \o s) = TracksOf(Reverse(t)) \union TracksOf(s)
        BY <2>2, TracksOfJoined
    <2> QED
        BY <1>4, <2>1, <2>2, <2>3
<1>5. CASE ~front
    <2>1. ListOrder(l, s \o t)
        BY <1>3, <1>5, GrowsBehind
    <2>2. TracksOf(s \o t) = TracksOf(s) \union TracksOf(t)
        BY TracksOfJoined
    <2> QED
        BY <1>5, <2>1, <2>2
<1> QED
    BY <1>4, <1>5

-----------------------------------------------------------------------------
(* The numbers of jobs and tracks. *)

Numbers == JobsNumbered /\ FoundNumbered

\* Nothing happened to the jobs.
LEMMA NumbersKept ==
    ASSUME Numbers, UNCHANGED <<queue, cur, log, found>>, Adding => seen' = seen
    PROVE  Numbers'
<1>1. Adding' <=> Adding
    BY DEF Adding
<1>2. JobsNumbered'
    BY <1>1 DEF Numbers, JobsNumbered
<1>3. FoundNumbered'
    BY <1>1 DEF Numbers, FoundNumbered
<1> QED
    BY <1>2, <1>3 DEF Numbers

\* An add job is queued; a job to the front is for the queue.
LEMMA NumbersScheduled ==
    ASSUME WInv, Numbers, NEW l \in Lists, NEW n, NEW source, NEW front \in BOOLEAN,
           front => l = Queue,
           ScheduleAdd(l, n, source, front), UNCHANGED <<found, seen>>
    PROVE  Numbers' /\ \A j \in 1 .. Len(log) : log'[j] = log[j]
<1>0. PICK job : job = NewJob(l, n, source, front)
    OBVIOUS
<1>1. queue \in Seq(AnyJob) /\ log \in Seq(Lists)
    BY DEF WInv, Types, QueueType
<1>2. queue' = Append(queue, job) /\ cur' = cur /\ log' = Append(log, l)
    BY <1>0 DEF ScheduleAdd, AddJob
<1>3. job.list = l /\ job.id = Len(log) + 1 /\ job.front = front /\ job.kind = "ADD"
    BY <1>0 DEF NewJob
<1>4. /\ Len(queue) \in Nat /\ DOMAIN queue = 1 .. Len(queue)
      /\ DOMAIN queue' = 1 .. Len(queue) + 1
      /\ queue'[Len(queue) + 1] = job
      /\ \A k \in 1 .. Len(queue) : queue'[k] = queue[k]
    BY <1>1, <1>2
<1>5. /\ Len(log) \in Nat /\ Len(log') = Len(log) + 1
      /\ log'[Len(log) + 1] = l
      /\ \A k \in 1 .. Len(log) : log'[k] = log[k]
    BY <1>1, <1>2
<1>6. \A k \in DOMAIN queue' : (k \in DOMAIN queue /\ queue'[k] = queue[k]) \/ queue'[k] = job
    BY <1>4
<1>7. \A k \in 1 .. Len(log) : k \in 1 .. Len(log')
    BY <1>5
<1>8. ASSUME NEW j, Known(log, j) PROVE Known(log', j) /\ j.id \in Int /\ j.id < job.id
    <2>1. j.id \in 1 .. Len(log')
        BY <1>7, <1>8 DEF Known
    <2>2. log'[j.id] = j.list /\ (j.front => j.list = Queue)
        BY <1>5, <1>8 DEF Known
    <2> QED
        BY <1>3, <1>5, <1>8, <2>1, <2>2 DEF Known
<1>9. Known(log', job)
    BY <1>3, <1>5 DEF Known
<1>10. Adding' <=> Adding
    BY <1>2 DEF Adding
<1>11. JobsNumbered'
    <2>1. \A i \in DOMAIN queue' : queue'[i].kind = "ADD" => Known(log', queue'[i])
        BY <1>6, <1>8, <1>9 DEF Numbers, JobsNumbered
    <2>2. Adding' => Known(log', cur')
        BY <1>2, <1>8, <1>10 DEF Numbers, JobsNumbered
    <2>3. ASSUME NEW i \in DOMAIN queue', NEW k \in DOMAIN queue', i < k,
                 queue'[i].kind = "ADD", queue'[k].kind = "ADD"
          PROVE  queue'[i].id < queue'[k].id
        <3>1. i \in DOMAIN queue /\ queue'[i] = queue[i]
            BY <1>4, <2>3
        <3>2. CASE k \in DOMAIN queue /\ queue'[k] = queue[k]
            BY <2>3, <3>1, <3>2 DEF Numbers, JobsNumbered
        <3>3. CASE queue'[k] = job
            BY <1>8, <2>3, <3>1, <3>3 DEF Numbers, JobsNumbered
        <3> QED
            BY <1>6, <3>2, <3>3
    <2>4. ASSUME NEW i \in DOMAIN queue', queue'[i].kind = "ADD", Adding
          PROVE  cur.id < queue'[i].id
        BY <1>6, <1>8, <2>4 DEF Numbers, JobsNumbered
    <2> QED
        BY <1>2, <1>10, <2>1, <2>2, <2>3, <2>4 DEF JobsNumbered
<1>12. FoundNumbered'
    <2>1. ASSUME NEW t \in found
          PROVE  /\ t[1] \in 1 .. Len(log')
                 /\ \A i \in DOMAIN queue' : queue'[i].kind = "ADD" => t[1] < queue'[i].id
        <3>1. t[1] \in 1 .. Len(log)
            BY DEF Numbers, FoundNumbered
        <3>2. t[1] < job.id
            BY <1>3, <1>5, <3>1
        <3> QED
            BY <1>6, <1>7, <3>1, <3>2 DEF Numbers, FoundNumbered
    <2> QED
        BY <1>2, <1>10, <2>1 DEF Numbers, FoundNumbered
<1> QED
    BY <1>5, <1>11, <1>12 DEF Numbers

\* Other jobs do not matter, nor do jobs that are removed.
LEMMA NumbersFewer ==
    ASSUME Numbers, UNCHANGED <<cur, log, found, seen>>,
           NEW q, queue' = q,
           \A k \in DOMAIN q : q[k].kind = "ADD" => \E i \in DOMAIN queue : q[k] = queue[i],
           \A k, m \in DOMAIN q :
               k < m /\ q[k].kind = "ADD" /\ q[m].kind = "ADD" =>
                   \E i, j \in DOMAIN queue : i < j /\ q[k] = queue[i] /\ q[m] = queue[j]
    PROVE  Numbers'
<1>1. Adding' <=> Adding
    BY DEF Adding
<1>3. JobsNumbered'
    BY <1>1 DEF Numbers, JobsNumbered
<1>4. FoundNumbered'
    BY <1>1 DEF Numbers, FoundNumbered
<1> QED
    BY <1>3, <1>4 DEF Numbers

\* worker_remove_jobs_*
LEMMA NumbersRemoved ==
    ASSUME WInv, Numbers, NEW M, RemoveJobs(M), UNCHANGED <<log, found, seen>>
    PROVE  Numbers'
<1> DEFINE I == DOMAIN queue \ {i \in DOMAIN queue : queue[i] \in M}
<1>1. queue' = AtIndices(queue, I) /\ cur' = cur
    BY DEF RemoveJobs, Indices
<1>2. queue \in Seq(AnyJob) /\ I \in SUBSET DOMAIN queue
    BY DEF WInv, Types, QueueType
<1> HIDE DEF I
<1>3. /\ \A k \in DOMAIN queue' : \E i \in I : queue'[k] = queue[i]
      /\ \A k, m \in DOMAIN queue' : k < m =>
            \E i, j \in I : i < j /\ queue'[k] = queue[i] /\ queue'[m] = queue[j]
    BY <1>1, <1>2, AtIndicesKeeps, AtIndicesOrdered
<1> QED
    BY <1>1, <1>2, <1>3, NumbersFewer

\* A deletion job is queued.
LEMMA NumbersDelete ==
    ASSUME WInv, Numbers, NEW job \in DeleteJobs, AddJob(job), UNCHANGED <<log, found, seen>>
    PROVE  Numbers'
<1>1. queue' = Append(queue, job) /\ cur' = cur /\ job.kind = "DELETE"
    BY DEF AddJob, DeleteJobs
<1>2. queue \in Seq(AnyJob) /\ job \in AnyJob
    BY DEF WInv, Types, QueueType, AnyJob
<1>3. /\ Len(queue) \in Nat /\ DOMAIN queue = 1 .. Len(queue)
      /\ DOMAIN queue' = 1 .. Len(queue) + 1
      /\ queue'[Len(queue) + 1] = job
      /\ \A k \in 1 .. Len(queue) : queue'[k] = queue[k]
    BY <1>1, <1>2
<1>4. \A k \in DOMAIN queue' : queue'[k].kind = "ADD" => k \in DOMAIN queue /\ queue'[k] = queue[k]
    BY <1>1, <1>3
<1> QED
    BY <1>1, <1>4, NumbersFewer

\* The worker takes the next job, or has finished one.
LEMMA NumbersLoop ==
    ASSUME WInv, Numbers, WorkerLoop
    PROVE  Numbers'
<1>1. UNCHANGED <<log, found>>
    BY DEF WorkerLoop, history
<1>2. CASE TakeJob
    <2>1. queue \in Seq(AnyJob) /\ queue # <<>> /\ cur' = Head(queue) /\ queue' = Tail(queue)
        BY <1>2 DEF WInv, Types, QueueType, TakeJob
    <2>2. /\ 1 \in DOMAIN queue /\ cur' = queue[1]
          /\ \A k \in DOMAIN queue' : k + 1 \in DOMAIN queue /\ queue'[k] = queue[k + 1] /\ 1 < k + 1
          /\ \A k, m \in DOMAIN queue' : k < m => k + 1 < m + 1
        <3>1. Len(queue) \in Nat /\ DOMAIN queue = 1 .. Len(queue) /\ Len(queue) # 0
            BY <2>1
        <3>2. /\ DOMAIN queue' = 1 .. Len(queue) - 1
              /\ \A k \in 1 .. Len(queue) - 1 : queue'[k] = queue[k + 1]
              /\ cur' = queue[1]
            BY <2>1, <3>1
        <3> QED
            BY <3>1, <3>2
    <2>3. Adding' => queue[1].kind = "ADD"
        BY <2>2 DEF Adding
    <2>5. JobsNumbered'
        BY <1>1, <2>2, <2>3 DEF Numbers, JobsNumbered
    <2>6. FoundNumbered'
        BY <1>1, <2>2, <2>3 DEF Numbers, FoundNumbered
    <2> QED
        BY <2>5, <2>6 DEF Numbers
<1>3. CASE WaitForJob \/ StopWorker
    <2>1. UNCHANGED <<queue, cur>> /\ wpc = "top"
        BY <1>3 DEF WaitForJob, StopWorker, WorkerAtTop, worker
    <2>2. ~Adding
        BY <2>1 DEF WInv, Control, CancelIsForTheRunningJob, Adding
    <2> QED
        BY <1>1, <2>1, <2>2, NumbersKept
<1>4. CASE FinishJob
    <2>1. cur' = NoJob /\ queue' = queue
        BY <1>4 DEF FinishJob
    <2>2. ~Adding'
        BY <2>1 DEF Adding
    <2> QED
        BY <1>1, <2>1, <2>2 DEF Numbers, JobsNumbered, FoundNumbered
<1> QED
    BY <1>2, <1>3, <1>4 DEF WorkerLoop

\* The entry a job goes through next is behind all that was found.
LEMMA NumbersFound ==
    ASSUME WInv, Numbers, FindTrack
    PROVE  /\ Numbers' /\ log' = log
           /\ NextTrack \in Tracks /\ Adding
           /\ found' = found \union {NextTrack}
           /\ \A s \in found : Sooner(s, NextTrack, cur.front)
           /\ NextTrack[1] \in 1 .. Len(log) /\ log[NextTrack[1]] = cur.list
<1>1. /\ Running("ADD") /\ ~ended /\ seen < cur.n
      /\ UNCHANGED <<queue, cur, log>>
      /\ found' = found \union {NextTrack} /\ seen' = seen + 1
    BY DEF FindTrack, worker
<1>2. cur # NoJob /\ cur.kind = "ADD" /\ Adding
    BY <1>1 DEF WInv, Control, CancelIsForTheRunningJob, Running, Adding
<1>3. cur \in AddJobs /\ seen \in Nat
    BY <1>2 DEF WInv, Types, QueueType, ResultType, AnyJob, AddJobs, DeleteJobs
<1>4. NextTrack \in Tracks
    BY <1>1, <1>2, BatchType DEF WInv
<1> DEFINE t == NextTrack
<1>5. t[1] = cur.id /\ t[2] = IF cur.front THEN cur.n - seen ELSE seen + 1
    BY DEF NextTrack
<1>6. cur.n \in Int /\ cur.id \in Nat /\ seen \in Int
    BY <1>3, JobsAssumption DEF AddJobs
<1>7. Known(log, cur) /\ \A i \in DOMAIN queue : queue[i].kind = "ADD" => cur.id < queue[i].id
    BY <1>2 DEF Numbers, JobsNumbered
<1>8. \A s \in found : /\ s[1] \in 1 .. Len(log) /\ s \in Tracks
                       /\ \A i \in DOMAIN queue : queue[i].kind = "ADD" => s[1] < queue[i].id
                       /\ \/ s[1] < cur.id
                          \/ s[1] = cur.id /\ IF cur.front THEN cur.n - seen < s[2] ELSE s[2] <= seen
    BY <1>2 DEF Numbers, FoundNumbered
<1> HIDE DEF t
<1>9. ASSUME NEW s \in found PROVE Sooner(s, t, cur.front)
    <2>1. s[2] \in Int
        BY <1>8, TrackFacts
    <2> QED
        BY <1>5, <1>6, <1>8, <2>1 DEF Sooner
<1>10. Adding'
    BY <1>1, <1>2 DEF Adding
<1>11. JobsNumbered'
    BY <1>1, <1>2, <1>10 DEF Numbers, JobsNumbered
<1>12. found' = found \union {t} /\ t \in Tracks
    BY <1>1, <1>4 DEF t
<1>13. t[1] \in 1 .. Len(log) /\ log[t[1]] = cur.list
    BY <1>5, <1>7 DEF Known
<1>14. FoundNumbered'
    <2>1. ASSUME NEW s \in found'
          PROVE  /\ s \in Tracks /\ s[1] \in 1 .. Len(log)
                 /\ \A i \in DOMAIN queue : queue[i].kind = "ADD" => s[1] < queue[i].id
                 /\ \/ s[1] < cur.id
                    \/ /\ s[1] = cur.id
                       /\ IF cur.front THEN cur.n - (seen + 1) < s[2] ELSE s[2] <= seen + 1
        <3>1. CASE s \in found
            <4>1. s[2] \in Int
                BY <1>8, <3>1, TrackFacts
            <4> QED
                BY <1>6, <1>8, <3>1, <4>1
        <3>2. CASE s = t
            BY <1>5, <1>6, <1>7, <1>12, <1>13, <3>2
        <3> QED
            BY <1>12, <3>1, <3>2
    <2> QED
        BY <1>1, <2>1 DEF FoundNumbered
<1> QED
    BY <1>1, <1>2, <1>4, <1>9, <1>11, <1>13, <1>14 DEF Numbers, t

\* Every step keeps the numbers, and no job changes its list.
LEMMA NumbersStep ==
    WInv /\ Numbers /\ [Next]_vars => Numbers' /\ \A j \in 1 .. Len(log) : log'[j] = log[j]
<1> SUFFICES ASSUME WInv, Numbers, [Next]_vars
             PROVE  Numbers' /\ \A j \in 1 .. Len(log) : log'[j] = log[j]
    OBVIOUS
<1> USE DEF history, worker, inJob
<1>0. ListType
    BY DEF WInv, Types
<1>1. CASE UNCHANGED vars
    <2>1. UNCHANGED <<queue, cur, log, found, seen>>
        BY <1>1 DEF vars
    <2> QED
        BY <2>1, NumbersKept
<1>2. CASE FindTrack
    BY <1>2, NumbersFound
<1>3. CASE FinishEntries \/ SendRest \/ AddDone \/ FreeDeleteJob \/ Notify \/ WorkerWakesUp
    <2>1. UNCHANGED <<queue, cur, log, found, seen>>
        BY <1>3 DEF FinishEntries, SendRest, AddDone, FreeDeleteJob, Notify, WorkerWakesUp,
            SpuriousWakeup, RemovalWaits, RemovalEnds
    <2> QED
        BY <2>1, NumbersKept
<1>4. CASE WorkerLoop
    BY <1>4, NumbersLoop DEF WorkerLoop
<1>5. CASE AddTracks
    <2>1. PICK l \in Views \union {marked}, n \in 0 .. MaxTracks,
               source \in {"file", "dir", "playlist"}, front \in BOOLEAN :
               (front => l = Queue) /\ ScheduleAdd(l, n, source, front)
        BY <1>5 DEF AddTracks
    <2>2. l \in Lists /\ UNCHANGED <<found, seen>>
        BY <1>0, <1>5 DEF ListType, Lists, AddTracks
    <2> QED
        BY <2>1, <2>2, NumbersScheduled
<1>6. CASE ImportPlaylist
    <2>1. PICK n \in 0 .. MaxTracks : ScheduleAdd(made', n, "playlist", FALSE)
        BY <1>6 DEF ImportPlaylist
    <2>2. made' \in Lists /\ UNCHANGED <<found, seen>>
        BY <1>0, <1>6, JobsAssumption DEF ImportPlaylist, ListType, Lists, Playlists
    <2>3. PICK l \in Lists : l = made'
        BY <2>2
    <2>4. ScheduleAdd(l, n, "playlist", FALSE)
        BY <2>1, <2>3
    <2> QED
        BY <2>2, <2>4, NumbersScheduled
<1>7. CASE SelectPlaylist \/ PlaySelected \/ PlayNext \/ Quit \/ ClearedView \/ ClearedPlaylist
           \/ RemoveSelected \/ LoseFile
    <2>1. CASE RemoveSelected \/ LoseFile
        <3>1. UNCHANGED <<queue, cur, log, found, seen>>
            BY <2>1, TakenOut
        <3> QED
            BY <3>1, NumbersKept
    <2>2. CASE SelectPlaylist \/ PlaySelected \/ PlayNext \/ Quit \/ ClearedView \/ ClearedPlaylist
        <3>1. UNCHANGED <<queue, cur, log, found, seen>>
            BY <2>2 DEF SelectPlaylist, PlaySelected, PlayNext, Quit, ClearedView, ClearedPlaylist
        <3> QED
            BY <3>1, NumbersKept
    <2> QED
        BY <1>7, <2>1, <2>2
<1>8. CASE ClearView \/ ClearPlaylist \/ DeletePlaylist \/ ExitAll
    <2>1. (\E M : RemoveJobs(M)) /\ UNCHANGED <<log, found, seen>>
        BY <1>8 DEF ClearView, ClearPlaylist, DeletePlaylist, ExitAll
    <2> QED
        BY <2>1, NumbersRemoved
<1>9. CASE LoadView \/ ReloadPlaylist
    <2>1. (\E n \in 0 .. MaxTracks : ScheduleAdd(target, n, "playlist", FALSE)) /\ UNCHANGED <<found, seen>>
        BY <1>9 DEF LoadView, ReloadPlaylist
    <2>2. target \in Lists
        BY <1>0, <1>9 DEF LoadView, ReloadPlaylist, Resumes, ListType
    <2> QED
        BY <2>1, <2>2, NumbersScheduled
<1>10. CASE ScheduleDelete
    <2>1. [kind |-> "DELETE", list |-> target] \in DeleteJobs
        BY <1>0, <1>10 DEF ScheduleDelete, Resumes, ListType, DeleteJobs
    <2>2. AddJob([kind |-> "DELETE", list |-> target]) /\ UNCHANGED <<log, found, seen>>
        BY <1>10 DEF ScheduleDelete
    <2> QED
        BY <2>1, <2>2, NumbersDelete
<1>11. CASE StartWorker \/ StopAtExit \/ BeginHandling \/ Handle \/ JoinWorker \/ Over
    <2>1. UNCHANGED <<queue, cur, log, found, seen>>
        BY <1>11 DEF StartWorker, StopAtExit, BeginHandling, Handle, HandleAdd, HandleDelete,
            EndHandling, JoinWorker, Over, SetState, vars
    <2> QED
        BY <2>1, NumbersKept
<1> QED
    BY <1>1, <1>2, <1>3, <1>4, <1>5, <1>6, <1>7, <1>8, <1>9, <1>10, <1>11
    DEF Next, WorkerSteps, Commands, Continue, Exit

-----------------------------------------------------------------------------
(* The way of the tracks. *)

Ways == Whereabouts /\ Piped /\ TracksInOrder

\* The results rs are for the lists their jobs were started for.
Addressed(rs, jobs) ==
    \A i \in DOMAIN rs : rs[i].kind = "ADD" =>
        /\ rs[i].front => rs[i].list = Queue
        /\ \A t \in TracksOf(rs[i].items) : jobs[t[1]] = rs[i].list

\* What is on its way was found, and its job has the list it had.
LEMMA LogKept ==
    ASSUME Whereabouts, Numbers, \A j \in 1 .. Len(log) : log'[j] = log[j],
           NEW t \in found
    PROVE  log'[t[1]] = log[t[1]]
    BY DEF Numbers, FoundNumbered

\* Nothing moves.
LEMMA WaysKept ==
    ASSUME Ways, Numbers, \A j \in 1 .. Len(log) : log'[j] = log[j],
           UNCHANGED <<content, results, buffer, found, dropped>>,
           buffer # <<>> => cur' = cur /\ wpc' # "done"
    PROVE  Ways'
<1>1. \A t \in found : log'[t[1]] = log[t[1]]
    BY LogKept DEF Ways
<1>2. /\ \A l \in Lists : TracksOf(content[l]) \subseteq found
      /\ \A i \in DOMAIN results : results[i].kind = "ADD" => TracksOf(results[i].items) \subseteq found
      /\ TracksOf(buffer) \subseteq found
    BY DEF Ways, Whereabouts, Settled, Listed, AllSent, Sent
<1>3. Settled' = Settled /\ Listed' = Listed
    BY DEF Settled, Listed
<1>4. TracksOf(<<>>) = {}
    BY DEF TracksOf
<1>5. \A t \in TracksOf(buffer) : log'[t[1]] = cur'.list
    <2>1. CASE buffer = <<>>
        BY <1>4, <2>1
    <2>2. CASE buffer # <<>>
        BY <1>1, <1>2, <2>2 DEF Ways, Whereabouts
    <2> QED
        BY <2>1, <2>2
<1>6. Whereabouts'
    <2>1. \A l \in Lists : \A t \in TracksOf(content[l]) : log'[t[1]] = l
        BY <1>1, <1>2 DEF Ways, Whereabouts
    <2>2. \A i \in DOMAIN results : results[i].kind = "ADD" =>
             /\ results[i].front => results[i].list = Queue
             /\ \A t \in TracksOf(results[i].items) : log'[t[1]] = results[i].list
        BY <1>1, <1>2 DEF Ways, Whereabouts
    <2>3. buffer # <<>> => Adding' /\ wpc' # "done"
        BY DEF Ways, Whereabouts, Adding
    <2> QED
        BY <1>3, <1>5, <2>1, <2>2, <2>3 DEF Ways, Whereabouts
<1>7. Piped'
    <2>1. InPipe(Settled, results, buffer, cur'.front)
        <3>1. CASE buffer = <<>>
            BY <3>1, NothingBuffered DEF Ways, Piped
        <3>2. CASE buffer # <<>>
            BY <3>2 DEF Ways, Piped
        <3> QED
            BY <3>1, <3>2
    <2> QED
        BY <1>3, <2>1 DEF Piped
<1>8. TracksInOrder'
    BY DEF Ways, TracksInOrder
<1> QED
    BY <1>6, <1>7, <1>8 DEF Ways

\* The worker moves tracks to the buffer and to the results.
LEMMA WaysPiped ==
    ASSUME Ways, UNCHANGED <<content, dropped, log, cur>>,
           found' = Settled \union AllSent(results') \union TracksOf(buffer'),
           buffer' # <<>> => Adding /\ wpc' # "done",
           Addressed(results', log),
           \A t \in TracksOf(buffer') : log[t[1]] = cur.list,
           InPipe(Settled, results', buffer', cur.front)
    PROVE  Ways'
<1>1. Settled' = Settled /\ Listed' = Listed /\ (Adding' <=> Adding)
    BY DEF Settled, Listed, Adding
<1>2. Whereabouts'
    BY <1>1 DEF Ways, Whereabouts, Addressed
<1>3. Piped'
    BY <1>1 DEF Piped
<1>4. TracksInOrder'
    BY DEF Ways, TracksInOrder
<1> QED
    BY <1>2, <1>3, <1>4 DEF Ways

\* The worker sends what is in the buffer.
LEMMA BatchSent ==
    ASSUME WInv, Ways, Numbers, Adding, SendBatch
    PROVE  /\ results' \in Seq(AddResults \union DeleteResults)
           /\ InPipe(Settled, results', <<>>, cur.front)
           /\ AllSent(results') = AllSent(results) \union TracksOf(buffer)
           /\ Addressed(results', log)
<1> DEFINE R == AddResults \union DeleteResults
<1>0. PICK x : x = [kind |-> "ADD", list |-> cur.list, items |-> buffer, front |-> cur.front]
    OBVIOUS
<1>1. cur \in AddJobs
    BY DEF WInv, Types, QueueType, AnyJob, AddJobs, DeleteJobs, Adding
<1>2. results \in Seq(R) /\ x \in R
    BY <1>0, <1>1 DEF AddJobs, AddResults, WInv, Types, ResultType
<1>3. /\ x.kind = "ADD" /\ x.items = buffer /\ x.front = cur.front /\ x.list = cur.list
      /\ results' = Append(results, x)
    BY <1>0 DEF SendBatch
<1> HIDE DEF R
<1>4. results' \in Seq(R)
    BY <1>2, <1>3
<1>5. InPipe(Settled, results', <<>>, cur.front)
    BY <1>2, <1>3, Pushed DEF Ways, Piped
<1>6. AllSent(results') = AllSent(results) \union Sent(x) /\ Sent(x) = TracksOf(buffer)
    BY <1>2, <1>3, SentAppended DEF Sent
<1>7. \A i \in DOMAIN results' : (i \in DOMAIN results /\ results'[i] = results[i]) \/ results'[i] = x
    BY <1>2, <1>3
<1>8. x.front => x.list = Queue
    BY <1>3 DEF Numbers, JobsNumbered, Known
<1>9. \A t \in TracksOf(x.items) : log[t[1]] = x.list
    BY <1>3 DEF Ways, Whereabouts
<1>10. Addressed(results', log)
    BY <1>7, <1>8, <1>9 DEF Ways, Whereabouts, Addressed
<1> QED
    BY <1>4, <1>5, <1>6, <1>10 DEF R

\* add_ti, with the next track or with the NULL
LEMMA WaysAdded ==
    ASSUME WInv, Ways, Numbers, Adding, wpc = "run",
           NEW item \in Tracks \union {EndOfLoad}, AddItem(item),
           UNCHANGED <<content, dropped, log, cur>>,
           found' = found \union ({item} \ {EndOfLoad}),
           item # EndOfLoad => /\ \A s \in found : Sooner(s, item, cur.front)
                               /\ log[item[1]] = cur.list
    PROVE  Ways'
<1> DEFINE S == Tracks \union {EndOfLoad}
<1>1. buffer \in Seq(S) /\ item \in S
    BY DEF WInv, Types, ResultType
<1> HIDE DEF S
<1>2. found = Settled \union AllSent(results) \union TracksOf(buffer)
    BY DEF Ways, Whereabouts
<1>3. CASE Len(buffer) = TI_CAP
    <2>1. SendBatch /\ buffer' = <<item>> /\ wpc' = "notify"
        BY <1>3 DEF AddItem
    <2>2. /\ InPipe(Settled, results', <<>>, cur.front)
          /\ AllSent(results') = AllSent(results) \union TracksOf(buffer)
          /\ Addressed(results', log)
        BY <2>1, BatchSent
    <2>3. <<>> \in Seq(S) /\ buffer' = Append(<<>>, item)
        BY <2>1
    <2>4. TracksOf(buffer') = {item} \ {EndOfLoad} /\ TracksOf(<<>>) = {}
        <3>1. TracksOf(<<>>) = {}
            BY DEF TracksOf
        <3>2. DOMAIN <<item>> = {1} /\ <<item>>[1] = item
            OBVIOUS
        <3>3. {<<item>>[k] : k \in DOMAIN <<item>>} = {item}
            BY <3>2, Zenon
        <3>4. TracksOf(<<item>>) = {item} \ {EndOfLoad}
            BY <3>3, Zenon DEF TracksOf
        <3> QED
            BY <2>1, <3>1, <3>4
    <2>5. item # EndOfLoad => \A s \in Settled \union AllSent(results') \union TracksOf(<<>>) : Sooner(s, item, cur.front)
        BY <1>2, <2>2, <2>4
    <2>6. InPipe(Settled, results', Append(<<>>, item), cur.front)
        BY <1>1, <2>2, <2>3, <2>5, Buffered
    <2>7. InPipe(Settled, results', buffer', cur.front)
        BY <2>3, <2>6
    <2>8. found' = Settled \union AllSent(results') \union TracksOf(buffer')
        BY <1>2, <2>2, <2>4
    <2>9. \A t \in TracksOf(buffer') : log[t[1]] = cur.list
        BY <2>4
    <2> QED
        BY <2>1, <2>2, <2>7, <2>8, <2>9, WaysPiped
<1>4. CASE Len(buffer) # TI_CAP
    <2>1. buffer' = Append(buffer, item) /\ results' = results /\ wpc' = wpc
        BY <1>4 DEF AddItem
    <2>2. TracksOf(Append(buffer, item)) = TracksOf(buffer) \union ({item} \ {EndOfLoad})
        BY <1>1, TracksOfJoined
    <2>3. InPipe(Settled, results, Append(buffer, item), cur.front)
        BY <1>1, <1>2, Buffered DEF Ways, Piped
    <2>4. Addressed(results, log)
        BY DEF Ways, Whereabouts, Addressed
    <2>5. \A t \in TracksOf(Append(buffer, item)) : log[t[1]] = cur.list
        BY <2>2 DEF Ways, Whereabouts
    <2>6. found' = Settled \union AllSent(results) \union TracksOf(Append(buffer, item))
        BY <1>2, <2>2
    <2> QED
        BY <2>1, <2>3, <2>4, <2>5, <2>6, WaysPiped
<1> QED
    BY <1>3, <1>4

\* The steps of the worker inside a job.
LEMMA WaysOfWorker ==
    ASSUME WInv, Ways, Numbers, WorkerSteps, \A j \in 1 .. Len(log) : log'[j] = log[j]
    PROVE  Ways'
<1> USE DEF history, worker, inJob, channel
<1>1. ASSUME Running("ADD") PROVE Adding /\ wpc = "run"
    BY <1>1 DEF WInv, Control, CancelIsForTheRunningJob, Running, Adding
<1>2. found = Settled \union AllSent(results) \union TracksOf(buffer)
    BY DEF Ways, Whereabouts
<1>3. CASE FindTrack
    <2>0. PICK item : item = NextTrack
        OBVIOUS
    <2>1. /\ Running("ADD") /\ AddItem(item)
          /\ UNCHANGED <<content, dropped, log, cur>>
        BY <1>3, <2>0 DEF FindTrack
    <2>2. /\ item \in Tracks
          /\ found' = found \union {item}
          /\ \A s \in found : Sooner(s, item, cur.front)
          /\ log[item[1]] = cur.list
        BY <1>3, <2>0, NumbersFound
    <2>3. item # EndOfLoad
        BY <2>2, TrackFacts
    <2>4. found' = found \union ({item} \ {EndOfLoad})
        BY <2>2, <2>3
    <2> QED
        BY <1>1, <2>1, <2>2, <2>4, WaysAdded
<1>4. CASE FinishEntries
    <2>1. Running("ADD") /\ UNCHANGED <<content, dropped, log, cur, found>>
        BY <1>4 DEF FinishEntries
    <2>2. CASE AddItem(EndOfLoad)
        <3>1. PICK item : item = EndOfLoad
            OBVIOUS
        <3>2. AddItem(item) /\ found' = found \union ({item} \ {EndOfLoad})
            BY <2>1, <2>2, <3>1
        <3> QED
            BY <1>1, <2>1, <3>1, <3>2, WaysAdded
    <2>3. CASE UNCHANGED <<buffer, results, wpc>>
        BY <1>1, <2>1, <2>3, WaysKept
    <2> QED
        BY <1>4, <2>2, <2>3 DEF FinishEntries
<1>5. CASE SendRest
    <2>1. /\ Running("ADD") /\ SendBatch /\ buffer' = <<>>
          /\ UNCHANGED <<content, dropped, log, cur, found>>
        BY <1>5 DEF SendRest
    <2>2. /\ InPipe(Settled, results', <<>>, cur.front)
          /\ AllSent(results') = AllSent(results) \union TracksOf(buffer)
          /\ Addressed(results', log)
        BY <1>1, <2>1, BatchSent
    <2>3. TracksOf(<<>>) = {}
        BY DEF TracksOf
    <2> QED
        BY <1>2, <2>1, <2>2, <2>3, WaysPiped
<1>6. CASE AddDone \/ Notify
    <2>1. /\ UNCHANGED <<content, results, buffer, found, dropped, cur>>
          /\ buffer = <<>> \/ (wpc = "notify" /\ (cur.kind = "DELETE" \/ wpc' = "run"))
        BY <1>6 DEF AddDone, Notify
    <2>2. buffer # <<>> => wpc' # "done"
        BY <2>1 DEF Ways, Whereabouts, Adding
    <2> QED
        BY <2>1, <2>2, WaysKept
<1>7. CASE WorkerLoop
    <2>1. UNCHANGED <<content, results, buffer, found, dropped>>
        BY <1>7 DEF WorkerLoop
    <2>2. buffer # <<>> => Adding /\ wpc # "done"
        BY DEF Ways, Whereabouts
    <2>3. Adding => wpc # "top"
        BY DEF Adding, WInv, Control, CancelIsForTheRunningJob
    <2>4. buffer = <<>>
        BY <1>7, <2>2, <2>3 DEF WorkerLoop, WorkerAtTop, TakeJob, WaitForJob, StopWorker, FinishJob
    <2> QED
        BY <2>1, <2>4, WaysKept
<1>8. CASE FreeDeleteJob
    <2>0. PICK x : x = [kind |-> "DELETE", list |-> cur.list]
        OBVIOUS
    <2>1. /\ Running("DELETE") /\ results' = Append(results, x)
          /\ UNCHANGED <<content, buffer, dropped, log, cur, found>>
        BY <1>8, <2>0 DEF FreeDeleteJob
    <2>2. buffer = <<>>
        BY <2>1 DEF Ways, Whereabouts, Adding, Running
    <2>3. x.kind = "DELETE"
        BY <2>0
    <2>4. x \in AddResults \union DeleteResults
        <3>1. cur \in AnyJob /\ cur.kind = "DELETE"
            BY <2>1 DEF Running, QueueType, WInv, Types, Control, CancelIsForTheRunningJob
        <3> QED
            BY <2>0, <3>1 DEF AnyJob, AddJobs, DeleteJobs, DeleteResults
    <2> DEFINE R == AddResults \union DeleteResults
    <2>5. results \in Seq(R) /\ x \in R
        BY <2>4 DEF WInv, Types, ResultType
    <2> HIDE DEF R
    <2> DEFINE ds == <<x>>
    <2>6. ds \in Seq(R) /\ results' = results \o ds /\ \A i \in DOMAIN ds : ds[i].kind = "DELETE"
        BY <2>1, <2>3, <2>5
    <2> HIDE DEF ds
    <2>7. \A i \in DOMAIN results' : (i \in DOMAIN results /\ results'[i] = results[i]) \/ results'[i] = x
        BY <2>1, <2>5
    <2>8. InPipe(Settled, results', buffer, cur.front) /\ AllSent(results') = AllSent(results)
        <3>1. InPipe(Settled, results, buffer, cur.front)
            BY DEF Ways, Piped
        <3>2. InPipe(Settled, results', buffer, cur.front)
            BY <2>5, <2>6, <3>1, ReportsAdded
        <3>3. AllSent(results') = AllSent(results)
            BY <2>5, <2>6, ReportsSend
        <3> QED
            BY <3>2, <3>3
    <2>9. Addressed(results', log)
        BY <2>3, <2>7 DEF Ways, Whereabouts, Addressed
    <2>10. TracksOf(<<>>) = {}
        BY DEF TracksOf
    <2> QED
        BY <1>2, <2>1, <2>2, <2>8, <2>9, <2>10, WaysPiped
<1> QED
    BY <1>3, <1>4, <1>5, <1>6, <1>7, <1>8 DEF WorkerSteps

\* A list is cleared: what was in it is dropped, with results that are about no track.
LEMMA WaysCleared ==
    ASSUME WInv, Contents, Ways, Numbers, \A j \in 1 .. Len(log) : log'[j] = log[j],
           NEW l \in Lists, Clear(l), UNCHANGED <<buffer, found, cur, wpc>>,
           InPipe(Settled, results', buffer, cur.front),
           AllSent(results') = AllSent(results),
           Addressed(results', log)
    PROVE  Ways'
<1>1. \A t \in found : log'[t[1]] = log[t[1]]
    BY LogKept DEF Ways
<1>2. content \in [Lists -> Seq(Tracks)]
    BY DEF Contents
<1>3. TracksOf(content[l]) = Range(content[l])
    BY <1>2, TracksAlone
<1>4. dropped' = dropped \union TracksOf(content[l])
    BY <1>3 DEF Clear, Drop
<1>5. /\ content'[l] = <<>>
      /\ \A m \in Lists \ {l} : content'[m] = content[m]
    BY <1>2 DEF Clear, Emptied
<1>6. TracksOf(<<>>) = {} /\ DOMAIN <<>> = {}
    BY DEF TracksOf
<1>7. \A m \in Lists : TracksOf(content'[m]) = IF m = l THEN {} ELSE TracksOf(content[m])
    BY <1>5, <1>6
<1>8. \A t : t \in Listed' <=> \E m \in Lists \ {l} : t \in TracksOf(content[m])
    BY <1>7 DEF Listed
<1>9. \A t : t \in Listed <=> t \in TracksOf(content[l]) \/ \E m \in Lists \ {l} : t \in TracksOf(content[m])
    BY DEF Listed
<1>10. Settled' = Settled
    BY <1>4, <1>8, <1>9 DEF Settled
<1>11. dropped' \intersect Listed' = {}
    <2>1. ASSUME NEW t, t \in dropped', t \in Listed' PROVE FALSE
        <3>1. PICK m \in Lists \ {l} : t \in TracksOf(content[m])
            BY <1>8, <2>1
        <3>2. t \in Listed /\ log[t[1]] = m
            BY <1>9, <3>1 DEF Ways, Whereabouts
        <3>3. t \notin dropped
            BY <3>2 DEF Ways, Whereabouts
        <3>4. log[t[1]] = l
            BY <1>4, <2>1, <3>3 DEF Ways, Whereabouts
        <3> QED
            BY <3>1, <3>2, <3>4
    <2> QED
        BY <2>1
<1>12. /\ \A m \in Lists : TracksOf(content[m]) \subseteq found
       /\ \A i \in DOMAIN results' : results'[i].kind = "ADD" => TracksOf(results'[i].items) \subseteq found
       /\ TracksOf(buffer) \subseteq found
    <2>1. Listed \subseteq found /\ AllSent(results') \subseteq found /\ TracksOf(buffer) \subseteq found
        BY DEF Ways, Whereabouts, Settled
    <2>2. \A i \in DOMAIN results' : results'[i].kind = "ADD" => TracksOf(results'[i].items) \subseteq AllSent(results')
        BY DEF AllSent, Sent
    <2>3. \A m \in Lists : TracksOf(content[m]) \subseteq Listed
        BY DEF Listed
    <2> QED
        BY <2>1, <2>2, <2>3
<1>13. Whereabouts'
    <2>1. found' = Settled' \union AllSent(results') \union TracksOf(buffer')
        BY <1>10 DEF Ways, Whereabouts
    <2>2. buffer' # <<>> => Adding' /\ wpc' # "done"
        BY DEF Ways, Whereabouts, Adding
    <2>3. \A m \in Lists : \A t \in TracksOf(content'[m]) : log'[t[1]] = m
        BY <1>1, <1>7, <1>12 DEF Ways, Whereabouts
    <2>4. \A i \in DOMAIN results' : results'[i].kind = "ADD" =>
              /\ results'[i].front => results'[i].list = Queue
              /\ \A t \in TracksOf(results'[i].items) : log'[t[1]] = results'[i].list
        BY <1>1, <1>12 DEF Addressed
    <2>5. \A t \in TracksOf(buffer') : log'[t[1]] = cur'.list
        BY <1>1, <1>12 DEF Ways, Whereabouts
    <2> QED
        BY <1>11, <2>1, <2>2, <2>3, <2>4, <2>5 DEF Whereabouts
<1>14. Piped'
    BY <1>10 DEF Piped
<1>15. TracksInOrder'
    <2>1. \A m \in Lists : ListOrder(m, content[m])
        BY DEF Ways, TracksInOrder, ListOrder
    <2>2. ListOrder(l, <<>>)
        BY <1>6 DEF ListOrder
    <2>3. \A m \in Lists : ListOrder(m, content'[m])
        BY <1>5, <2>1, <2>2
    <2> QED
        BY <2>3 DEF TracksInOrder, ListOrder
<1> QED
    BY <1>13, <1>14, <1>15 DEF Ways

\* Tracks are taken out of their list: they are dropped, and the others keep their order.
LEMMA WaysTaken ==
    ASSUME WInv, Contents, Ways, Numbers, RemoveSelected \/ LoseFile
    PROVE  Ways'
<1>1. UNCHANGED <<results, buffer, cur, wpc, log, found>>
    BY TakenOut DEF worker, inJob, channel
<1>2. PICK l \in Lists : \E gone \in SUBSET Range(content[l]) :
         /\ content' \in [Lists -> Seq(Tracks)]
         /\ \A m \in Lists \ {l} : content'[m] = content[m]
         /\ Range(content'[l]) = Range(content[l]) \ gone
         /\ \A k, m \in DOMAIN content'[l] : k < m =>
               \E i, j \in DOMAIN content[l] :
                  i < j /\ content'[l][k] = content[l][i] /\ content'[l][m] = content[l][j]
         /\ dropped' = dropped \union gone
    BY TakenTracks
<1>3. PICK gone \in SUBSET Range(content[l]) :
         /\ content' \in [Lists -> Seq(Tracks)]
         /\ \A m \in Lists \ {l} : content'[m] = content[m]
         /\ Range(content'[l]) = Range(content[l]) \ gone
         /\ \A k, m \in DOMAIN content'[l] : k < m =>
               \E i, j \in DOMAIN content[l] :
                  i < j /\ content'[l][k] = content[l][i] /\ content'[l][m] = content[l][j]
         /\ dropped' = dropped \union gone
    BY <1>2
<1>4. PICK new : new = content'
    OBVIOUS
<1>5. TracksOf(content[l]) = Range(content[l]) /\ TracksOf(new[l]) = Range(new[l])
    BY <1>3, <1>4, TracksAlone DEF Contents
<1>6. /\ gone \subseteq TracksOf(content[l])
      /\ \A t : t \in TracksOf(new[l]) <=> t \in TracksOf(content[l]) /\ t \notin gone
      /\ \A m \in Lists \ {l} : TracksOf(new[m]) = TracksOf(content[m])
    BY <1>3, <1>4, <1>5
<1>7. \A m \in Lists : TracksOf(new[m]) \subseteq TracksOf(content[m])
    BY <1>6
<1>8. \A t : t \in Listed' <=> \E m \in Lists : t \in TracksOf(new[m])
    BY <1>4 DEF Listed
<1>9. \A t : t \in Listed <=> \E m \in Lists : t \in TracksOf(content[m])
    BY DEF Listed
<1>10. \A m \in Lists : \A t \in TracksOf(content[m]) : log[t[1]] = m
    BY DEF Ways, Whereabouts
<1>11. Settled' = Settled
    <2>1. ASSUME NEW t PROVE t \in dropped' \/ t \in Listed' <=> t \in dropped \/ t \in Listed
        <3>1. t \in Listed' => t \in Listed
            BY <1>7, <1>8, <1>9
        <3>2. t \in gone => t \in Listed
            BY <1>6, <1>9
        <3>3. t \in Listed => t \in Listed' \/ t \in gone
            BY <1>6, <1>8, <1>9
        <3> QED
            BY <1>3, <3>1, <3>2, <3>3
    <2> QED
        BY <2>1 DEF Settled
<1>12. dropped' \intersect Listed' = {}
    <2>1. ASSUME NEW t, t \in dropped', t \in Listed' PROVE FALSE
        <3>1. PICK m \in Lists : t \in TracksOf(new[m])
            BY <1>8, <2>1
        <3>2. t \in Listed /\ log[t[1]] = m
            BY <1>7, <1>9, <1>10, <3>1
        <3>3. t \notin dropped
            BY <3>2 DEF Ways, Whereabouts
        <3>4. t \in gone
            BY <1>3, <2>1, <3>3
        <3>5. log[t[1]] = l
            BY <1>6, <1>10, <3>4
        <3> QED
            BY <1>6, <3>1, <3>2, <3>4, <3>5
    <2> QED
        BY <2>1
<1>13. Whereabouts'
    <2>1. found' = Settled' \union AllSent(results') \union TracksOf(buffer')
        BY <1>1, <1>11 DEF Ways, Whereabouts
    <2>2. \A m \in Lists : \A t \in TracksOf(content'[m]) : log'[t[1]] = m
        BY <1>1, <1>4, <1>7, <1>10
    <2> QED
        BY <1>1, <1>12, <2>1, <2>2 DEF Ways, Whereabouts, Adding
<1>14. Piped'
    BY <1>1, <1>11 DEF Ways, Piped
<1>15. TracksInOrder'
    <2>1. \A m \in Lists : ListOrder(m, content[m])
        BY DEF Ways, TracksInOrder, ListOrder
    <2>2. ListOrder(l, new[l])
        <3>1. \A k, m \in DOMAIN new[l] : k < m =>
                 \E i, j \in DOMAIN content[l] :
                    i < j /\ new[l][k] = content[l][i] /\ new[l][m] = content[l][j]
            BY <1>3, <1>4
        <3> QED
            BY <2>1, <3>1 DEF ListOrder
    <2>3. \A m \in Lists : ListOrder(m, new[m])
        BY <1>3, <1>4, <2>1, <2>2
    <2> QED
        BY <1>4, <2>3 DEF TracksInOrder, ListOrder
<1> QED
    BY <1>13, <1>14, <1>15 DEF Ways

\* job_handle, the tracks of a result
LEMMA WaysHandled ==
    ASSUME WInv, Contents, Ways, Numbers, HandleAdd
    PROVE  Ways'
<1> DEFINE R == AddResults \union DeleteResults
<1>0. PICK res : res = Head(results)
    OBVIOUS
<1>1. results \in Seq(R) /\ results # <<>>
    BY DEF HandleAdd, WInv, Types, ResultType
<1>2. res \in AddResults /\ res.kind = "ADD"
    BY <1>0, <1>1 DEF HandleAdd, DeleteResults
<1>3. res.list \in Lists /\ res.items \in Seq(Tracks \union {EndOfLoad}) /\ res.front \in BOOLEAN
    BY <1>2 DEF AddResults
<1> DEFINE kept == {i \in DOMAIN res.items : res.items[i] # EndOfLoad}
<1>4. PICK tracks : tracks = AtIndices(res.items, kept)
    OBVIOUS
<1>5. /\ content' = WithTracks(res.list, tracks, res.front)
      /\ results' = Tail(results)
      /\ UNCHANGED <<buffer, found, dropped, cur, wpc, log>>
    BY <1>0, <1>4 DEF HandleAdd, worker, inJob, history
<1>6. kept \in SUBSET DOMAIN res.items /\ \A i \in DOMAIN res.items : i \in kept <=> res.items[i] # EndOfLoad
    OBVIOUS
<1> HIDE DEF R, kept
<1>7. /\ AllSent(results) = Sent(res) \union AllSent(results')
      /\ \A k \in DOMAIN results' : k + 1 \in DOMAIN results /\ results'[k] = results[k + 1]
      /\ 1 \in DOMAIN results /\ res = results[1]
    BY <1>0, <1>1, <1>5, SentHandled
<1>8. Sent(res) = TracksOf(res.items)
    BY <1>2 DEF Sent
<1>9. /\ AllSooner(Settled, TracksOf(res.items), res.front) /\ Ascends(res.items, res.front)
      /\ res.front => res.list = Queue
      /\ \A t \in TracksOf(res.items) : log[t[1]] = res.list
    BY <1>2, <1>7 DEF Ways, Piped, InPipe, Whereabouts
<1>10. /\ tracks \in Seq(Tracks)
       /\ TracksOf(tracks) = TracksOf(res.items)
       /\ \A i, k \in DOMAIN tracks : i < k => Sooner(tracks[i], tracks[k], res.front)
    BY <1>3, <1>4, <1>6, <1>9, ItemsKept
<1>11. content \in [Lists -> Seq(Tracks)] /\ content[res.list] \in Seq(Tracks)
    BY <1>3 DEF Contents
<1>12. TracksOf(content[res.list]) \subseteq Listed /\ Listed \subseteq Settled
    BY <1>3 DEF Listed, Settled
<1>13. PICK new : new = IF res.front THEN Reverse(tracks) \o content[res.list] ELSE content[res.list] \o tracks
    OBVIOUS
<1>14. TracksOf(new) = TracksOf(content[res.list]) \union Sent(res) /\ ListOrder(res.list, new)
    <2>1. ListOrder(res.list, content[res.list])
        BY <1>3 DEF Ways, TracksInOrder, ListOrder
    <2>2. AllSooner(TracksOf(content[res.list]), TracksOf(tracks), res.front)
        BY <1>9, <1>10, <1>12 DEF AllSooner
    <2>3. /\ res.front => TracksOf(Reverse(tracks) \o content[res.list]) = TracksOf(content[res.list]) \union TracksOf(tracks)
          /\ res.front => ListOrder(res.list, Reverse(tracks) \o content[res.list])
          /\ ~res.front => TracksOf(content[res.list] \o tracks) = TracksOf(content[res.list]) \union TracksOf(tracks)
          /\ ~res.front => ListOrder(res.list, content[res.list] \o tracks)
        BY <1>3, <1>9, <1>10, <1>11, <2>1, <2>2, ListGrows
    <2> QED
        BY <1>3, <1>8, <1>10, <1>13, <2>3
<1>15. content' = [content EXCEPT ![res.list] = new]
    BY <1>5, <1>13 DEF WithTracks
<1>16. content'[res.list] = new /\ \A m \in Lists \ {res.list} : content'[m] = content[m]
    BY <1>3, <1>11, <1>15
<1>17. \A t : t \in Listed' <=> t \in Listed \/ t \in Sent(res)
    <2>1. \A m \in Lists : \A t : t \in TracksOf(content'[m]) <=>
              t \in TracksOf(content[m]) \/ (m = res.list /\ t \in Sent(res))
        BY <1>14, <1>16
    <2> QED
        BY <1>3, <2>1 DEF Listed
<1>18. Settled' = Settled \union Sent(res)
    BY <1>5, <1>17 DEF Settled
<1>19. dropped \intersect Sent(res) = {}
    <2>1. ASSUME NEW t, t \in dropped, t \in Sent(res) PROVE FALSE
        <3>1. Sooner(t, t, res.front)
            BY <1>8, <1>9, <2>1 DEF AllSooner, Settled
        <3>2. t \in Tracks
            BY <2>1 DEF Ways, Whereabouts, Settled, Numbers, FoundNumbered
        <3> QED
            BY <3>1, <3>2, SoonerDiffers
    <2> QED
        BY <2>1
<1>20. Whereabouts'
    <2>1. found' = Settled' \union AllSent(results') \union TracksOf(buffer')
        BY <1>5, <1>7, <1>18 DEF Ways, Whereabouts
    <2>2. dropped' \intersect Listed' = {}
        BY <1>5, <1>17, <1>19 DEF Ways, Whereabouts
    <2>3. buffer' # <<>> => Adding' /\ wpc' # "done"
        BY <1>5 DEF Ways, Whereabouts, Adding
    <2>4. \A m \in Lists : \A t \in TracksOf(content'[m]) : log'[t[1]] = m
        BY <1>5, <1>8, <1>9, <1>14, <1>16 DEF Ways, Whereabouts
    <2>5. \A i \in DOMAIN results' : results'[i].kind = "ADD" =>
              /\ results'[i].front => results'[i].list = Queue
              /\ \A t \in TracksOf(results'[i].items) : log'[t[1]] = results'[i].list
        BY <1>5, <1>7 DEF Ways, Whereabouts
    <2>6. \A t \in TracksOf(buffer') : log'[t[1]] = cur'.list
        BY <1>5 DEF Ways, Whereabouts
    <2> QED
        BY <2>1, <2>2, <2>3, <2>4, <2>5, <2>6 DEF Whereabouts
<1>21. Piped'
    <2>1. InPipe(Settled, results, buffer, cur.front)
        BY DEF Ways, Piped
    <2>2. InPipe(Settled \union Sent(Head(results)), Tail(results), buffer, cur.front)
        BY <1>1, <2>1, Handled
    <2> QED
        BY <1>0, <1>5, <1>18, <2>2 DEF Piped
<1>22. TracksInOrder'
    <2>1. \A m \in Lists : ListOrder(m, content[m])
        BY DEF Ways, TracksInOrder, ListOrder
    <2>2. \A m \in Lists : ListOrder(m, content'[m])
        BY <1>14, <1>16, <2>1
    <2> QED
        BY <2>2 DEF TracksInOrder, ListOrder
<1> QED
    BY <1>20, <1>21, <1>22 DEF Ways

\* What is dropped or listed, sent or buffered was found, and is in order, after
\* every step.
LEMMA WaysStep == WInv /\ Contents /\ Ways /\ Numbers /\ [Next]_vars => Ways'
<1> SUFFICES ASSUME WInv, Contents, Ways, Numbers, [Next]_vars PROVE Ways'
    OBVIOUS
<1> USE DEF history, worker, inJob, channel
<1>1. \A j \in 1 .. Len(log) : log'[j] = log[j]
    BY NumbersStep
<1>2. ASSUME UNCHANGED <<content, results, buffer, found, dropped, cur, wpc>> PROVE Ways'
    <2>1. buffer # <<>> => cur' = cur /\ wpc' # "done"
        BY <1>2 DEF Ways, Whereabouts
    <2> QED
        BY <1>1, <1>2, <2>1, WaysKept
<1>3. InPipe(Settled, results, buffer, cur.front) /\ Addressed(results, log)
    BY DEF Ways, Piped, Whereabouts, Addressed
<1>4. CASE UNCHANGED vars \/ WorkerWakesUp
    <2>1. UNCHANGED <<content, results, buffer, found, dropped, cur, wpc>>
        BY <1>4 DEF vars, WorkerWakesUp, SpuriousWakeup, RemovalWaits, RemovalEnds
    <2> QED
        BY <1>2, <2>1
<1>5. CASE WorkerSteps
    BY <1>1, <1>5, WaysOfWorker
<1>6. CASE AddTracks \/ ImportPlaylist \/ SelectPlaylist \/ PlaySelected \/ PlayNext \/ Quit
    <2>1. UNCHANGED <<content, results, buffer, found, dropped, cur, wpc>>
        BY <1>6 DEF AddTracks, ImportPlaylist, SelectPlaylist, PlaySelected, PlayNext, Quit,
            ScheduleAdd, AddJob
    <2> QED
        BY <1>2, <2>1
<1>7. CASE ClearView \/ DeletePlaylist
    <2>1. UNCHANGED <<content, results, buffer, found, dropped, cur, wpc>>
        BY <1>7 DEF ClearView, DeletePlaylist, RemoveJobs
    <2> QED
        BY <1>2, <2>1
<1>8. CASE ClearPlaylist
    <2>1. Clear(visible) /\ UNCHANGED <<buffer, found, cur, wpc, results>>
        BY <1>8 DEF ClearPlaylist, RemoveJobs
    <2>2. visible \in Lists
        BY DEF WInv, Types, ListType, Lists
    <2> QED
        BY <1>1, <1>3, <2>1, <2>2, WaysCleared
<1>9. CASE ClearedView \/ LoadView
    <2>1. Clear(target) /\ UNCHANGED <<buffer, found, cur, wpc, results>>
        BY <1>9 DEF ClearedView, LoadView, ScheduleAdd, AddJob
    <2>2. target \in Lists
        BY <1>9 DEF ClearedView, LoadView, Resumes, Contents, Lists
    <2> QED
        BY <1>1, <1>3, <2>1, <2>2, WaysCleared
<1>10. CASE ClearedPlaylist \/ ReloadPlaylist \/ ScheduleDelete \/ StartWorker
    <2>1. UNCHANGED <<content, results, buffer, found, dropped, cur, wpc>>
        BY <1>10 DEF ClearedPlaylist, ReloadPlaylist, ScheduleDelete, StartWorker, ScheduleAdd,
            AddJob, SetState
    <2> QED
        BY <1>2, <2>1
<1>11. CASE HandleAdd
    BY <1>11, WaysHandled
<1>12. CASE HandleDelete
    <2> DEFINE R == AddResults \union DeleteResults
    <2>0. PICK res : res = Head(results)
        OBVIOUS
    <2>1. /\ results # <<>> /\ res.kind = "DELETE" /\ results' = Tail(results)
          /\ Clear(res.list)
          /\ UNCHANGED <<buffer, found, cur, wpc>>
        BY <1>12, <2>0 DEF HandleDelete, Clear
    <2>2. results \in Seq(R)
        BY DEF WInv, Types, ResultType
    <2>3. res.list \in Lists
        <3>1. res \in AddResults \union DeleteResults
            BY <2>0, <2>1, <2>2
        <3> QED
            BY <3>1 DEF AddResults, DeleteResults, Lists
    <2> HIDE DEF R
    <2>4. /\ AllSent(results) = Sent(res) \union AllSent(results')
          /\ \A k \in DOMAIN results' : k + 1 \in DOMAIN results /\ results'[k] = results[k + 1]
        BY <2>0, <2>1, <2>2, SentHandled
    <2>5. Sent(res) = {}
        BY <2>1 DEF Sent
    <2>6. InPipe(Settled \union Sent(Head(results)), Tail(results), buffer, cur.front)
        BY <1>3, <2>1, <2>2, Handled
    <2>7. Settled \union Sent(Head(results)) = Settled
        BY <2>0, <2>5
    <2>8. InPipe(Settled, results', buffer, cur.front)
        BY <2>1, <2>6, <2>7
    <2>9. Addressed(results', log)
        BY <1>3, <2>4 DEF Addressed
    <2>10. AllSent(results') = AllSent(results)
        BY <2>4, <2>5
    <2> QED
        BY <1>1, <2>1, <2>3, <2>8, <2>9, <2>10, WaysCleared
<1>13. CASE BeginHandling \/ EndHandling \/ StopAtExit \/ JoinWorker \/ Over
    <2>1. UNCHANGED <<content, results, buffer, found, dropped, cur, wpc>>
        BY <1>13 DEF BeginHandling, EndHandling, StopAtExit, JoinWorker, Over, SetState, vars
    <2> QED
        BY <1>2, <2>1
<1>14. CASE ExitAll
    <2> DEFINE R == AddResults \union DeleteResults
    <2>0. PICK ds : ds = ReportsOfRemoved
        OBVIOUS
    <2>1. /\ results' = results \o ds
          /\ UNCHANGED <<content, buffer, dropped, found, log, cur, wpc>>
        BY <1>14, <2>0 DEF ExitAll, RemoveJobs
    <2>2. ds \in Seq(DeleteResults)
        BY <2>0, ReportsType DEF WInv, Types, QueueType
    <2>3. results \in Seq(R) /\ ds \in Seq(R)
        BY <2>2 DEF WInv, Types, ResultType
    <2>4. \A i \in DOMAIN ds : ds[i].kind = "DELETE"
        <3>1. \A i \in DOMAIN ds : ds[i] \in DeleteResults
            BY <2>2
        <3> QED
            BY <3>1 DEF DeleteResults
    <2> HIDE DEF R
    <2>5. PICK rs : rs = results'
        OBVIOUS
    <2>6. InPipe(Settled, rs, buffer, cur.front)
        BY <1>3, <2>1, <2>3, <2>4, <2>5, ReportsAdded
    <2>7. \A i \in DOMAIN rs : (i \in DOMAIN results /\ rs[i] = results[i]) \/ rs[i].kind = "DELETE"
        BY <2>1, <2>3, <2>4, <2>5, ReportsSend
    <2>8. AllSent(rs) = AllSent(results)
        BY <2>1, <2>3, <2>4, <2>5, ReportsSend
    <2>9. Addressed(rs, log)
        BY <1>3, <2>7 DEF Addressed
    <2>10. found = Settled \union AllSent(results) \union TracksOf(buffer)
        BY DEF Ways, Whereabouts
    <2>11. /\ buffer # <<>> => Adding /\ wpc # "done"
           /\ \A t \in TracksOf(buffer) : log[t[1]] = cur.list
        BY DEF Ways, Whereabouts
    <2>12. /\ InPipe(Settled, results', buffer', cur.front) /\ Addressed(results', log)
           /\ found' = Settled \union AllSent(results') \union TracksOf(buffer')
        BY <2>1, <2>5, <2>6, <2>9, <2>10, <2>8
    <2> QED
        BY <2>1, <2>11, <2>12, WaysPiped
<1>15. CASE RemoveSelected \/ LoseFile
    BY <1>15, WaysTaken
<1> QED
    BY <1>4, <1>5, <1>6, <1>7, <1>8, <1>9, <1>10, <1>11, <1>12, <1>13, <1>14, <1>15
    DEF Next, Commands, Continue, Handle, Exit

-----------------------------------------------------------------------------
(* Sizes, deletions and flags. *)

\* What the worker sends is a batch that is not empty.
LEMMA SizesSent ==
    ASSUME WInv, Sizes, SendBatch, buffer # <<>>
    PROVE  \A i \in DOMAIN results' :
               results'[i].kind = "ADD" => Len(results'[i].items) \in 1 .. TI_CAP
<1>0. PICK x : x = [kind |-> "ADD", list |-> cur.list, items |-> buffer, front |-> cur.front]
    OBVIOUS
<1>1. x.items = buffer /\ results' = Append(results, x)
    BY <1>0 DEF SendBatch
<1> DEFINE R == AddResults \union DeleteResults
           S == Tracks \union {EndOfLoad}
<1>2. results \in Seq(R) /\ buffer \in Seq(S)
    BY DEF WInv, Types, ResultType
<1> HIDE DEF R, S
<1>3. \A i \in DOMAIN results' : (i \in DOMAIN results /\ results'[i] = results[i]) \/ results'[i] = x
    BY <1>1, <1>2
<1>4. Len(buffer) \in Nat /\ Len(buffer) # 0
    BY <1>2
<1>5. Len(x.items) \in 1 .. TI_CAP
    BY <1>1, <1>4, JobsAssumption DEF Sizes
<1> QED
    BY <1>3, <1>5 DEF Sizes

\* add_ti: a full buffer is sent before anything is added.
LEMMA SizesAdded ==
    ASSUME WInv, Sizes, NEW item, AddItem(item)
    PROVE  /\ Len(buffer') <= TI_CAP
           /\ \A i \in DOMAIN results' :
                  results'[i].kind = "ADD" => Len(results'[i].items) \in 1 .. TI_CAP
<1> DEFINE S == Tracks \union {EndOfLoad}
<1>1. buffer \in Seq(S) /\ TI_CAP \in Nat /\ TI_CAP # 0 /\ Len(buffer) <= TI_CAP
    BY JobsAssumption DEF WInv, Types, ResultType, Sizes
<1> HIDE DEF S
<1>2. CASE Len(buffer) = TI_CAP
    <2>1. SendBatch /\ buffer' = <<item>>
        BY <1>2 DEF AddItem
    <2>2. buffer # <<>>
        BY <1>1, <1>2
    <2>3. Len(<<item>>) = 1
        OBVIOUS
    <2> QED
        BY <1>1, <2>1, <2>2, <2>3, SizesSent
<1>3. CASE Len(buffer) # TI_CAP
    <2>1. buffer' = Append(buffer, item) /\ results' = results
        BY <1>3 DEF AddItem
    <2>2. Len(buffer') = Len(buffer) + 1
        BY <1>1, <2>1
    <2> QED
        BY <1>1, <1>3, <2>1, <2>2 DEF Sizes
<1> QED
    BY <1>2, <1>3

\* No step makes a buffer or a batch too long.
LEMMA SizesStep == WInv /\ Sizes /\ [Next]_vars => Sizes'
<1> SUFFICES ASSUME WInv, Sizes, [Next]_vars PROVE Sizes'
    OBVIOUS
<1> USE DEF history, inJob, channel
<1>0. log \in Seq(Lists) /\ MaxTracks \in Nat /\ TI_CAP \in Nat /\ MaxJobs \in Nat
    BY JobsAssumption DEF WInv, Types, QueueType
<1>1. ASSUME UNCHANGED <<seen, buffer, log, results>> PROVE Sizes'
    BY <1>1 DEF Sizes
<1>2. ASSUME UNCHANGED <<seen, buffer, results>>,
             NEW l, Len(log) < MaxJobs, log' = Append(log, l) PROVE Sizes'
    <2>1. Len(log') = Len(log) + 1 /\ Len(log) \in Nat
        BY <1>0, <1>2
    <2>2. Len(log') <= MaxJobs
        BY <1>0, <1>2, <2>1
    <2> QED
        BY <1>2, <2>2 DEF Sizes
<1>3. CASE UNCHANGED vars
    <2>1. UNCHANGED <<seen, buffer, log, results>>
        BY <1>3 DEF vars
    <2> QED
        BY <1>1, <2>1
<1>4. CASE FindTrack
    <2>1. Running("ADD") /\ seen < cur.n /\ seen' = seen + 1 /\ AddItem(NextTrack) /\ log' = log
        BY <1>4 DEF FindTrack
    <2>2. cur \in AddJobs /\ seen \in Nat
        BY <2>1 DEF WInv, Types, QueueType, ResultType, Control, CancelIsForTheRunningJob,
            Running, AnyJob, AddJobs, DeleteJobs
    <2>3. cur.n \in 0 .. MaxTracks
        BY <2>2 DEF AddJobs
    <2>4. seen' <= MaxTracks
        BY <1>0, <2>1, <2>2, <2>3
    <2> HIDE DEF NextTrack
    <2>5. /\ Len(buffer') <= TI_CAP
          /\ \A i \in DOMAIN results' :
                 results'[i].kind = "ADD" => Len(results'[i].items) \in 1 .. TI_CAP
        BY <2>1, SizesAdded
    <2> QED
        BY <2>1, <2>4, <2>5 DEF Sizes
<1>5. CASE FinishEntries
    <2>1. UNCHANGED <<seen, log>> /\ (AddItem(EndOfLoad) \/ UNCHANGED <<buffer, results>>)
        BY <1>5 DEF FinishEntries
    <2>2. CASE AddItem(EndOfLoad)
        BY <2>1, <2>2, SizesAdded DEF Sizes
    <2> QED
        BY <1>1, <2>1, <2>2
<1>6. CASE SendRest
    <2>1. SendBatch /\ buffer # <<>> /\ buffer' = <<>> /\ UNCHANGED <<seen, log>>
        BY <1>6 DEF SendRest
    <2>2. Len(<<>>) <= TI_CAP
        BY <1>0
    <2> QED
        BY <2>1, <2>2, SizesSent DEF Sizes
<1>7. CASE AddDone \/ Notify \/ WorkerWakesUp
    <2>1. UNCHANGED <<seen, buffer, log, results>>
        BY <1>7 DEF AddDone, Notify, WorkerWakesUp
    <2> QED
        BY <1>1, <2>1
<1>8. CASE FreeDeleteJob
    <2>0. PICK x : x = [kind |-> "DELETE", list |-> cur.list]
        OBVIOUS
    <2>1. results' = Append(results, x) /\ x.kind = "DELETE" /\ UNCHANGED <<seen, buffer, log>>
        BY <1>8, <2>0 DEF FreeDeleteJob
    <2> DEFINE R == AddResults \union DeleteResults
    <2>2. results \in Seq(R)
        BY DEF WInv, Types, ResultType
    <2> HIDE DEF R
    <2>3. \A i \in DOMAIN results' : (i \in DOMAIN results /\ results'[i] = results[i]) \/ results'[i] = x
        BY <2>1, <2>2
    <2> QED
        BY <2>1, <2>3 DEF Sizes
<1>9. CASE WorkerLoop
    BY <1>0, <1>9 DEF WorkerLoop, Sizes
<1>10. CASE AddTracks \/ ImportPlaylist \/ LoadView \/ ReloadPlaylist
    <2>1. UNCHANGED <<seen, buffer, results>> /\ \E l : Len(log) < MaxJobs /\ log' = Append(log, l)
        BY <1>10 DEF AddTracks, ImportPlaylist, LoadView, ReloadPlaylist, ScheduleAdd
    <2> QED
        BY <1>2, <2>1
<1>11. CASE SelectPlaylist \/ PlaySelected \/ PlayNext \/ ClearView \/ ClearPlaylist
            \/ DeletePlaylist \/ Quit
    <2>1. UNCHANGED <<seen, buffer, log, results>>
        BY <1>11 DEF SelectPlaylist, PlaySelected, PlayNext, ClearView, ClearPlaylist,
            DeletePlaylist, Quit
    <2> QED
        BY <1>1, <2>1
<1>12. CASE ClearedView \/ ClearedPlaylist \/ ScheduleDelete \/ StartWorker \/ BeginHandling
            \/ EndHandling \/ StopAtExit \/ JoinWorker \/ Over
    <2>1. UNCHANGED <<seen, buffer, log, results>>
        BY <1>12 DEF ClearedView, ClearedPlaylist, ScheduleDelete, StartWorker, BeginHandling,
            EndHandling, StopAtExit, JoinWorker, Over, vars
    <2> QED
        BY <1>1, <2>1
<1>13. CASE HandleAdd \/ HandleDelete
    <2>1. results' = Tail(results) /\ results # <<>> /\ UNCHANGED <<seen, buffer, log>>
        BY <1>13 DEF HandleAdd, HandleDelete
    <2> DEFINE R == AddResults \union DeleteResults
    <2>2. results \in Seq(R)
        BY DEF WInv, Types, ResultType
    <2> HIDE DEF R
    <2>3. \A k \in DOMAIN results' : k + 1 \in DOMAIN results /\ results'[k] = results[k + 1]
        BY <2>1, <2>2, SentHandled
    <2> QED
        BY <2>1, <2>3 DEF Sizes
<1>14. CASE ExitAll
    <2>0. PICK ds : ds = ReportsOfRemoved
        OBVIOUS
    <2>1. results' = results \o ds /\ UNCHANGED <<seen, buffer, log>>
        BY <1>14, <2>0 DEF ExitAll
    <2> DEFINE R == AddResults \union DeleteResults
    <2>2. ds \in Seq(DeleteResults)
        BY <2>0, ReportsType DEF WInv, Types, QueueType
    <2>3. results \in Seq(R) /\ ds \in Seq(R)
        BY <2>2 DEF WInv, Types, ResultType
    <2>4. \A i \in DOMAIN ds : ds[i].kind = "DELETE"
        <3>1. \A i \in DOMAIN ds : ds[i] \in DeleteResults
            BY <2>2
        <3> QED
            BY <3>1 DEF DeleteResults
    <2> HIDE DEF R
    <2>5. \A i \in DOMAIN results' : (i \in DOMAIN results /\ results'[i] = results[i]) \/ results'[i].kind = "DELETE"
        BY <2>1, <2>3, <2>4, ReportsSend
    <2> QED
        BY <2>1, <2>5 DEF Sizes
<1>15. CASE RemoveSelected \/ LoseFile
    <2>1. UNCHANGED <<seen, buffer, log, results>>
        BY <1>15, TakenOut
    <2> QED
        BY <1>1, <2>1
<1> QED
    BY <1>3, <1>4, <1>5, <1>6, <1>7, <1>8, <1>9, <1>10, <1>11, <1>12, <1>13, <1>14, <1>15
    DEF Next, WorkerSteps, Commands, Continue, Handle, Exit

\* A step by which nothing new is deleted but what was made.
LEMMA OnceMadeFrom ==
    ASSUME OnceMade, made \in Playlists, made' \in Playlists, made <= made',
           rest' = "delete" => target' \in 1 .. made,
           \A i \in DOMAIN queue' : queue'[i].kind = "DELETE" => queue'[i].list \in 1 .. made,
           cur' # NoJob /\ cur'.kind = "DELETE" => cur'.list \in 1 .. made,
           \A i \in DOMAIN results' : results'[i].kind = "DELETE" => results'[i].list \in 1 .. made,
           freed' \subseteq 1 .. made
    PROVE  OnceMade'
<1>1. 1 .. made \subseteq 1 .. made'
    BY JobsAssumption DEF Playlists
<1>2. \A p \in 1 .. made : p \in 1 .. made'
    BY <1>1
<1> QED
    BY <1>1, <1>2 DEF OnceMade

\* Every playlist that is deleted was made.
LEMMA OnceMadeStep == WInv /\ OnceMade /\ [Next]_vars => OnceMade'
<1> SUFFICES ASSUME WInv, OnceMade, [Next]_vars PROVE OnceMade'
    OBVIOUS
<1> USE DEF history, inJob, channel, worker, playlists, main
<1> DEFINE R == AddResults \union DeleteResults
<1>0. /\ queue \in Seq(AnyJob) /\ results \in Seq(R) /\ made \in Playlists
      /\ listed \subseteq 1 .. made
    BY DEF WInv, Types, QueueType, ResultType, ListType
<1> HIDE DEF R
<1>1. made \in Int /\ made <= made
    BY <1>0, JobsAssumption DEF Playlists
<1>2. /\ \A i \in DOMAIN queue : queue[i].kind = "DELETE" => queue[i].list \in 1 .. made
      /\ cur # NoJob /\ cur.kind = "DELETE" => cur.list \in 1 .. made
      /\ \A i \in DOMAIN results : results[i].kind = "DELETE" => results[i].list \in 1 .. made
      /\ freed \subseteq 1 .. made
      /\ rest = "delete" => target \in 1 .. made
    BY DEF OnceMade
<1>3. CASE UNCHANGED vars
    <2>1. UNCHANGED <<rest, target, queue, cur, results, freed, made>>
        BY <1>3 DEF vars
    <2> QED
        BY <2>1 DEF OnceMade
<1>4. CASE FindTrack \/ FinishEntries \/ SendRest
    <2>1. /\ UNCHANGED <<rest, target, queue, cur, freed, made>>
          /\ SendBatch \/ results' = results
        BY <1>4 DEF FindTrack, FinishEntries, SendRest, AddItem
    <2>2. ASSUME NEW i \in DOMAIN results', results'[i].kind = "DELETE"
          PROVE  results'[i].list \in 1 .. made
        <3>1. CASE SendBatch
            <4>1. PICK x : x.kind = "ADD" /\ results' = Append(results, x)
                BY <3>1 DEF SendBatch
            <4>2. (i \in DOMAIN results /\ results'[i] = results[i]) \/ results'[i] = x
                BY <1>0, <2>2, <4>1
            <4> QED
                BY <1>2, <2>2, <4>1, <4>2
        <3> QED
            BY <1>2, <2>1, <2>2, <3>1
    <2> QED
        BY <1>0, <1>1, <1>2, <2>1, <2>2, OnceMadeFrom
<1>5. CASE FreeDeleteJob
    <2>0. PICK x : x = [kind |-> "DELETE", list |-> cur.list]
        OBVIOUS
    <2>1. /\ results' = Append(results, x) /\ x.list = cur.list /\ Running("DELETE")
          /\ UNCHANGED <<rest, target, queue, cur, freed, made>>
        BY <1>5, <2>0 DEF FreeDeleteJob
    <2>2. \A i \in DOMAIN results' : (i \in DOMAIN results /\ results'[i] = results[i]) \/ results'[i] = x
        BY <1>0, <2>1
    <2>3. x.list \in 1 .. made
        BY <1>2, <2>1 DEF WInv, Control, CancelIsForTheRunningJob, Running
    <2> QED
        BY <1>0, <1>1, <1>2, <2>1, <2>2, <2>3, OnceMadeFrom
<1>6. CASE AddDone \/ Notify \/ WorkerWakesUp
    <2>1. UNCHANGED <<rest, target, queue, cur, results, freed, made>>
        BY <1>6 DEF AddDone, Notify, WorkerWakesUp, SpuriousWakeup, RemovalWaits, RemovalEnds
    <2> QED
        BY <2>1 DEF OnceMade
<1>7. CASE WorkerLoop
    <2>1. UNCHANGED <<rest, target, results, freed, made>>
        BY <1>7 DEF WorkerLoop
    <2>2. CASE TakeJob
        <3>1. queue # <<>> /\ cur' = Head(queue) /\ queue' = Tail(queue)
            BY <2>2 DEF TakeJob
        <3>2. /\ \A k \in DOMAIN queue' : k + 1 \in DOMAIN queue /\ queue'[k] = queue[k + 1]
              /\ 1 \in DOMAIN queue /\ cur' = queue[1]
            BY <1>0, <3>1
        <3> QED
            BY <1>0, <1>1, <1>2, <2>1, <3>2, OnceMadeFrom
    <2>3. CASE WaitForJob \/ StopWorker \/ FinishJob
        <3>1. queue' = queue /\ (cur' = cur \/ cur' = NoJob)
            BY <2>3 DEF WaitForJob, StopWorker, FinishJob
        <3> QED
            BY <1>0, <1>1, <1>2, <2>1, <3>1, OnceMadeFrom
    <2> QED
        BY <1>7, <2>2, <2>3 DEF WorkerLoop
<1>8. CASE AddTracks \/ ImportPlaylist \/ LoadView \/ ReloadPlaylist
    <2>1. /\ UNCHANGED <<results, freed, cur>>
          /\ made' = made \/ (made < MaxLists /\ made' = made + 1)
          /\ rest' = "nothing" \/ UNCHANGED <<rest, target>>
        BY <1>8 DEF AddTracks, ImportPlaylist, LoadView, ReloadPlaylist, Back, ScheduleAdd, AddJob
    <2>2. PICK x : x.kind = "ADD" /\ queue' = Append(queue, x)
        <3>1. \E l, n, source, front : ScheduleAdd(l, n, source, front)
            BY <1>8 DEF AddTracks, ImportPlaylist, LoadView, ReloadPlaylist
        <3>2. PICK l, n, source, front : ScheduleAdd(l, n, source, front)
            BY <3>1
        <3>3. NewJob(l, n, source, front).kind = "ADD" /\ queue' = Append(queue, NewJob(l, n, source, front))
            BY <3>2 DEF ScheduleAdd, AddJob, NewJob
        <3> QED
            BY <3>3
    <2>3. \A i \in DOMAIN queue' : (i \in DOMAIN queue /\ queue'[i] = queue[i]) \/ queue'[i] = x
        BY <1>0, <2>2
    <2>4. made' \in Playlists /\ made <= made'
        BY <1>0, <2>1, JobsAssumption DEF Playlists
    <2>5. \A i \in DOMAIN queue' : queue'[i].kind = "DELETE" => queue'[i].list \in 1 .. made
        BY <1>2, <2>2, <2>3
    <2> QED
        BY <1>0, <1>2, <2>1, <2>4, <2>5, OnceMadeFrom
<1>9. CASE SelectPlaylist \/ PlaySelected \/ PlayNext \/ Quit \/ ClearedView \/ ClearedPlaylist
           \/ StartWorker \/ BeginHandling \/ EndHandling \/ StopAtExit \/ JoinWorker \/ Over
    <2>1. /\ UNCHANGED <<queue, cur, results, freed, made>>
          /\ rest' = "nothing" \/ UNCHANGED <<rest, target>>
        BY <1>9 DEF SelectPlaylist, PlaySelected, PlayNext, Quit, ClearedView, ClearedPlaylist,
            StartWorker, BeginHandling, EndHandling, StopAtExit, JoinWorker, Over, SetState, Back, vars
    <2> QED
        BY <1>0, <1>1, <1>2, <2>1, OnceMadeFrom
<1>10. CASE ClearView \/ ClearPlaylist \/ DeletePlaylist \/ ExitAll
    <2>1. PICK M : RemoveJobs(M)
        BY <1>10 DEF ClearView, ClearPlaylist, DeletePlaylist, ExitAll
    <2>2. cur' = cur /\ \A k \in DOMAIN queue' : \E i \in DOMAIN queue : queue'[k] = queue[i]
        BY <1>0, <2>1, RemovedJobs
    <2>3. \A i \in DOMAIN queue' : queue'[i].kind = "DELETE" => queue'[i].list \in 1 .. made
        BY <1>2, <2>2
    <2>4. freed' = freed /\ (rest' = "delete" => target' \in listed)
        BY <1>10 DEF ClearView, ClearPlaylist, DeletePlaylist, ExitAll, Await
    <2>5. made' \in Playlists /\ made <= made'
        <3>1. made' = made \/ (made < MaxLists /\ made' = made + 1)
            BY <1>10 DEF ClearView, ClearPlaylist, DeletePlaylist, ExitAll
        <3> QED
            BY <1>0, <3>1, JobsAssumption DEF Playlists
    <2>6. \A i \in DOMAIN results' : results'[i].kind = "DELETE" => results'[i].list \in 1 .. made
        <3>1. CASE ExitAll
            <4>0. PICK ds : ds = ReportsOfRemoved
                OBVIOUS
            <4>1. results' = results \o ds
                BY <3>1, <4>0 DEF ExitAll
            <4>2. /\ ds \in Seq(DeleteResults)
                  /\ \A k \in DOMAIN ds : \E i \in DOMAIN queue :
                        queue[i].kind = "DELETE" /\ ds[k].list = queue[i].list
                BY <1>0, <4>0, ReportsType
            <4>3. \A k \in DOMAIN ds : ds[k].list \in 1 .. made
                BY <1>2, <4>2
            <4>4. ds \in Seq(R)
                BY <4>2 DEF R
            <4>5. \A k \in DOMAIN results' :
                      \/ k \in 1 .. Len(results) /\ results'[k] = results[k]
                      \/ k - Len(results) \in 1 .. Len(ds) /\ results'[k] = ds[k - Len(results)]
                <5>1. /\ \A k \in 1 .. Len(results) : results'[k] = results[k]
                      /\ \A k \in DOMAIN results' :
                            \/ k \in 1 .. Len(results)
                            \/ k - Len(results) \in 1 .. Len(ds) /\ results'[k] = ds[k - Len(results)]
                    BY <1>0, <4>1, <4>4, JoinedAt
                <5> QED
                    BY <5>1
            <4>6. DOMAIN ds = 1 .. Len(ds) /\ DOMAIN results = 1 .. Len(results)
                BY <1>0, <4>4
            <4> QED
                BY <1>2, <4>3, <4>5, <4>6
        <3>2. CASE ClearView \/ ClearPlaylist \/ DeletePlaylist
            <4>1. results' = results
                BY <3>2 DEF ClearView, ClearPlaylist, DeletePlaylist
            <4> QED
                BY <1>2, <4>1
        <3> QED
            BY <1>10, <3>1, <3>2
    <2> QED
        BY <1>0, <1>2, <2>2, <2>3, <2>4, <2>5, <2>6, OnceMadeFrom
<1>11. CASE ScheduleDelete
    <2>0. PICK x : x = [kind |-> "DELETE", list |-> target]
        OBVIOUS
    <2>1. /\ queue' = Append(queue, x) /\ x.list = target /\ rest = "delete" /\ rest' = "nothing"
          /\ UNCHANGED <<results, freed, made, cur>>
        BY <1>11, <2>0 DEF ScheduleDelete, AddJob, Resumes, Back
    <2>2. \A i \in DOMAIN queue' : (i \in DOMAIN queue /\ queue'[i] = queue[i]) \/ queue'[i] = x
        BY <1>0, <2>1
    <2>3. \A i \in DOMAIN queue' : queue'[i].kind = "DELETE" => queue'[i].list \in 1 .. made
        BY <1>2, <2>1, <2>2
    <2> QED
        BY <1>0, <1>1, <1>2, <2>1, <2>3, OnceMadeFrom
<1>12. CASE HandleAdd \/ HandleDelete
    <2>1. /\ results' = Tail(results) /\ results # <<>>
          /\ UNCHANGED <<rest, target, queue, cur, made>>
          /\ freed' = freed \/ (Head(results).kind = "DELETE" /\ freed' = freed \union {Head(results).list})
        BY <1>12 DEF HandleAdd, HandleDelete
    <2>2. /\ \A k \in DOMAIN results' : k + 1 \in DOMAIN results /\ results'[k] = results[k + 1]
          /\ 1 \in DOMAIN results /\ Head(results) = results[1]
        BY <1>0, <2>1, SentHandled
    <2>3. freed' \subseteq 1 .. made
        BY <1>2, <2>1, <2>2, ZenonT(60)
    <2>4. \A i \in DOMAIN results' : results'[i].kind = "DELETE" => results'[i].list \in 1 .. made
        BY <1>2, <2>2
    <2> QED
        BY <1>0, <1>1, <1>2, <2>1, <2>3, <2>4, OnceMadeFrom
<1>13. CASE RemoveSelected \/ LoseFile
    <2>1. UNCHANGED <<queue, cur, results, freed, made, rest, target>>
        BY <1>13, TakenOut
    <2> QED
        BY <1>0, <1>1, <1>2, <2>1, OnceMadeFrom
<1> QED
    BY <1>3, <1>4, <1>5, <1>6, <1>7, <1>8, <1>9, <1>10, <1>11, <1>12, <1>13
    DEF Next, WorkerSteps, Commands, Continue, Handle, Exit

\* The flags and the states of the threads.
LEMMA FlagsStep == WInv /\ Flags /\ [Next]_vars => Flags'
<1> SUFFICES ASSUME WInv, Flags, [Next]_vars PROVE Flags'
    OBVIOUS
<1> USE DEF history, inJob, channel, worker, playlists, main
<1>1. CASE UNCHANGED vars
    BY <1>1 DEF vars, Flags
<1>2. CASE WorkerSteps \/ WorkerWakesUp
    <2>1. /\ UNCHANGED <<state, resume, quitting, asked, mpc, rest, target>>
          /\ cancel' = cancel \/ cancel' = FALSE
          /\ removing' = removing \/ removing' = FALSE
          /\ ended' = ended \/ ended' \in BOOLEAN
          /\ pipe' = pipe \/ pipe' = TRUE
        BY <1>2 DEF WorkerSteps, FindTrack, FinishEntries, SendRest, AddDone, FreeDeleteJob, Notify,
            WorkerLoop, TakeJob, WaitForJob, StopWorker, FinishJob, WorkerWakesUp, SpuriousWakeup,
            RemovalWaits, RemovalEnds
    <2>2. cancel' \in BOOLEAN /\ removing' \in BOOLEAN /\ ended' \in BOOLEAN /\ pipe' \in BOOLEAN
        <3>1. cancel' \in BOOLEAN
            BY <2>1, Zenon DEF Flags
        <3>2. removing' \in BOOLEAN
            BY <2>1, Zenon DEF Flags
        <3>3. ended' \in BOOLEAN
            BY <2>1, Zenon DEF Flags
        <3>4. pipe' \in BOOLEAN
            BY <2>1, Zenon DEF Flags
        <3> QED
            BY <3>1, <3>2, <3>3, <3>4
    <2> QED
        BY <2>1, <2>2 DEF Flags
<1>3. CASE AddTracks \/ ImportPlaylist \/ SelectPlaylist \/ PlaySelected \/ PlayNext
    <2>1. UNCHANGED <<cancel, removing, state, ended, pipe, resume, quitting, asked, mpc, rest, target>>
        BY <1>3 DEF AddTracks, ImportPlaylist, SelectPlaylist, PlaySelected, PlayNext,
            ScheduleAdd, AddJob
    <2> QED
        BY <2>1 DEF Flags
<1>4. CASE Quit
    <2>1. /\ UNCHANGED <<cancel, removing, state, ended, pipe, resume, mpc, rest, target>>
          /\ asked' = HasJob(AnyType) /\ quitting' = TRUE
        BY <1>4 DEF Quit
    <2>2. asked' \in BOOLEAN
        BY <2>1, Zenon DEF HasJob
    <2> QED
        BY <2>1, <2>2 DEF Flags
<1>5. CASE ClearView \/ ClearPlaylist \/ DeletePlaylist
    <2>1. PICK M : RemoveJobs(M)
        BY <1>5 DEF ClearView, ClearPlaylist, DeletePlaylist
    <2>2. /\ state' = state
          /\ cancel' = cancel \/ cancel' = TRUE
          /\ removing' = removing \/ removing' = TRUE
        BY <2>1 DEF RemoveJobs
    <2>3. UNCHANGED <<ended, pipe, resume, quitting, asked>>
        BY <1>5 DEF ClearView, ClearPlaylist, DeletePlaylist
    <2>4. \E what \in {"clear", "load", "nothing", "reload", "delete"}, l \in Lists : Await(what, l)
        <3>1. visible \in Lists /\ Views \subseteq Lists
            BY DEF WInv, Types, ListType, Lists
        <3>2. listed \subseteq Lists
            BY JobsAssumption DEF WInv, Types, ListType, Lists, Playlists
        <3> QED
            BY <1>5, <3>1, <3>2 DEF ClearView, ClearPlaylist, DeletePlaylist
    <2>5. mpc' = "remove" /\ rest' \in {"clear", "load", "nothing", "reload", "delete"} /\ target' \in Lists
        BY <2>4 DEF Await
    <2> QED
        BY <2>2, <2>3, <2>5, ZenonT(60) DEF Flags
<1>6. CASE Continue
    <2>1. /\ UNCHANGED <<cancel, removing, state, ended, pipe, resume, quitting, asked>>
          /\ Back
        BY <1>6 DEF Continue, ClearedView, LoadView, ClearedPlaylist, ReloadPlaylist,
            ScheduleDelete, ScheduleAdd, AddJob
    <2> QED
        BY <2>1 DEF Back, Flags
<1>7. CASE StartWorker \/ BeginHandling \/ EndHandling \/ HandleDelete \/ StopAtExit \/ JoinWorker \/ Over
    <2>1. /\ UNCHANGED <<cancel, removing, ended, resume, quitting, asked, rest, target>>
          /\ state' = state \/ state' \in {"RUNNING", "STOPPED"}
          /\ pipe' = pipe \/ pipe' = FALSE
          /\ mpc' = mpc \/ mpc' \in {"loop", "handle", "join", "over"}
        BY <1>7 DEF StartWorker, BeginHandling, EndHandling, HandleDelete, StopAtExit, JoinWorker,
            Over, SetState, vars
    <2>2. pipe' \in BOOLEAN
        <3>1. pipe' \in BOOLEAN
            BY <2>1, Zenon DEF Flags
        <3> QED
            BY <3>1
    <2> QED
        BY <2>1, <2>2 DEF Flags
<1>8. CASE HandleAdd
    <2>1. UNCHANGED <<cancel, removing, state, ended, pipe, quitting, asked, rest, target>>
        BY <1>8 DEF HandleAdd
    <2>2. mpc' = mpc \/ mpc' = "bug"
        BY <1>8, LoadedChoices
    <2>3. resume' = resume \/ resume' = FALSE
        BY <1>8, Zenon DEF HandleAdd, Loaded
    <2>4. resume' \in BOOLEAN
        BY <2>3, Zenon DEF Flags
    <2> QED
        BY <2>1, <2>2, <2>4 DEF Flags
<1>9. CASE ExitAll
    <2>1. RemoveJobs(AnyType) /\ Await("stop", NoList) /\ UNCHANGED <<ended, resume, quitting, asked>>
        BY <1>9 DEF ExitAll
    <2>2. /\ state' = state
          /\ cancel' = cancel \/ cancel' = TRUE
          /\ removing' = removing \/ removing' = TRUE
        BY <2>1 DEF RemoveJobs
    <2>3. pipe' \in BOOLEAN
        BY <1>9, Zenon DEF ExitAll
    <2> QED
        BY <2>1, <2>2, <2>3 DEF Await, Flags
<1>10. CASE RemoveSelected \/ LoseFile
    <2>1. UNCHANGED <<cancel, removing, state, ended, pipe, resume, quitting, asked, mpc, rest, target>>
        BY <1>10, TakenOut
    <2> QED
        BY <2>1 DEF Flags
<1> QED
    BY <1>1, <1>2, <1>3, <1>4, <1>5, <1>6, <1>7, <1>8, <1>9, <1>10
    DEF Next, Commands, Handle, Exit

\* What plays, or played and was lost, is a track.
LEMMA PlayedStep == WInv /\ Contents /\ Played /\ [Next]_vars => Played'
<1> SUFFICES ASSUME WInv, Contents, Played, [Next]_vars PROVE Played'
    OBVIOUS
<1>1. \A l \in Lists : Range(content[l]) \subseteq Tracks
    BY DEF Contents, Range
<1>2. visible \in Lists /\ listed \subseteq Lists /\ playing \in Lists \union {NoList}
    BY JobsAssumption DEF WInv, Types, ListType, Lists, Playlists
<1>3. CASE UNCHANGED <<ptrack, lost>>
    BY <1>3 DEF Played
<1>4. CASE PlaySelected
    BY <1>1, <1>2, <1>4 DEF PlaySelected, Played
<1>5. CASE PlayNext
    BY <1>1, <1>2, <1>5 DEF PlayNext, Played
<1>6. CASE ClearPlaylist \/ DeletePlaylist
    <2>1. lost' = lost /\ (ptrack' = ptrack \/ ptrack' = NoTrack)
        BY <1>6 DEF ClearPlaylist, DeletePlaylist
    <2> QED
        BY <2>1 DEF Played
<1>7. CASE RemoveSelected \/ LoseFile
    <2>1. ptrack' = NoTrack \/ ptrack' = ptrack
        BY <1>7, TakenOut
    <2>2. PICK l \in Lists : \E gone \in SUBSET Range(content[l]) :
             lost' = lost \union ({ptrack'} \intersect gone)
        BY <1>7, TakenTracks
    <2>3. PICK gone \in SUBSET Range(content[l]) : lost' = lost \union ({ptrack'} \intersect gone)
        BY <2>2
    <2> QED
        BY <1>1, <2>1, <2>3 DEF Played
<1>8. CASE HandleAdd
    <2> DEFINE loaded == Head(results).list
    <2>1. /\ lost' = lost
          /\ \/ ptrack' = ptrack
             \/ loaded \in Playlists /\ ptrack' \in Range(content'[loaded])
        BY <1>8, LoadedChoices
    <2> HIDE DEF loaded
    <2>2. \A l \in Lists : Range(content'[l]) \subseteq Tracks
        BY <1>8, HandleAddContents DEF Range
    <2>3. Playlists \subseteq Lists
        BY DEF Lists
    <2> QED
        BY <2>1, <2>2, <2>3 DEF Played
<1>9. CASE UNCHANGED vars \/ WorkerSteps \/ WorkerWakesUp \/ StartWorker \/ AddTracks \/ ImportPlaylist
           \/ SelectPlaylist \/ ClearView \/ Continue \/ Quit
    <2>1. UNCHANGED <<ptrack, lost>>
        BY <1>9 DEF vars, playlists, WorkerSteps, WorkerWakesUp, FindTrack, FinishEntries, SendRest,
            AddDone, FreeDeleteJob, Notify, WorkerLoop, StartWorker, AddTracks, ImportPlaylist,
            SelectPlaylist, ClearView, Continue, ClearedView, LoadView, ClearedPlaylist,
            ReloadPlaylist, ScheduleDelete, Quit
    <2> QED
        BY <1>3, <2>1
<1>10. CASE BeginHandling \/ HandleDelete \/ EndHandling \/ Exit \/ Over
    <2>1. UNCHANGED <<ptrack, lost>>
        BY <1>10 DEF playlists, vars, BeginHandling, HandleDelete, EndHandling, Exit, ExitAll,
            StopAtExit, JoinWorker, Over
    <2> QED
        BY <1>3, <2>1
<1> QED
    BY <1>4, <1>5, <1>6, <1>7, <1>8, <1>9, <1>10 DEF Next, Commands, Handle

-----------------------------------------------------------------------------
(* The inductive invariant and what follows from it. *)

TInv == Contents /\ Numbers /\ Ways /\ Sizes /\ OnceMade /\ Flags /\ Played

\* At the start nothing was found.
LEMMA TracksInit == Init => TInv
<1> SUFFICES ASSUME Init PROVE TInv
    OBVIOUS
<1>1. /\ queue = <<>> /\ cur = NoJob /\ cancel = FALSE /\ state = "PAUSED" /\ removing = FALSE
      /\ seen = 0 /\ ended = FALSE /\ buffer = <<>> /\ results = <<>> /\ pipe = FALSE
      /\ content = [l \in Lists |-> <<>>] /\ made = 1 /\ freed = {}
      /\ ptrack = NoTrack /\ lost = {} /\ resume \in BOOLEAN /\ mpc = "loop" /\ rest = "nothing" /\ target = NoList
      /\ quitting = FALSE /\ log = <<>> /\ found = {} /\ dropped = {} /\ asked = FALSE
    BY DEF Init, WorkerInit
<1>2. TracksOf(<<>>) = {} /\ DOMAIN <<>> = {} /\ ~Adding
    BY <1>1 DEF TracksOf, Adding
<1>3. Contents
    <2>1. <<>> \in Seq(Tracks)
        OBVIOUS
    <2> QED
        BY <1>1, <2>1 DEF Contents
<1>4. Numbers
    BY <1>1, <1>2 DEF Numbers, JobsNumbered, FoundNumbered
<1>5. Ways
    <2>1. \A l \in Lists : content[l] = <<>>
        BY <1>1
    <2>2. Listed = {} /\ AllSent(results) = {} /\ Settled = {}
        BY <1>1, <1>2, <2>1 DEF Listed, AllSent, Settled
    <2>3. Whereabouts
        BY <1>1, <1>2, <2>1, <2>2 DEF Whereabouts
    <2>4. Piped
        BY <1>1, <1>2 DEF Piped, InPipe, AllSooner, Ascends
    <2>5. TracksInOrder
        BY <1>2, <2>1 DEF TracksInOrder
    <2> QED
        BY <2>3, <2>4, <2>5 DEF Ways
<1>6. Sizes
    <2>1. Len(<<>>) = 0
        OBVIOUS
    <2> QED
        BY <1>1, <1>2, <2>1, JobsAssumption DEF Sizes
<1>7. OnceMade
    BY <1>1, <1>2 DEF OnceMade
<1>8. Flags /\ Played
    BY <1>1 DEF Flags, Played
<1> QED
    BY <1>3, <1>4, <1>5, <1>6, <1>7, <1>8 DEF TInv

\* Everything has its type.
LEMMA TracksTypeOK == WInv /\ TInv => TypeOK
<1> SUFFICES ASSUME WInv, TInv PROVE TypeOK
    OBVIOUS
<1> DEFINE R == AddResults \union DeleteResults
           S == Tracks \union {EndOfLoad}
<1>1. /\ queue \in Seq(AnyJob) /\ log \in Seq(Lists) /\ results \in Seq(R) /\ buffer \in Seq(S)
      /\ content \in [Lists -> Seq(Tracks)]
    BY DEF WInv, Types, QueueType, ResultType, TInv, Contents
<1>2. /\ Range(queue) \subseteq AnyJob /\ Range(log) \subseteq Lists /\ Range(buffer) \subseteq S
      /\ \A l \in Lists : Range(content[l]) \subseteq Tracks
    <2> HIDE DEF R, S
    <2> QED
        BY <1>1 DEF Range
<1>3. ASSUME NEW i \in DOMAIN results PROVE IsAddResult(results[i]) \/ results[i] \in DeleteResults
    <2>1. results[i] \in R
        <3> HIDE DEF R
        <3> QED
            BY <1>1
    <2>2. CASE results[i] \in AddResults
        <3>1. /\ results[i].kind = "ADD" /\ results[i].list \in Lists /\ results[i].front \in BOOLEAN
              /\ results[i].items \in Seq(S)
            BY <2>2 DEF AddResults
        <3>2. Range(results[i].items) \subseteq S
            <4> HIDE DEF S
            <4> QED
                BY <3>1 DEF Range
        <3>3. Len(results[i].items) \in 1 .. TI_CAP
            BY <3>1 DEF TInv, Sizes
        <3> QED
            BY <3>1, <3>2, <3>3 DEF IsAddResult
    <2> QED
        BY <2>1, <2>2
<1>4. seen \in 0 .. MaxTracks
    BY JobsAssumption DEF WInv, Types, ResultType, TInv, Sizes
<1>5. found \subseteq Tracks /\ dropped \subseteq Tracks
    BY DEF TInv, Numbers, FoundNumbered, Ways, Whereabouts, Settled
<1>6. /\ cur \in AnyJob \union {NoJob}
      /\ waiting \subseteq {"worker", "main"} /\ wpc \in {"top", "run", "notify", "done", "ended"}
      /\ made \in Playlists /\ listed \subseteq 1 .. made
      /\ visible \in Playlists /\ marked \in Playlists /\ playing \in Playlists \union {NoList}
    BY DEF WInv, Types, QueueType, ListType, Control
<1>7. Len(buffer) <= TI_CAP /\ Len(log) <= MaxJobs /\ freed \subseteq 1 .. made
    BY DEF TInv, Sizes, OnceMade
<1>8. Flags /\ Played
    BY DEF TInv
<1> QED
    BY <1>2, <1>3, <1>4, <1>5, <1>6, <1>7, <1>8 DEF TypeOK, Flags, Played

\* A set of indices with no two in it
LEMMA OneOrNone ==
    ASSUME NEW n \in Nat, NEW I \in SUBSET (1 .. n), \A i, k \in I : ~(i < k)
    PROVE  Cardinality(I) = IF I = {} THEN 0 ELSE 1
<1>1. CASE I = {}
    BY <1>1, FS_EmptySet
<1>2. CASE I # {}
    <2>1. PICK i \in I : TRUE
        BY <1>2
    <2>2. ASSUME NEW k \in I PROVE k = i
        <3>1. i \in Int /\ k \in Int /\ ~(i < k) /\ ~(k < i)
            BY <2>1
        <3> QED
            BY <3>1
    <2>3. I = {i}
        BY <2>1, <2>2
    <2>4. Cardinality({i}) = 1
        BY FS_Singleton
    <2> QED
        BY <1>2, <2>3, <2>4
<1> QED
    BY <1>1, <1>2

\* A track is in a sequence as often as it can be when nothing is sooner than itself.
LEMMA OccursOnce ==
    ASSUME NEW S, NEW seq \in Seq(S), NEW t \in Tracks,
           \A i, k \in DOMAIN seq : i < k /\ seq[i] = t => seq[k] # t
    PROVE  Occurrences(t, seq) = IF t \in TracksOf(seq) THEN 1 ELSE 0
<1> DEFINE I == {k \in DOMAIN seq : seq[k] = t}
<1>1. Len(seq) \in Nat /\ DOMAIN seq = 1 .. Len(seq)
    OBVIOUS
<1>2. I \in SUBSET (1 .. Len(seq)) /\ \A i, k \in I : ~(i < k)
    BY <1>1
<1>3. I = {} <=> t \notin TracksOf(seq)
    BY TrackFacts DEF TracksOf
<1>4. Occurrences(t, seq) = Cardinality(I)
    BY DEF Occurrences
<1> HIDE DEF I
<1>5. Cardinality(I) = IF I = {} THEN 0 ELSE 1
    BY <1>1, <1>2, OneOrNone
<1> QED
    BY <1>3, <1>4, <1>5

\* In what ascends no track is twice.
LEMMA AscendsOnce ==
    ASSUME NEW S, NEW seq \in Seq(S), NEW t \in Tracks, NEW f, Ascends(seq, f)
    PROVE  Occurrences(t, seq) = IF t \in TracksOf(seq) THEN 1 ELSE 0
<1>1. t # EndOfLoad
    BY TrackFacts
<1>2. ASSUME NEW i \in DOMAIN seq, NEW k \in DOMAIN seq, i < k, seq[i] = t PROVE seq[k] # t
    <2>1. ASSUME seq[k] = t PROVE FALSE
        <3>1. Sooner(t, t, f)
            BY <1>1, <1>2, <2>1 DEF Ascends
        <3> QED
            BY <3>1, SoonerDiffers
    <2> QED
        BY <2>1
<1> QED
    BY <1>2, OccursOnce

\* Nor is it in a list that is in order.
LEMMA ListedOnce ==
    ASSUME NEW l, NEW seq \in Seq(Tracks), ListOrder(l, seq), NEW t \in Tracks
    PROVE  Occurrences(t, seq) = IF t \in TracksOf(seq) THEN 1 ELSE 0
<1>1. t[1] \in Nat /\ t[2] \in Nat
    BY TrackFacts
<1>2. ~(t[1] < t[1]) /\ ~(t[2] < t[2])
    BY <1>1
<1>3. ~Follows(t, t)
    BY <1>2 DEF Follows
<1>4. ASSUME NEW i \in DOMAIN seq, NEW k \in DOMAIN seq, i < k, seq[i] = t PROVE seq[k] # t
    BY <1>2, <1>3, <1>4 DEF ListOrder
<1> QED
    BY <1>4, OccursOnce

\* Every track that was found is in one place: as the places are in order, and none
\* has the same track twice, no two can have it.
LEMMA ArrivesOnce == WInv /\ TInv => EveryTrackArrivesOnce
<1> SUFFICES ASSUME WInv, TInv, NEW t \in found PROVE Places(t) = 1
    BY DEF EveryTrackArrivesOnce
<1> DEFINE l == log[t[1]]
           S == Tracks \union {EndOfLoad}
           R == AddResults \union DeleteResults
<1>1. /\ buffer \in Seq(S) /\ results \in Seq(R) /\ content \in [Lists -> Seq(Tracks)]
      /\ t \in Tracks
    BY DEF WInv, Types, ResultType, TInv, Contents, Numbers, FoundNumbered
<1>2. l \in Lists
    <2>1. t[1] \in 1 .. Len(log)
        BY DEF TInv, Numbers, FoundNumbered
    <2>2. log \in Seq(Lists)
        BY DEF WInv, Types, QueueType
    <2> QED
        BY <2>1, <2>2
<1> HIDE DEF S, R
<1>3. Whereabouts /\ InPipe(Settled, results, buffer, cur.front) /\ ListOrder(l, content[l])
    BY <1>2 DEF TInv, Ways, Piped, TracksInOrder, ListOrder
<1>4. \A f : ~Sooner(t, t, f)
    BY <1>1, SoonerDiffers
<1>5. Occurrences(t, buffer) = IF t \in TracksOf(buffer) THEN 1 ELSE 0
    BY <1>1, <1>3, AscendsOnce DEF InPipe
<1>6. Occurrences(t, content[l]) = IF t \in TracksOf(content[l]) THEN 1 ELSE 0
    BY <1>1, <1>2, <1>3, ListedOnce
<1>7. t \in Listed <=> t \in TracksOf(content[l])
    BY <1>2, <1>3 DEF Listed, Whereabouts
<1> DEFINE I == {i \in DOMAIN results : /\ results[i].kind = "ADD"
                                        /\ results[i].list = l
                                        /\ Occurrences(t, results[i].items) = 1}
<1>8. ASSUME NEW i \in DOMAIN results PROVE i \in I <=> t \in Sent(results[i])
    <2>1. CASE results[i].kind = "ADD"
        <3>1. results[i] \in R
            BY <1>1
        <3>2. results[i].items \in Seq(S)
            BY <2>1, <3>1 DEF R, S, AddResults, DeleteResults
        <3>3. Occurrences(t, results[i].items) = IF t \in TracksOf(results[i].items) THEN 1 ELSE 0
            BY <1>1, <1>3, <2>1, <3>2, AscendsOnce DEF InPipe
        <3>4. t \in TracksOf(results[i].items) => results[i].list = l
            BY <1>3, <2>1 DEF Whereabouts
        <3> QED
            BY <2>1, <3>3, <3>4 DEF Sent
    <2>2. CASE results[i].kind # "ADD"
        BY <2>2 DEF Sent
    <2> QED
        BY <2>1, <2>2
<1>9. Cardinality(I) = IF t \in AllSent(results) THEN 1 ELSE 0
    <2>1. Len(results) \in Nat /\ I \in SUBSET (1 .. Len(results))
        BY <1>1
    <2>2. \A i \in I : i \in DOMAIN results /\ t \in Sent(results[i])
        BY <1>8
    <2>3. I = {} <=> t \notin AllSent(results)
        <3> HIDE DEF I
        <3>1. \A i \in DOMAIN results : i \in I <=> t \in Sent(results[i])
            BY <1>8
        <3> QED
            BY <2>2, <3>1 DEF AllSent
    <2> HIDE DEF I
    <2>4. ASSUME NEW i \in I, NEW k \in I, i < k PROVE FALSE
        <3>1. t \in Sent(results[i]) /\ t \in Sent(results[k]) /\ i \in DOMAIN results /\ k \in DOMAIN results
            BY <2>2
        <3>2. results[k].kind = "ADD" /\ t \in TracksOf(results[k].items)
            BY <3>1 DEF Sent
        <3>3. Sooner(t, t, results[k].front)
            BY <1>3, <2>4, <3>1, <3>2 DEF InPipe, AllSooner
        <3> QED
            BY <1>4, <3>3
    <2>5. Cardinality(I) = IF I = {} THEN 0 ELSE 1
        BY <2>1, <2>4, OneOrNone
    <2> QED
        BY <2>3, <2>5
<1>10. Places(t) = Occurrences(t, buffer) + Cardinality(I) + Occurrences(t, content[l])
                   + (IF t \in dropped THEN 1 ELSE 0)
    BY DEF Places
<1> HIDE DEF I, l
<1>11. t \in dropped \/ t \in Listed \/ t \in AllSent(results) \/ t \in TracksOf(buffer)
    BY <1>3 DEF Whereabouts, Settled
<1>12. ~(t \in dropped /\ t \in Listed)
    BY <1>3 DEF Whereabouts
<1>13. t \in TracksOf(buffer) => t \notin dropped /\ t \notin Listed /\ t \notin AllSent(results)
    BY <1>3, <1>4 DEF InPipe, AllSooner, Settled
<1>14. t \in AllSent(results) => t \notin dropped /\ t \notin Listed
    <2>1. ASSUME t \in AllSent(results), t \in Settled PROVE FALSE
        <3>1. PICK i \in DOMAIN results : t \in Sent(results[i])
            BY <2>1 DEF AllSent
        <3>2. results[i].kind = "ADD" /\ t \in TracksOf(results[i].items)
            BY <3>1 DEF Sent
        <3>3. Sooner(t, t, results[i].front)
            BY <1>3, <2>1, <3>1, <3>2 DEF InPipe, AllSooner
        <3> QED
            BY <1>4, <3>3
    <2> QED
        BY <2>1 DEF Settled
<1> QED
    BY <1>5, <1>6, <1>7, <1>9, <1>10, <1>11, <1>12, <1>13, <1>14

\* job.c, add_ti and job_handle: every track that a job finds comes through a batch and
\* a result to the list the job was started for, once and in its place in the order,
\* or is dropped when that list is cleared; whatever is cancelled, cleared, reloaded
\* or deleted while it is on its way, for any size of a batch.
THEOREM TracksSafe == Spec => []TracksArrive
<1>1. Init => TInv
    BY TracksInit
<1>2. WInv /\ TInv /\ [Next]_vars => TInv'
    BY ContentsStep, NumbersStep, WaysStep, SizesStep, OnceMadeStep, FlagsStep, PlayedStep DEF TInv
<1>3. WInv /\ TInv => TracksArrive
    BY TracksTypeOK, ArrivesOnce DEF TInv, Ways, TracksArrive
<1> QED
    BY <1>1, <1>2, <1>3, WorkerInvariant, PTL DEF Spec
=============================================================================
