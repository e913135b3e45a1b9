------------------------------ MODULE MCLists ------------------------------
(* Small instances of Lists: two files, and one of them has a second        *)
(* version, which sorts after the other file.                              *)
EXTENDS Lists

CONSTANTS r1, r2, r3, p1, p2, p3

MCRows == {r1, r2, r3}
MCPlNames == {p1, p2, p3}

MCInfos == {"a", "a2", "b"}
MCFile == "a" :> "A" @@ "a2" :> "A" @@ "b" :> "B"
MCKey == "a" :> 1 @@ "a2" :> 2 @@ "b" :> 1
MCDuration == "a" :> 1 @@ "a2" :> 1 @@ "b" :> -1

\* two words and two expressions: of both kinds the second narrows the first
MCTexts == {"w", "wide", "~x", "~x~y"}
MCAccepts == "w" :> {"a", "b"} @@ "wide" :> {"a"}
             @@ "~x" :> {"a2", "b"} @@ "~x~y" :> {"b"}
MCIsExpr == "w" :> FALSE @@ "wide" :> FALSE @@ "~x" :> TRUE @@ "~x~y" :> TRUE
MCHarmless == [t \in MCTexts |-> TRUE]
MCIncludes == {<<t, t>> : t \in MCTexts} \cup {<<"wide", "w">>, <<"~x~y", "~x">>}

MCSortKeys == {NoKeys, ByKey}
MCOptions == {[shuffle |-> s, repeat |-> ~s, follow |-> s, auto |-> FALSE, stop |-> ~s] :
                 s \in BOOLEAN}

Bounds(l, p, q, n, heights, texts, does) ==
    [lib |-> l, pl |-> p, pq |-> q, lists |-> n,
     heights |-> heights, texts |-> texts, does |-> does]
\* everything at once is beyond TLC: a few rows and playlists at a time
MCCaps == {
    Bounds(2, 0, 0, 1, {2}, {"w", "wide"}, {"play"}),
    Bounds(2, 0, 0, 1, {2}, {"~x", "~x~y"}, {"update"}),
    Bounds(1, 0, 0, 1, {2}, {"w", "~x", "~x~y"}, {"play"}),
    Bounds(2, 0, 0, 1, {1}, {}, {"edit"}),
    Bounds(0, 2, 0, 1, {2}, {}, {"edit"}),
    Bounds(0, 2, 0, 2, {2}, {}, {"play"}),
    Bounds(0, 1, 0, 2, {1, 2}, {}, {}),
    Bounds(0, 2, 0, 1, {2}, {}, {"play", "update"}),
    Bounds(0, 0, 3, 1, {1, 2}, {}, {"edit"}),
    Bounds(0, 1, 2, 1, {2}, {}, {"update"}),
    Bounds(1, 1, 1, 1, {2}, {}, {"play"})}
Symmetric == Permutations(MCRows) \cup Permutations(MCPlNames)
=============================================================================
