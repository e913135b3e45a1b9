----------------------------- MODULE CacheProofs -----------------------------
(***************************************************************************)
(* Theorems about module Cache: for every number of tracks, copies and     *)
(* files, references are counted as the worker and the main thread go on,  *)
(* and a refresh forgets no track that somebody else has.                  *)
(*                                                                         *)
(* What makes the counts hold is that the field next means one thing at a  *)
(* time.  IInv says so: the tracks of the cache are a chain without        *)
(* repetition, those whose next names the new track are not among them,    *)
(* and none of these is listed twice, by the job or by the results.        *)
(***************************************************************************)
EXTENDS Cache, TLAPS, FiniteSetTheorems, WellFoundedInduction

\* The field next leads through c, from t to the end.
IsChain(s, t, c) ==
    /\ c \in Seq(DOMAIN s) /\ IsInjective(c)
    /\ t = IF c = <<>> THEN Null ELSE c[1]
    /\ \A i \in 1..Len(c) : s[c[i]].next = IF i < Len(c) THEN c[i + 1] ELSE Null

Track == [file : Filename, refs : Int, next : Nat]
Tis == Seq(0..Len(ti))

\* Types, and where the job and the results may be.
TiTypes ==
    /\ ti \in Seq(Track) /\ Len(ti) <= MaxTracks
    /\ \A t \in DOMAIN ti : ti[t].next \in 0..Len(ti)
HeldTypes == held \in [Ids -> Nat] /\ \A t \in Ids \ DOMAIN ti : held[t] = 0
JobTypes ==
    /\ job \in [pc : {"idle", "yield", "changed", "read", "new", "deleted"}, force : BOOLEAN,
                tis : Tis, i : Nat]
    /\ job.pc = "idle" => job = Idle
    /\ job.pc # "idle" => job.i \in 1..Len(job.tis) + 1
    /\ job.pc \notin {"idle", "yield"} => job.i \in 1..Len(job.tis)
    /\ \A i \in 1..Len(job.tis) : job.i <= i => job.tis[i] # Null
ResultTypes ==
    /\ result \in Seq([kind : {"add", "update"}, tis : Tis, i : Nat \ {0}])
    /\ \A k \in 1..Len(result) :
          /\ result[k].i <= Len(result[k].tis) + 1
          /\ result[k].kind = "add" => Len(result[k].tis) = 1 /\ result[k].i = 1 /\ result[k].tis[1] # Null
Types == TiTypes /\ HeldTypes /\ JobTypes /\ ResultTypes

\* The job and the updates list a track once, and not while the cache has it once
\* they have told what became of it.
Listing(e) == Pending[e[1]].kind # "add"
Apart ==
    /\ \A e, f \in Entries : Listing(e) /\ Listing(f) /\ Old(e) = Old(f) => e = f
    /\ \A e \in Entries : Told(e) => ~IsCached(Old(e)) /\ New(e) # Old(e)

\* The entry the job is at has left the cache; the new track is a new one.
Taken ==
    /\ job.pc \in {"changed", "read", "new", "deleted"} => ~IsCached(Entry)
    /\ job.pc = "new" => Entry < Len(ti)

Chained == \E c : IsChain(ti, bucket, c)

\* The inductive invariant.
IInv == Types /\ Chained /\ Apart /\ Taken /\ RefsAreCounted


-----------------------------------------------------------------------------
(* The chain. *)

LEMMA FromOne ==
    ASSUME NEW n \in Nat
    PROVE  IsFiniteSet(1..n) /\ Cardinality(1..n) = n
<1>1. IsFiniteSet(1..n) /\ Cardinality(1..n) = IF 1 > n THEN 0 ELSE n - 1 + 1
    BY FS_Interval
<1> QED
    BY <1>1

LEMMA FromZero ==
    ASSUME NEW n \in Nat
    PROVE  Cardinality(0..n - 1) = n
<1>1. n - 1 \in Int
    OBVIOUS
<1>2. Cardinality(0..n - 1) = IF 0 > n - 1 THEN 0 ELSE (n - 1) - 0 + 1
    BY <1>1, FS_Interval
<1> QED
    BY <1>2

\* A chain without repetition is not longer than there are tracks.
LEMMA ChainIsShort ==
    ASSUME NEW s \in Seq(Track), NEW t, NEW c, IsChain(s, t, c)
    PROVE  Len(c) \in 0..Len(s)
<1>1. c \in [1..Len(c) -> 1..Len(s)] /\ Len(c) \in Nat /\ Len(s) \in Nat
    BY DEF IsChain
<1>2. c \in Injection(1..Len(c), 1..Len(s))
    BY <1>1 DEF IsChain, Injection, IsInjective
<1>3. /\ IsFiniteSet(1..Len(s)) /\ Cardinality(1..Len(s)) = Len(s)
      /\ Cardinality(1..Len(c)) = Len(c)
    BY <1>1, FromOne
<1>4. Cardinality(1..Len(c)) <= Cardinality(1..Len(s))
    BY <1>2, <1>3, FS_Injection
<1> QED
    BY <1>1, <1>3, <1>4

\* What the recursion of Links comes to.
LEMMA LinksAre ==
    ASSUME NEW s \in Seq(Track), NEW t, NEW c, IsChain(s, t, c)
    PROVE  Links(s, t) = [n \in 0..Len(s) |-> IF n < Len(c) THEN c[n + 1] ELSE Null]
<1> DEFINE Rec(f) == [n \in 0..Len(s) |->
                          IF n = 0 THEN t ELSE IF f[n - 1] = Null THEN Null ELSE s[f[n - 1]].next]
           g == [n \in 0..Len(s) |-> IF n < Len(c) THEN c[n + 1] ELSE Null]
           f == Links(s, t)
<1>0. Len(c) \in Nat /\ Len(s) \in Nat /\ \A i \in 1..Len(c) : c[i] \in 1..Len(s) /\ c[i] # Null
    BY DEF IsChain, Null
<1>1. g = Rec(g)
    <2> SUFFICES ASSUME NEW n \in 0..Len(s)
                 PROVE  g[n] = Rec(g)[n]
        OBVIOUS
    <2>1. CASE n = 0
        BY <1>0, <2>1 DEF IsChain
    <2>2. CASE n > 0 /\ n - 1 < Len(c)
        <3>1. g[n - 1] = c[n] /\ n \in 1..Len(c) /\ g[n - 1] # Null
            BY <1>0, <2>2
        <3>2. s[c[n]].next = IF n < Len(c) THEN c[n + 1] ELSE Null
            BY <3>1 DEF IsChain
        <3> QED
            BY <1>0, <2>2, <3>1, <3>2
    <2>3. CASE n > 0 /\ ~(n - 1 < Len(c))
        BY <1>0, <2>3
    <2> QED
        BY <1>0, <2>1, <2>2, <2>3
<1>2. f = Rec(f)
    BY <1>1 DEF Links
<1> HIDE DEF f, g
<1>3. f = [n \in 0..Len(s) |-> f[n]] /\ g = [n \in 0..Len(s) |-> g[n]]
    BY <1>1, <1>2
<1> DEFINE bad == {n \in 0..Len(s) : f[n] # g[n]}
<1>4. bad = {}
    <2> SUFFICES ASSUME bad # {}
                 PROVE  FALSE
        OBVIOUS
    <2> DEFINE Less == {p \in Nat \X Nat : p[1] < p[2]}
    <2>1. PICK n \in bad : \A m \in bad : ~ <<m, n>> \in Less
        <3>1. IsWellFoundedOn(Less, Nat)
            BY NatLessThanWellFounded, Zenon DEF OpToRel
        <3>2. bad \in SUBSET Nat
            BY <1>0
        <3> HIDE DEF bad, Less
        <3> QED
            BY <3>1, <3>2, WFMin
    <2>2. n \in 0..Len(s) /\ f[n] # g[n]
        OBVIOUS
    <2>3. n # 0
        <3>1. f[0] = t /\ g[0] = t
            BY <1>0, <1>1, <1>2
        <3> QED
            BY <2>2, <3>1
    <2>4. n - 1 \in 0..Len(s) /\ <<n - 1, n>> \in Less
        BY <1>0, <2>2, <2>3
    <2>5. f[n - 1] = g[n - 1]
        BY <2>1, <2>4
    <2>6. /\ f[n] = IF f[n - 1] = Null THEN Null ELSE s[f[n - 1]].next
          /\ g[n] = IF g[n - 1] = Null THEN Null ELSE s[g[n - 1]].next
        BY <1>1, <1>2, <2>2, <2>3
    <2> QED
        BY <2>2, <2>5, <2>6
<1> QED
    BY <1>3, <1>4 DEF f, g


\* The operators that walk along the chain find the chain.
LEMMA ChainIs ==
    ASSUME NEW s \in Seq(Track), NEW t, NEW c, IsChain(s, t, c)
    PROVE  ChainFrom(s, t) = c
<1>1. Len(c) \in 0..Len(s) /\ Len(s) \in Nat /\ c = [n \in 1..Len(c) |-> c[n]]
    BY ChainIsShort DEF IsChain
<1>2. \A n \in 1..Len(c) : c[n] # Null
    BY DEF IsChain, Null
<1>3. \A k \in 0..Len(s) : Links(s, t)[k] = IF k < Len(c) THEN c[k + 1] ELSE Null
    BY LinksAre
<1>4. {k \in 0..Len(s) : Links(s, t)[k] # Null} = 0..Len(c) - 1
    BY <1>1, <1>2, <1>3
<1>5. Cardinality(0..Len(c) - 1) = Len(c)
    BY <1>1, FromZero
<1>6. \A n \in 1..Len(c) : Links(s, t)[n - 1] = c[n]
    <2> SUFFICES ASSUME NEW n \in 1..Len(c)
                 PROVE  Links(s, t)[n - 1] = c[n]
        OBVIOUS
    <2>1. n - 1 \in 0..Len(s) /\ n - 1 < Len(c) /\ (n - 1) + 1 = n
        BY <1>1
    <2> QED
        BY <1>3, <2>1
<1> QED
    BY <1>1, <1>4, <1>5, <1>6 DEF ChainFrom

\* What is in a chain is a track.
LEMMA ChainTracks ==
    ASSUME NEW s \in Seq(Track), NEW t, NEW c, IsChain(s, t, c)
    PROVE  ToSet(c) \subseteq DOMAIN s /\ (t = Null <=> c = <<>>) /\ (t # Null => t \in ToSet(c))
           /\ \A u \in ToSet(c) : \E i \in 1..Len(c) : c[i] = u
BY DEF IsChain, ToSet, Null

\* Other fields than next do not matter.
LEMMA SameLinks ==
    ASSUME NEW s \in Seq(Track), NEW s2 \in Seq(Track), NEW t, NEW c, IsChain(s, t, c),
           DOMAIN s \subseteq DOMAIN s2, \A u \in ToSet(c) : s2[u].next = s[u].next
    PROVE  IsChain(s2, t, c)
<1>1. \A i \in 1..Len(c) : c[i] \in DOMAIN s /\ c[i] \in ToSet(c)
    BY DEF IsChain, ToSet
<1>2. c \in Seq(DOMAIN s2)
    BY DEF IsChain
<1>3. \A i \in 1..Len(c) : s2[c[i]].next = IF i < Len(c) THEN c[i + 1] ELSE Null
    BY <1>1 DEF IsChain
<1> QED
    BY <1>2, <1>3 DEF IsChain


\* A new track is the first of the chain.
LEMMA NewChain ==
    ASSUME NEW s \in Seq(Track), NEW t, NEW c, IsChain(s, t, c),
           NEW s2 \in Seq(Track), Len(s2) = Len(s) + 1, s2[Len(s) + 1].next = t,
           \A u \in 1..Len(s) : s2[u].next = s[u].next
    PROVE  /\ IsChain(s2, Len(s) + 1, <<Len(s) + 1>> \o c)
           /\ ToSet(<<Len(s) + 1>> \o c) = ToSet(c) \cup {Len(s) + 1}
<1> DEFINE n == Len(s) + 1
           d == <<n>> \o c
<1>1. /\ Len(c) \in Nat /\ Len(s) \in Nat /\ \A i \in 1..Len(c) : c[i] \in 1..Len(s)
      /\ \A i, j \in 1..Len(c) : c[i] = c[j] => i = j
    <2>1. c \in Seq(DOMAIN s) /\ DOMAIN s = 1..Len(s) /\ Len(s) \in Nat
        BY DEF IsChain
    <2>2. Len(c) \in Nat /\ DOMAIN c = 1..Len(c) /\ \A i \in 1..Len(c) : c[i] \in 1..Len(s)
        BY <2>1
    <2>3. \A i, j \in DOMAIN c : c[i] = c[j] => i = j
        BY Zenon DEF IsChain, IsInjective
    <2> QED
        BY <2>1, <2>2, <2>3, Zenon
<1>2. /\ Len(s2) = n /\ s2[n].next = t
      /\ \A u \in 1..Len(s) : s2[u].next = s[u].next
    BY <1>1
<1>3. /\ d \in Seq(1..n) /\ Len(d) = Len(c) + 1 /\ d[1] = n /\ d # <<>>
      /\ DOMAIN d = 1..Len(c) + 1 /\ DOMAIN c = 1..Len(c)
      /\ \A j \in 1..Len(c) : d[j + 1] = c[j] /\ j + 1 \in 1..Len(d)
    BY <1>1 DEF IsChain
<1>4. ASSUME NEW i \in 1..Len(d), i # 1
      PROVE  \E j \in 1..Len(c) : i = j + 1 /\ d[i] = c[j] /\ c[j] # n
    <2>1. i - 1 \in 1..Len(c) /\ i = (i - 1) + 1
        BY <1>1, <1>3, <1>4
    <2> QED
        BY <1>1, <1>3, <2>1
<1> HIDE DEF d
<1>5. IsInjective(d)
    <2> SUFFICES ASSUME NEW i \in 1..Len(d), NEW j \in 1..Len(d), d[i] = d[j]
                 PROVE  i = j
        BY <1>3 DEF IsInjective
    <2>1. CASE i = 1 \/ j = 1
        BY <1>3, <1>4, <2>1
    <2>2. CASE i # 1 /\ j # 1
        BY <1>1, <1>4, <2>2
    <2> QED
        BY <2>1, <2>2
<1>6. ASSUME NEW i \in 1..Len(d)
      PROVE  s2[d[i]].next = IF i < Len(d) THEN d[i + 1] ELSE Null
    <2>1. CASE i = 1
        <3>1. CASE Len(c) = 0
            <4>1. c = <<>>
                BY <3>1 DEF IsChain
            <4>2. t = Null
                BY <4>1 DEF IsChain
            <4> QED
                BY <1>2, <1>3, <2>1, <3>1, <4>2
        <3>2. CASE Len(c) > 0
            <4>1. c # <<>> /\ 1 \in 1..Len(c)
                BY <1>1, <3>2
            <4>2. t = c[1] /\ d[1 + 1] = c[1] /\ 1 < Len(d)
                BY <1>1, <1>3, <3>2, <4>1 DEF IsChain
            <4> QED
                BY <1>2, <1>3, <2>1, <4>2
        <3>3. Len(c) = 0 \/ Len(c) > 0
            BY <1>1
        <3> QED
            BY <3>1, <3>2, <3>3, Zenon
    <2>2. CASE i # 1
        <3>1. PICK j \in 1..Len(c) : i = j + 1 /\ d[i] = c[j]
            BY <1>4, <2>2
        <3>2. s[c[j]].next = IF j < Len(c) THEN c[j + 1] ELSE Null
            BY DEF IsChain
        <3>3. s2[d[i]].next = s[c[j]].next
            BY <1>1, <1>2, <3>1
        <3>4. CASE j < Len(c)
            <4>1. j + 1 \in 1..Len(c) /\ i < Len(d)
                BY <1>1, <1>3, <3>1, <3>4
            <4>2. d[i + 1] = c[j + 1]
                BY <1>3, <3>1, <4>1
            <4> QED
                BY <3>2, <3>3, <3>4, <4>1, <4>2
        <3>5. CASE ~(j < Len(c))
            <4>1. ~(i < Len(d))
                BY <1>1, <1>3, <3>1, <3>5
            <4> QED
                BY <3>2, <3>3, <3>5, <4>1
        <3> QED
            BY <3>4, <3>5
    <2> QED
        BY <2>1, <2>2
<1>7. IsChain(s2, n, d)
    <2>1. d \in Seq(DOMAIN s2)
        BY <1>2, <1>3
    <2> QED
        BY <1>3, <1>5, <1>6, <2>1 DEF IsChain
<1>8. ToSet(d) = ToSet(c) \cup {n}
    <2>1. ASSUME NEW i \in 1..Len(d) PROVE d[i] \in ToSet(c) \cup {n}
        BY <1>3, <1>4 DEF ToSet
    <2>2. ASSUME NEW j \in 1..Len(c) PROVE c[j] \in ToSet(d)
        <3>1. j + 1 \in DOMAIN d /\ d[j + 1] = c[j]
            BY <1>3
        <3> QED
            BY <3>1 DEF ToSet
    <2>3. n \in ToSet(d)
        <3>1. 1 \in DOMAIN d
            BY <1>1, <1>3
        <3> QED
            BY <1>3, <3>1 DEF ToSet
    <2>4. ToSet(d) = {d[i] : i \in 1..Len(d)} /\ ToSet(c) = {c[j] : j \in 1..Len(c)}
        BY <1>3 DEF ToSet
    <2> QED
        BY <2>1, <2>2, <2>3, <2>4
<1> QED
    BY <1>7, <1>8 DEF d


\* The chain without its i-th track.
Cut(c, i) == [j \in 1..Len(c) - 1 |-> c[IF j < i THEN j ELSE j + 1]]

LEMMA CutChain ==
    ASSUME NEW s \in Seq(Track), NEW b, NEW c, IsChain(s, b, c), NEW i \in 1..Len(c),
           NEW s2 \in Seq(Track), DOMAIN s2 = DOMAIN s, NEW b2,
           b2 = IF i = 1 THEN s[c[1]].next ELSE b,
           \A j \in 1..Len(c) : s2[c[j]].next = IF j = i - 1 THEN s[c[i]].next ELSE s[c[j]].next
    PROVE  IsChain(s2, b2, Cut(c, i)) /\ ToSet(Cut(c, i)) = ToSet(c) \ {c[i]}
<1> DEFINE Nth(j) == IF j < i THEN j ELSE j + 1
           d == Cut(c, i)
<1>1. /\ Len(c) \in Nat \ {0} /\ DOMAIN c = 1..Len(c) /\ c # <<>> /\ \A j \in 1..Len(c) : c[j] \in DOMAIN s
      /\ \A j, k \in 1..Len(c) : c[j] = c[k] => j = k
    BY DEF IsChain, IsInjective
<1>2. \A j \in 1..Len(c) - 1 : Nth(j) \in 1..Len(c) /\ Nth(j) # i
    BY <1>1
<1>3. \A j \in 1..Len(c) : s[c[j]].next = IF j < Len(c) THEN c[j + 1] ELSE Null
    BY DEF IsChain
<1>4. /\ d \in Seq(DOMAIN s2) /\ Len(d) = Len(c) - 1 /\ DOMAIN d = 1..Len(c) - 1
      /\ \A j \in 1..Len(c) - 1 : d[j] = c[Nth(j)]
    BY <1>1, <1>2 DEF Cut
<1>5. IsInjective(d)
    <2> SUFFICES ASSUME NEW j \in 1..Len(c) - 1, NEW k \in 1..Len(c) - 1, d[j] = d[k]
                 PROVE  j = k
        BY <1>4 DEF IsInjective
    <2>1. Nth(j) = Nth(k)
        <3> HIDE DEF Nth, d
        <3> QED
            BY <1>1, <1>2, <1>4
    <2> QED
        BY <1>1, <2>1
<1>6. d = <<>> <=> Len(c) = 1
    <2> HIDE DEF d
    <2>1. d \in Seq(DOMAIN s2)
        BY <1>4
    <2>2. d = <<>> <=> Len(d) = 0
        BY <2>1
    <2> QED
        BY <1>1, <1>4, <2>2
<1>7. b2 = IF d = <<>> THEN Null ELSE d[1]
    <2>1. CASE i = 1
        <3>1. b2 = IF 1 < Len(c) THEN c[1 + 1] ELSE Null
            BY <1>1, <1>3, <2>1
        <3>2. 1 < Len(c) => d[1] = c[1 + 1]
            BY <1>1, <1>4, <2>1
        <3> QED
            <4>1. Len(c) = 1 \/ 1 < Len(c)
                BY <1>1
            <4> HIDE DEF d
            <4> QED
                BY <1>6, <3>1, <3>2, <4>1
    <2>2. CASE i # 1
        <3>1. b2 = c[1]
            BY <1>1, <2>2 DEF IsChain
        <3>2. 1 < Len(c) /\ 1 \in 1..Len(c) - 1 /\ Nth(1) = 1
            BY <1>1, <2>2
        <3>3. d[1] = c[1]
            BY <1>4, <3>2
        <3> HIDE DEF d
        <3> QED
            BY <1>6, <3>1, <3>2, <3>3
    <2> QED
        BY <2>1, <2>2
<1>8. ASSUME NEW j \in 1..Len(d)
      PROVE  s2[d[j]].next = IF j < Len(d) THEN d[j + 1] ELSE Null
    <2>0. j \in 1..Len(c) - 1 /\ (j < Len(d) <=> j + 1 < Len(c)) /\ j < Len(c) /\ d[j] = c[Nth(j)]
        BY <1>1, <1>4
    <2>1. CASE j = i - 1
        <3>1. Nth(j) = j /\ d[j] = c[j]
            BY <2>0, <2>1
        <3>2. s2[d[j]].next = s[c[i]].next
            BY <1>1, <2>0, <2>1, <3>1
        <3>3. s[c[i]].next = IF i < Len(c) THEN c[i + 1] ELSE Null
            BY <1>3
        <3>4. j < Len(d) => d[j + 1] = c[i + 1]
            <4> SUFFICES ASSUME j < Len(d)
                         PROVE  d[j + 1] = c[i + 1]
                OBVIOUS
            <4>1. j + 1 \in 1..Len(c) - 1 /\ j + 1 = i /\ Nth(j + 1) = i + 1
                BY <1>1, <2>0, <2>1
            <4> QED
                BY <1>4, <4>1
        <3>5. i < Len(c) <=> j < Len(d)
            BY <1>1, <2>0, <2>1
        <3> QED
            BY <3>2, <3>3, <3>4, <3>5
    <2>2. CASE j # i - 1
        <3>1. Nth(j) \in 1..Len(c) /\ Nth(j) # i - 1 /\ Nth(j) # i
            BY <1>1, <2>0, <2>2
        <3>2. s2[d[j]].next = s[c[Nth(j)]].next
            BY <2>0, <3>1
        <3>3. s[c[Nth(j)]].next = IF Nth(j) < Len(c) THEN c[Nth(j) + 1] ELSE Null
            BY <1>3, <3>1
        <3>4. Nth(j) < Len(c) <=> j < Len(d)
            BY <1>1, <2>0, <2>2
        <3>5. j < Len(d) => d[j + 1] = c[Nth(j) + 1]
            <4> SUFFICES ASSUME j < Len(d)
                         PROVE  d[j + 1] = c[Nth(j) + 1]
                OBVIOUS
            <4>1. j + 1 \in 1..Len(c) - 1 /\ Nth(j + 1) = Nth(j) + 1
                BY <1>1, <2>0, <2>2
            <4> QED
                BY <1>4, <4>1
        <3> QED
            BY <3>2, <3>3, <3>4, <3>5
    <2> QED
        BY <2>1, <2>2
<1>9. ToSet(d) = ToSet(c) \ {c[i]}
    <2>1. ToSet(d) = {d[j] : j \in 1..Len(c) - 1} /\ ToSet(c) = {c[j] : j \in 1..Len(c)}
        BY <1>1, <1>4 DEF ToSet
    <2>2. ASSUME NEW j \in 1..Len(c) - 1 PROVE d[j] \in ToSet(c) \ {c[i]}
        <3>1. Nth(j) \in 1..Len(c) /\ Nth(j) # i /\ d[j] = c[Nth(j)]
            BY <1>2, <1>4
        <3> HIDE DEF Nth, d
        <3> QED
            BY <1>1, <2>1, <3>1
    <2>3. ASSUME NEW j \in 1..Len(c), j # i PROVE c[j] \in ToSet(d)
        <3>1. PICK k \in 1..Len(c) - 1 : Nth(k) = j
            <4>1. CASE j < i
                <5>1. j \in 1..Len(c) - 1 /\ Nth(j) = j
                    BY <1>1, <4>1
                <5> QED
                    BY <5>1
            <4>2. CASE j > i
                <5>1. j - 1 \in 1..Len(c) - 1 /\ Nth(j - 1) = j
                    BY <1>1, <4>2
                <5> QED
                    BY <5>1
            <4> QED
                BY <1>1, <2>3, <4>1, <4>2
        <3>2. d[k] = c[j]
            BY <1>4, <3>1
        <3> HIDE DEF Nth, d
        <3> QED
            BY <2>1, <3>2
    <2> HIDE DEF Nth, d
    <2> QED
        BY <2>1, <2>2, <2>3
<1> HIDE DEF Nth, d
<1>10. IsChain(s2, b2, d)
    BY <1>4, <1>5, <1>7, <1>8 DEF IsChain
<1> QED
    BY <1>9, <1>10 DEF d


\* One field of one track.
WithRefs(s, t, x) == [s EXCEPT ![t].refs = x]
WithNext(s, t, x) == [s EXCEPT ![t].next = x]

LEMMA TrackFields ==
    ASSUME NEW s \in Seq(Track), NEW t \in DOMAIN s
    PROVE  s[t].refs \in Int /\ s[t].next \in Nat /\ s[t].file \in Filename
<1>1. s[t] \in Track
    OBVIOUS
<1> QED
    BY <1>1 DEF Track

LEMMA RefsField ==
    ASSUME NEW s \in Seq(Track), NEW t \in DOMAIN s, NEW x \in Int
    PROVE  /\ WithRefs(s, t, x) \in Seq(Track)
           /\ Len(WithRefs(s, t, x)) = Len(s) /\ DOMAIN WithRefs(s, t, x) = DOMAIN s
           /\ \A u \in DOMAIN s : /\ WithRefs(s, t, x)[u].file = s[u].file
                                  /\ WithRefs(s, t, x)[u].next = s[u].next
                                  /\ WithRefs(s, t, x)[u].refs = IF u = t THEN x ELSE s[u].refs
<1> DEFINE s2 == WithRefs(s, t, x)
<1>1. \A u \in DOMAIN s : s[u] \in Track
    OBVIOUS
<1>2. [s[t] EXCEPT !.refs = x] \in Track
    BY <1>1 DEF Track
<1>3. s2 = [s EXCEPT ![t] = [s[t] EXCEPT !.refs = x]]
    BY DEF WithRefs
<1> HIDE DEF s2
<1>4. s2 \in Seq(Track) /\ Len(s2) = Len(s) /\ DOMAIN s2 = DOMAIN s
    BY <1>2, <1>3
<1>5. \A u \in DOMAIN s : s2[u] = IF u = t THEN [s[t] EXCEPT !.refs = x] ELSE s[u]
    BY <1>3
<1>6. /\ [s[t] EXCEPT !.refs = x].file = s[t].file /\ [s[t] EXCEPT !.refs = x].next = s[t].next
      /\ [s[t] EXCEPT !.refs = x].refs = x
    BY <1>1 DEF Track
<1>7. \A u \in DOMAIN s : /\ s2[u].file = s[u].file
                          /\ s2[u].next = s[u].next
                          /\ s2[u].refs = IF u = t THEN x ELSE s[u].refs
    BY <1>5, <1>6
<1> QED
    BY <1>4, <1>7 DEF s2

LEMMA NextField ==
    ASSUME NEW s \in Seq(Track), NEW t \in DOMAIN s, NEW x \in Nat
    PROVE  /\ WithNext(s, t, x) \in Seq(Track)
           /\ Len(WithNext(s, t, x)) = Len(s) /\ DOMAIN WithNext(s, t, x) = DOMAIN s
           /\ \A u \in DOMAIN s : /\ WithNext(s, t, x)[u].file = s[u].file
                                  /\ WithNext(s, t, x)[u].refs = s[u].refs
                                  /\ WithNext(s, t, x)[u].next = IF u = t THEN x ELSE s[u].next
<1> DEFINE s2 == WithNext(s, t, x)
<1>1. \A u \in DOMAIN s : s[u] \in Track
    OBVIOUS
<1>2. [s[t] EXCEPT !.next = x] \in Track
    BY <1>1 DEF Track
<1>3. s2 = [s EXCEPT ![t] = [s[t] EXCEPT !.next = x]]
    BY DEF WithNext
<1> HIDE DEF s2
<1>4. s2 \in Seq(Track) /\ Len(s2) = Len(s) /\ DOMAIN s2 = DOMAIN s
    BY <1>2, <1>3
<1>5. \A u \in DOMAIN s : s2[u] = IF u = t THEN [s[t] EXCEPT !.next = x] ELSE s[u]
    BY <1>3
<1>6. /\ [s[t] EXCEPT !.next = x].file = s[t].file /\ [s[t] EXCEPT !.next = x].refs = s[t].refs
      /\ [s[t] EXCEPT !.next = x].next = x
    BY <1>1 DEF Track
<1>7. \A u \in DOMAIN s : /\ s2[u].file = s[u].file
                          /\ s2[u].refs = s[u].refs
                          /\ s2[u].next = IF u = t THEN x ELSE s[u].next
    BY <1>5, <1>6
<1> QED
    BY <1>4, <1>7 DEF s2

\* A memory, and a memory with another next or bucket; track_info_ref, _unref.
Memory(s, b) == [ti |-> s, bucket |-> b]
NextIn(m, t, x) == [m EXCEPT !.ti[t].next = x]
BucketIn(m, x) == [m EXCEPT !.bucket = x]

LEMMA Inside ==
    /\ \A s, b : Memory(s, b).ti = s /\ Memory(s, b).bucket = b
    /\ \A s, b, t, x : NextIn(Memory(s, b), t, x) = Memory(WithNext(s, t, x), b)
    /\ \A s, b, x : BucketIn(Memory(s, b), x) = Memory(s, x)
    /\ \A s, b, t : Ref(Memory(s, b), t) = Memory(WithRefs(s, t, s[t].refs + 1), b)
    /\ \A s, b, t : Unref(Memory(s, b), t) = Memory(WithRefs(s, t, s[t].refs - 1), b)
<1>0. ASSUME NEW s, NEW b PROVE Memory(s, b).ti = s /\ Memory(s, b).bucket = b
    BY DEF Memory
<1>1. ASSUME NEW s, NEW b, NEW y PROVE [Memory(s, b) EXCEPT !.ti = y] = Memory(y, b)
    BY DEF Memory
<1>2. ASSUME NEW s, NEW b, NEW x PROVE BucketIn(Memory(s, b), x) = Memory(s, x)
    BY DEF Memory, BucketIn
<1>3. ASSUME NEW s, NEW b, NEW t, NEW x PROVE NextIn(Memory(s, b), t, x) = Memory(WithNext(s, t, x), b)
    <2>1. NextIn(Memory(s, b), t, x) = [Memory(s, b) EXCEPT !.ti = [Memory(s, b).ti EXCEPT ![t].next = x]]
        BY DEF NextIn
    <2> QED
        BY <1>0, <1>1, <2>1 DEF WithNext
<1>4. ASSUME NEW s, NEW b, NEW t, NEW x
      PROVE  [Memory(s, b) EXCEPT !.ti[t].refs = x] = Memory(WithRefs(s, t, x), b)
    <2>1. [Memory(s, b) EXCEPT !.ti[t].refs = x] = [Memory(s, b) EXCEPT !.ti = [Memory(s, b).ti EXCEPT ![t].refs = x]]
        OBVIOUS
    <2> QED
        BY <1>0, <1>1, <2>1 DEF WithRefs
<1>5. ASSUME NEW s, NEW b, NEW t PROVE Ref(Memory(s, b), t) = Memory(WithRefs(s, t, s[t].refs + 1), b)
    <2>1. Ref(Memory(s, b), t) = [Memory(s, b) EXCEPT !.ti[t].refs = s[t].refs + 1]
        BY <1>0 DEF Ref
    <2> QED
        BY <1>4, <2>1
<1>6. ASSUME NEW s, NEW b, NEW t PROVE Unref(Memory(s, b), t) = Memory(WithRefs(s, t, s[t].refs - 1), b)
    <2>1. Unref(Memory(s, b), t) = [Memory(s, b) EXCEPT !.ti[t].refs = s[t].refs - 1]
        BY <1>0 DEF Unref
    <2> QED
        BY <1>4, <2>1
<1> QED
    BY <1>0, <1>2, <1>3, <1>5, <1>6, Zenon

\* do_cache_remove_ti: what becomes of the tracks and of the bucket.
LEMMA Removing ==
    ASSUME NEW s \in Seq(Track), NEW b, NEW c, IsChain(s, b, c), NEW t \in DOMAIN s,
           \A u \in DOMAIN s : s[u].next \in 0..Len(s)
    PROVE  \E s2, b2, d :
           /\ s2 \in Seq(Track)
           /\ RemovedTi(Memory(s, b), t) = Memory(s2, b2)
           /\ Len(s2) = Len(s)
           /\ IsChain(s2, b2, d) /\ ToSet(d) = ToSet(c) \ {t}
           /\ \A u \in DOMAIN s :
                 /\ s2[u].refs = s[u].refs - (IF u = t /\ t \in ToSet(c) THEN 1 ELSE 0)
                 /\ s2[u].next \in 0..Len(s)
                 /\ u \notin ToSet(c) \/ u = t => s2[u].next = s[u].next
<1> DEFINE m == Memory(s, b)
           r == RemovedTi(Memory(s, b), t)
<1>0. m.ti = s /\ m.bucket = b
    BY Inside
<1>1. ChainFrom(m.ti, m.bucket) = c
    BY <1>0, ChainIs
<1>2. /\ Len(c) \in Nat /\ DOMAIN c = 1..Len(c) /\ Len(s) \in Nat /\ DOMAIN s = 1..Len(s)
      /\ \A j \in 1..Len(c) : c[j] \in DOMAIN s
    BY DEF IsChain
<1>3. \A j, k \in 1..Len(c) : c[j] = c[k] => j = k
    BY <1>2 DEF IsChain, IsInjective
<1>4. ToSet(c) = {c[j] : j \in 1..Len(c)}
    BY <1>2 DEF ToSet
<1>5. \A u \in DOMAIN s : s[u].refs \in Int
    BY TrackFields
<1>6. CASE t \notin ToSet(c)
    <2>1. r = Memory(s, b)
        BY <1>1, <1>6 DEF RemovedTi
    <2>2. ToSet(c) \ {t} = ToSet(c)
        BY <1>6
    <2> QED
        BY <1>2, <1>5, <1>6, <2>1, <2>2
<1>7. CASE t \in ToSet(c)
    <2> DEFINE i == CHOOSE j \in DOMAIN c : c[j] = t
    <2>1. i \in 1..Len(c) /\ c[i] = t
        BY <1>2, <1>4, <1>7
    <2>2. r = IF i = 1 THEN Unref(BucketIn(m, s[t].next), t)
              ELSE Unref(NextIn(m, c[i - 1], s[t].next), t)
        BY <1>0, <1>1, <1>7 DEF RemovedTi, BucketIn, NextIn
    <2> HIDE DEF i
    <2>3. PICK s1, b2 :
            /\ s1 = IF i = 1 THEN s ELSE WithNext(s, c[i - 1], s[t].next)
            /\ b2 = IF i = 1 THEN s[t].next ELSE b
        OBVIOUS
    <2>4. i # 1 => i - 1 \in 1..Len(c) /\ c[i - 1] \in DOMAIN s /\ c[i - 1] # t /\ c[i - 1] \in ToSet(c)
        BY <1>2, <1>3, <1>4, <2>1
    <2>5. s[t].next \in Nat
        BY <1>2
    <2>6. /\ s1 \in Seq(Track) /\ Len(s1) = Len(s) /\ DOMAIN s1 = DOMAIN s
          /\ \A u \in DOMAIN s : /\ s1[u].refs = s[u].refs
                                 /\ s1[u].next = IF i # 1 /\ u = c[i - 1] THEN s[t].next ELSE s[u].next
        <3>1. CASE i = 1
            BY <2>3, <3>1
        <3>2. CASE i # 1
            <4>1. c[i - 1] \in DOMAIN s /\ s1 = WithNext(s, c[i - 1], s[t].next)
                BY <2>3, <2>4, <3>2
            <4> QED
                BY <2>5, <3>2, <4>1, NextField
        <3> QED
            BY <3>1, <3>2
    <2>7. r = Unref(Memory(s1, b2), t)
        BY <2>2, <2>3, Inside
    <2>0. PICK x \in Int : x = s1[t].refs - 1
        BY <1>5, <2>6
    <2>8. PICK s2 : s2 = WithRefs(s1, t, x)
        OBVIOUS
    <2>9. r = Memory(s2, b2)
        BY <2>0, <2>7, <2>8, Inside
    <2>10. /\ s2 \in Seq(Track) /\ Len(s2) = Len(s) /\ DOMAIN s2 = DOMAIN s
           /\ \A u \in DOMAIN s :
                /\ s2[u].refs = s[u].refs - (IF u = t THEN 1 ELSE 0)
                /\ s2[u].next = IF i # 1 /\ u = c[i - 1] THEN s[t].next ELSE s[u].next
        <3>1. s1 \in Seq(Track) /\ t \in DOMAIN s1
            BY <2>6
        <3>2. /\ s2 \in Seq(Track) /\ Len(s2) = Len(s1) /\ DOMAIN s2 = DOMAIN s1
              /\ \A u \in DOMAIN s1 : /\ s2[u].next = s1[u].next
                                      /\ s2[u].refs = IF u = t THEN x ELSE s1[u].refs
            BY <2>8, <3>1, RefsField
        <3> QED
            BY <1>5, <2>0, <2>6, <3>2
    <2>11. \A j \in 1..Len(c) : s2[c[j]].next = IF j = i - 1 THEN s[c[i]].next ELSE s[c[j]].next
        <3> SUFFICES ASSUME NEW j \in 1..Len(c)
                     PROVE  s2[c[j]].next = IF j = i - 1 THEN s[c[i]].next ELSE s[c[j]].next
            OBVIOUS
        <3>1. j = i - 1 <=> i # 1 /\ c[j] = c[i - 1]
            BY <1>2, <1>3, <2>1, <2>4
        <3> QED
            BY <1>2, <2>1, <2>10, <3>1
    <2>12. PICK d : IsChain(s2, b2, d) /\ ToSet(d) = ToSet(c) \ {t}
        <3>1. b2 = IF i = 1 THEN s[c[1]].next ELSE b
            BY <2>1, <2>3
        <3>2. IsChain(s2, b2, Cut(c, i)) /\ ToSet(Cut(c, i)) = ToSet(c) \ {c[i]}
            BY <2>1, <2>10, <2>11, <3>1, CutChain, SMTT(30)
        <3> QED
            BY <2>1, <3>2
    <2>13. ASSUME NEW u \in DOMAIN s
           PROVE  /\ s2[u].refs = s[u].refs - (IF u = t /\ t \in ToSet(c) THEN 1 ELSE 0)
                  /\ s2[u].next \in 0..Len(s)
                  /\ u \notin ToSet(c) \/ u = t => s2[u].next = s[u].next
        BY <1>7, <2>4, <2>10
    <2> QED
        BY <2>9, <2>10, <2>12, <2>13
<1> QED
    BY <1>6, <1>7

\* What an operation on the cache does to the tracks s and their chain c: it makes
\* s2, b2 and the chain d of them; the references of t change by k.
One(p) == IF p THEN 1 ELSE 0
Moves(s, c, s2, b2, d, t, k) ==
    /\ s2 \in Seq(Track) /\ Len(s2) \in Len(s)..Len(s) + 1
    /\ IsChain(s2, b2, d) /\ ToSet(d) \subseteq ToSet(c) \cup {Len(s) + 1}
    /\ \A u \in DOMAIN s2 : s2[u].next \in 0..Len(s2)
    /\ \A u \in DOMAIN s : u \notin ToSet(c) => s2[u].next = s[u].next
    /\ \A u \in DOMAIN s2 :
          s2[u].refs = (IF u \in DOMAIN s THEN s[u].refs - One(u \in ToSet(c)) ELSE 0)
                          + (IF u = t THEN k ELSE 0) + One(u \in ToSet(d))

LEMMA Removes ==
    ASSUME NEW s \in Seq(Track), NEW b, NEW c, IsChain(s, b, c), NEW t \in DOMAIN s,
           \A u \in DOMAIN s : s[u].next \in 0..Len(s)
    PROVE  \E s2, b2, d :
           /\ RemovedTi(Memory(s, b), t) = Memory(s2, b2)
           /\ Moves(s, c, s2, b2, d, Null, 0) /\ Len(s2) = Len(s) /\ ToSet(d) = ToSet(c) \ {t}
<1>1. PICK s2, b2, d :
           /\ s2 \in Seq(Track)
           /\ RemovedTi(Memory(s, b), t) = Memory(s2, b2)
           /\ Len(s2) = Len(s)
           /\ IsChain(s2, b2, d) /\ ToSet(d) = ToSet(c) \ {t}
           /\ \A u \in DOMAIN s :
                 /\ s2[u].refs = s[u].refs - (IF u = t /\ t \in ToSet(c) THEN 1 ELSE 0)
                 /\ s2[u].next \in 0..Len(s)
                 /\ u \notin ToSet(c) \/ u = t => s2[u].next = s[u].next
    BY Removing
<1>2. DOMAIN s2 = DOMAIN s /\ DOMAIN s = 1..Len(s) /\ Len(s) \in Nat /\ \A u \in DOMAIN s : s[u].refs \in Int
    BY <1>1, TrackFields
<1>3. ASSUME NEW u \in DOMAIN s2
      PROVE  s2[u].refs = (IF u \in DOMAIN s THEN s[u].refs - One(u \in ToSet(c)) ELSE 0)
                          + (IF u = Null THEN 0 ELSE 0) + One(u \in ToSet(d))
    BY <1>1, <1>2 DEF One
<1>4. Moves(s, c, s2, b2, d, Null, 0)
    BY <1>1, <1>2, <1>3 DEF Moves
<1> QED
    BY <1>1, <1>4

\* track_info_ref (k = 1) and track_info_unref (k = -1) after such an operation.
LEMMA Refs ==
    ASSUME NEW s \in Seq(Track), NEW c, NEW s2, NEW b2, NEW d, Moves(s, c, s2, b2, d, Null, 0),
           NEW t \in DOMAIN s2, NEW k \in Int
    PROVE  Moves(s, c, WithRefs(s2, t, s2[t].refs + k), b2, d, t, k)
<1> DEFINE s3 == WithRefs(s2, t, s2[t].refs + k)
<1>1. s2 \in Seq(Track) /\ s2[t].refs + k \in Int
    <2>1. s2 \in Seq(Track)
        BY DEF Moves
    <2> QED
        BY <2>1, TrackFields
<1>2. /\ s3 \in Seq(Track) /\ Len(s3) = Len(s2) /\ DOMAIN s3 = DOMAIN s2
      /\ \A u \in DOMAIN s2 : s3[u].next = s2[u].next /\ s3[u].refs = IF u = t THEN s2[t].refs + k ELSE s2[u].refs
    BY <1>1, RefsField
<1> HIDE DEF s3
<1>3. IsChain(s3, b2, d)
    <2>1. IsChain(s2, b2, d)
        BY DEF Moves
    <2>2. ToSet(d) \subseteq DOMAIN s2
        BY <1>1, <2>1, ChainTracks
    <2> QED
        BY <1>1, <1>2, <2>1, <2>2, SameLinks
<1>4. ASSUME NEW u \in DOMAIN s3
      PROVE  s3[u].refs = (IF u \in DOMAIN s THEN s[u].refs - One(u \in ToSet(c)) ELSE 0)
                          + (IF u = t THEN k ELSE 0) + One(u \in ToSet(d))
    <2>1. s2[u].refs = (IF u \in DOMAIN s THEN s[u].refs - One(u \in ToSet(c)) ELSE 0)
                          + (IF u = Null THEN 0 ELSE 0) + One(u \in ToSet(d))
        BY <1>2 DEF Moves
    <2>2. u \in DOMAIN s => s[u].refs \in Int
        BY TrackFields
    <2> QED
        BY <1>2, <2>1, <2>2 DEF One
<1>5. \A u \in DOMAIN s : u \in DOMAIN s2
    BY <1>1 DEF Moves
<1> QED
    BY <1>2, <1>3, <1>4, <1>5 DEF Moves, s3

\* Nothing at all is such an operation.
LEMMA Rests ==
    ASSUME NEW s \in Seq(Track), NEW b, NEW c, IsChain(s, b, c),
           \A u \in DOMAIN s : s[u].next \in 0..Len(s)
    PROVE  Moves(s, c, s, b, c, Null, 0)
<1>1. \A u \in DOMAIN s : s[u].refs \in Int
    BY TrackFields
<1> QED
    BY <1>1 DEF Moves, One

\* track_info_new and add_ti, after such an operation that made no track.
LEMMA Makes ==
    ASSUME NEW s \in Seq(Track), NEW c, NEW s2, NEW b2, NEW d, Moves(s, c, s2, b2, d, Null, 0), Len(s2) = Len(s),
           NEW f \in Filename
    PROVE  \E s3, d3 :
           /\ WithNew(Memory(s2, b2), f) = Memory(s3, Len(s) + 1) /\ FreshTi(Memory(s2, b2)) = Len(s) + 1
           /\ Moves(s, c, s3, Len(s) + 1, d3, Null, 0) /\ Len(s3) = Len(s) + 1
           /\ ToSet(d3) = ToSet(d) \cup {Len(s) + 1} /\ s3[Len(s) + 1].next \in 0..Len(s)
<1> DEFINE n == Len(s) + 1
           x == [file |-> f, refs |-> 1, next |-> b2]
           s3 == Append(s2, x)
           d3 == <<n>> \o d
<1>1. /\ s2 \in Seq(Track) /\ IsChain(s2, b2, d) /\ ToSet(d) \subseteq ToSet(c) \cup {n}
      /\ \A u \in DOMAIN s2 : s2[u].next \in 0..Len(s2)
      /\ \A u \in DOMAIN s : u \notin ToSet(c) => s2[u].next = s[u].next
      /\ \A u \in DOMAIN s2 :
            s2[u].refs = (IF u \in DOMAIN s THEN s[u].refs - One(u \in ToSet(c)) ELSE 0)
                          + (IF u = Null THEN 0 ELSE 0) + One(u \in ToSet(d))
    BY DEF Moves
<1>2. Len(s) \in Nat /\ DOMAIN s = 1..Len(s) /\ DOMAIN s2 = 1..Len(s) /\ n \in Nat
    BY <1>1
<1>3. b2 \in 0..Len(s)
    <2>1. ToSet(d) \subseteq DOMAIN s2 /\ (b2 # Null => b2 \in ToSet(d))
        BY <1>1, ChainTracks
    <2> QED
        BY <1>2, <2>1 DEF Null
<1>4. x \in Track /\ x.refs = 1 /\ x.next = b2
    BY <1>2, <1>3 DEF Track
<1> HIDE DEF x
<1>5. /\ s3 \in Seq(Track) /\ Len(s3) = n /\ DOMAIN s3 = 1..n /\ s3[n] = x
      /\ \A u \in 1..Len(s) : s3[u] = s2[u]
    BY <1>1, <1>2, <1>4
<1>6. WithNew(Memory(s2, b2), f) = Memory(s3, n) /\ FreshTi(Memory(s2, b2)) = n
    <2>1. Memory(s2, b2).ti = s2 /\ Memory(s2, b2).bucket = b2
        BY Inside
    <2> QED
        BY <2>1 DEF WithNew, FreshTi, Memory, x
<1> HIDE DEF s3
<1>7. IsChain(s3, n, d3) /\ ToSet(d3) = ToSet(d) \cup {n}
    BY <1>1, <1>2, <1>4, <1>5, NewChain
<1> HIDE DEF d3
<1>8. n \notin ToSet(d)
    BY <1>1, <1>2, ChainTracks
<1>9. ASSUME NEW u \in DOMAIN s3
      PROVE  /\ s3[u].next \in 0..n
             /\ s3[u].refs = (IF u \in DOMAIN s THEN s[u].refs - One(u \in ToSet(c)) ELSE 0)
                          + (IF u = Null THEN 0 ELSE 0) + One(u \in ToSet(d3))
    <2>1. CASE u = n
        BY <1>2, <1>3, <1>4, <1>5, <1>7, <2>1 DEF One
    <2>2. CASE u \in DOMAIN s
        <3>1. u # n /\ s3[u] = s2[u] /\ (u \in ToSet(d3) <=> u \in ToSet(d))
            BY <1>2, <1>5, <1>7, <2>2
        <3> QED
            BY <1>1, <1>2, <2>2, <3>1
    <2> QED
        BY <1>2, <1>5, <2>1, <2>2
<1>10. Moves(s, c, s3, n, d3, Null, 0)
    <2>1. \A u \in DOMAIN s : u \notin ToSet(c) => s3[u].next = s[u].next
        BY <1>1, <1>2, <1>5
    <2>2. ToSet(d3) \subseteq ToSet(c) \cup {n}
        BY <1>1, <1>7
    <2> QED
        BY <1>2, <1>5, <1>7, <1>9, <2>1, <2>2 DEF Moves
<1> QED
    BY <1>2, <1>3, <1>4, <1>5, <1>6, <1>7, <1>10

\* lookup_cache_entry finds what is in the chain, or nothing.
LEMMA LookupFinds ==
    ASSUME NEW c, IsChain(ti, bucket, c), ti \in Seq(Track), NEW f
    PROVE  Lookup(f) = Null \/ Lookup(f) \in ToSet(c)
<1> DEFINE found == {i \in DOMAIN Chain : ti[Chain[i]].file = f}
<1>1. Chain = c /\ DOMAIN c = 1..Len(c) /\ Len(c) \in Nat
    BY ChainIs DEF Chain, IsChain
<1>2. CASE found = {}
    BY <1>2 DEF Lookup
<1>3. CASE found # {}
    <2> DEFINE Less == {p \in Nat \X Nat : p[1] < p[2]}
    <2>1. found \subseteq DOMAIN c /\ found \in SUBSET Nat
        BY <1>1
    <2>2. PICK i \in found : \A j \in found : ~ <<j, i>> \in Less
        <3>1. IsWellFoundedOn(Less, Nat)
            BY NatLessThanWellFounded, Zenon DEF OpToRel
        <3> HIDE DEF found, Less
        <3> QED
            BY <1>3, <2>1, <3>1, WFMin
    <2>3. \A j \in found : i <= j
        <3> SUFFICES ASSUME NEW j \in found PROVE i <= j
            OBVIOUS
        <3>1. i \in Nat /\ j \in Nat /\ ~(j < i)
            BY <2>1, <2>2
        <3> QED
            BY <3>1
    <2> HIDE DEF found
    <2>4. (CHOOSE k \in found : \A j \in found : k <= j) \in found
        BY <2>3
    <2>5. Lookup(f) = Chain[CHOOSE k \in found : \A j \in found : k <= j]
        BY <1>3 DEF Lookup, found
    <2> QED
        BY <1>1, <2>1, <2>4, <2>5 DEF ToSet
<1> QED
    BY <1>2, <1>3

\* cache_get_ti
LEMMA Gets ==
    ASSUME NEW c, IsChain(ti, bucket, c), ti \in Seq(Track), \A u \in DOMAIN ti : ti[u].next \in 0..Len(ti),
           NEW f \in Filename, NEW force, NEW g \in GetTi(f, force)
    PROVE  \E s2, b2, d : /\ g.m = Memory(s2, b2) /\ Moves(ti, c, s2, b2, d, g.t, 1)
                          /\ g.t \in 0..Len(s2)
<1> DEFINE t == Lookup(f)
           m == IF t = Null THEN Now ELSE RemovedTi(Now, t)
<1>1. t = Null \/ t \in DOMAIN ti
    <2>1. ToSet(c) \subseteq DOMAIN ti
        BY ChainTracks
    <2> QED
        BY <2>1, LookupFinds
<1>2. \/ t # Null /\ g = [m |-> Ref(Now, t), t |-> t]
      \/ g = [m |-> Ref(WithNew(m, f), FreshTi(m)), t |-> FreshTi(m)]
      \/ g = [m |-> m, t |-> Null]
    BY DEF GetTi
<1> HIDE DEF t
<1>3. Now = Memory(ti, bucket)
    BY DEF Now, Memory
<1>4. Moves(ti, c, ti, bucket, c, Null, 0) /\ Len(ti) \in Nat /\ DOMAIN ti = 1..Len(ti)
    BY Rests
<1>5. PICK s2, b2, d : m = Memory(s2, b2) /\ Moves(ti, c, s2, b2, d, Null, 0) /\ Len(s2) = Len(ti)
    <2>1. CASE t = Null
        BY <1>3, <1>4, <2>1
    <2>2. CASE t # Null
        BY <1>1, <1>3, <2>2, Removes
    <2> QED
        BY <2>1, <2>2
<1> HIDE DEF m
<1>6. CASE t # Null /\ g = [m |-> Ref(Now, t), t |-> t]
    <2>1. g.m = Memory(WithRefs(ti, t, ti[t].refs + 1), bucket) /\ g.t = t
        BY <1>3, <1>6, Inside
    <2>2. t \in DOMAIN ti
        BY <1>1, <1>6
    <2>3. Moves(ti, c, WithRefs(ti, t, ti[t].refs + 1), bucket, c, t, 1)
        BY <1>4, <2>2, Refs
    <2>4. Len(WithRefs(ti, t, ti[t].refs + 1)) = Len(ti)
        BY <2>2, TrackFields, RefsField
    <2> QED
        BY <1>4, <2>1, <2>2, <2>3, <2>4
<1>7. CASE g = [m |-> Ref(WithNew(m, f), FreshTi(m)), t |-> FreshTi(m)]
    <2> DEFINE n == Len(ti) + 1
    <2>1. PICK s3, d3 : /\ WithNew(Memory(s2, b2), f) = Memory(s3, n) /\ FreshTi(Memory(s2, b2)) = n
                        /\ Moves(ti, c, s3, n, d3, Null, 0) /\ Len(s3) = n
        BY <1>5, Makes
    <2>2. s3 \in Seq(Track) /\ n \in DOMAIN s3 /\ n \in 0..Len(s3)
        BY <1>4, <2>1 DEF Moves
    <2>3. g.m = Memory(WithRefs(s3, n, s3[n].refs + 1), n) /\ g.t = n
        BY <1>5, <1>7, <2>1, Inside
    <2>4. Moves(ti, c, WithRefs(s3, n, s3[n].refs + 1), n, d3, n, 1)
        BY <2>1, <2>2, Refs
    <2>5. Len(WithRefs(s3, n, s3[n].refs + 1)) = Len(s3)
        BY <2>2, TrackFields, RefsField
    <2> QED
        BY <2>2, <2>3, <2>4, <2>5
<1>8. CASE g = [m |-> m, t |-> Null]
    <2>1. g.m = Memory(s2, b2) /\ g.t = Null
        BY <1>5, <1>8
    <2>2. 0 \notin DOMAIN s2 /\ Len(s2) \in Nat
        BY <1>5 DEF Moves
    <2>3. Moves(ti, c, s2, b2, d, Null, 1)
        BY <1>5, <2>2 DEF Moves, Null
    <2> QED
        BY <2>1, <2>2, <2>3 DEF Null
<1> QED
    BY <1>2, <1>6, <1>7, <1>8


-----------------------------------------------------------------------------
(* Counting the entries. *)

\* How many of the entries E name the track t.
Count(E, F, t) == Cardinality({e \in E : F[e] = t})

LEMMA CountSame ==
    ASSUME NEW E, NEW F, NEW G, NEW t, \A e \in E : F[e] = G[e]
    PROVE  Count(E, F, t) = Count(E, G, t)
<1>1. {e \in E : F[e] = t} = {e \in E : G[e] = t}
    OBVIOUS
<1> QED
    BY <1>1 DEF Count

LEMMA CountIsNat ==
    ASSUME NEW E, IsFiniteSet(E), NEW F, NEW t
    PROVE  Count(E, F, t) \in Nat
<1>1. {e \in E : F[e] = t} \subseteq E
    OBVIOUS
<1> QED
    BY <1>1, FS_Subset, FS_CardinalityType DEF Count

\* Nothing names it.
LEMMA CountNone ==
    ASSUME NEW E, NEW F, NEW t, \A e \in E : F[e] # t
    PROVE  Count(E, F, t) = 0
<1>1. {e \in E : F[e] = t} = {}
    OBVIOUS
<1> QED
    BY <1>1, FS_EmptySet DEF Count

\* The entries of X come to name the tracks, no two of them the same one.
LEMMA CountGain ==
    ASSUME NEW E, NEW E2, IsFiniteSet(E), NEW F, NEW G, NEW X, NEW t,
           E \subseteq E2, X \subseteq E2, \A e \in E2 \ X : e \in E /\ F[e] = G[e],
           \A x \in X : x \in E => F[x] # t,
           \A x, y \in X : G[x] = t /\ G[y] = t => x = y
    PROVE  Count(E2, G, t) = Count(E, F, t) + One(\E x \in X : G[x] = t)
<1> DEFINE A == {e \in E : F[e] = t}
           B == {e \in E2 : G[e] = t}
<1>1. IsFiniteSet(A) /\ Cardinality(A) \in Nat
    <2>1. A \subseteq E
        OBVIOUS
    <2> QED
        BY <2>1, FS_Subset, FS_CardinalityType
<1>2. CASE \E x \in X : G[x] = t
    <2>1. PICK x \in X : G[x] = t
        BY <1>2
    <2>2. x \notin A
        OBVIOUS
    <2>3. B = A \cup {x}
        <3>1. ASSUME NEW e \in B PROVE e \in A \cup {x}
            BY <2>1
        <3>2. ASSUME NEW e \in A PROVE e \in B
            OBVIOUS
        <3> QED
            BY <2>1, <3>1, <3>2
    <2>4. Cardinality(A \cup {x}) = Cardinality(A) + 1
        BY <1>1, <2>2, FS_AddElement
    <2> QED
        BY <1>2, <2>3, <2>4 DEF Count, One
<1>3. CASE ~ \E x \in X : G[x] = t
    <2>1. B = A
        BY <1>3
    <2> QED
        BY <1>1, <1>3, <2>1 DEF Count, One
<1> QED
    BY <1>2, <1>3

\* The first pending result is gone.
Shift(e) == <<e[1] - 1, e[2]>>
LEMMA CountShift ==
    ASSUME NEW E, NEW E2, IsFiniteSet(E), NEW F, NEW G, NEW t,
           E \subseteq Int \X Int, \A e \in E : Shift(e) \in E2 /\ G[Shift(e)] = F[e],
           \A e \in E2 : \E x \in E : e = Shift(x)
    PROVE  Count(E2, G, t) = Count(E, F, t)
<1> DEFINE A == {e \in E : F[e] = t}
           B == {e \in E2 : G[e] = t}
           g == [e \in A |-> Shift(e)]
<1>1. IsFiniteSet(A)
    <2>1. A \subseteq E
        OBVIOUS
    <2> QED
        BY <2>1, FS_Subset
<1>2. ASSUME NEW x \in E, NEW y \in E, Shift(x) = Shift(y)
      PROVE  x = y
    <2>1. x[1] - 1 = y[1] - 1 /\ x[2] = y[2]
        BY <1>2 DEF Shift
    <2>2. x = <<x[1], x[2]>> /\ y = <<y[1], y[2]>> /\ x[1] \in Int /\ y[1] \in Int
        OBVIOUS
    <2>3. x[1] = y[1]
        BY <2>1, <2>2
    <2> QED
        BY <2>1, <2>2, <2>3
<1>3. \A e \in A : Shift(e) \in B
    OBVIOUS
<1>4. \A e \in B : \E x \in A : e = Shift(x)
    OBVIOUS
<1>5. g \in Bijection(A, B)
    <2>1. g \in [A -> B]
        BY <1>3
    <2>2. \A x, y \in A : g[x] = g[y] => x = y
        BY <1>2
    <2>3. \A e \in B : \E x \in A : g[x] = e
        BY <1>4
    <2> HIDE DEF A, B, g
    <2> QED
        BY <2>1, <2>2, <2>3 DEF Bijection, Injection, Surjection, IsInjective
<1>6. ExistsBijection(A, B)
    BY <1>5 DEF ExistsBijection
<1>7. Cardinality(A) = Cardinality(B)
    BY <1>1, <1>6, FS_Bijection
<1> QED
    BY <1>7 DEF Count


-----------------------------------------------------------------------------
(* The entries of the results and of the job. *)

\* The entry of place k, i.
IsEntry(p, k, i) == k \in DOMAIN p /\ i \in p[k].i..Len(p[k].tis) /\ p[k].tis[i] # Null

LEMMA EntriesAre ==
    /\ \A e \in Entries : e = <<e[1], e[2]>> /\ IsEntry(Pending, e[1], e[2])
    /\ \A k, i : IsEntry(Pending, k, i) => <<k, i>> \in Entries
    /\ \A e \in Entries' : e = <<e[1], e[2]>> /\ IsEntry(Pending', e[1], e[2])
    /\ \A k, i : IsEntry(Pending', k, i) => <<k, i>> \in Entries'
<1> DEFINE Is(p) == {e \in UNION {{k} \X (p[k].i..Len(p[k].tis)) : k \in DOMAIN p} : p[e[1]].tis[e[2]] # Null}
<1>1. ASSUME NEW p
      PROVE  /\ \A e \in Is(p) : e = <<e[1], e[2]>> /\ IsEntry(p, e[1], e[2])
             /\ \A k, i : IsEntry(p, k, i) => <<k, i>> \in Is(p)
    <2>1. ASSUME NEW e \in Is(p) PROVE e = <<e[1], e[2]>> /\ IsEntry(p, e[1], e[2])
        <3>1. PICK k \in DOMAIN p : e \in {k} \X (p[k].i..Len(p[k].tis))
            OBVIOUS
        <3>2. e = <<e[1], e[2]>> /\ e[1] = k /\ e[2] \in p[k].i..Len(p[k].tis)
            BY <3>1
        <3> QED
            BY <3>2 DEF IsEntry
    <2>2. ASSUME NEW k, NEW i, IsEntry(p, k, i) PROVE <<k, i>> \in Is(p)
        <3>1. <<k, i>> \in {k} \X (p[k].i..Len(p[k].tis)) /\ k \in DOMAIN p /\ p[k].tis[i] # Null
            BY <2>2 DEF IsEntry
        <3>2. <<k, i>>[1] = k /\ <<k, i>>[2] = i
            OBVIOUS
        <3> QED
            BY <3>1, <3>2
    <2> QED
        BY <2>1, <2>2
<1>2. Entries = Is(Pending) /\ Entries' = Is(Pending')
    BY DEF Entries, Old
<1> HIDE DEF Is
<1> QED
    BY <1>1, <1>2

LEMMA PendingIs ==
    ASSUME NEW r, NEW S, r \in Seq(S), NEW x
    PROVE  /\ DOMAIN Append(r, x) = 1..Len(r) + 1 /\ Len(r) \in Nat
           /\ Append(r, x)[Len(r) + 1] = x /\ \A k \in 1..Len(r) : Append(r, x)[k] = r[k]
OBVIOUS

JobRecord(j) == [kind |-> "job", tis |-> j.tis, i |-> 1]

\* What Types says of what is pending.
LEMMA PendingTypes ==
    ASSUME Types
    PROVE  /\ Pending = Append(result, JobRecord(job)) /\ Len(result) \in Nat
           /\ DOMAIN Pending = 1..Len(result) + 1 /\ Pending[Len(result) + 1] = JobRecord(job)
           /\ \A k \in 1..Len(result) : Pending[k] = result[k] /\ result[k].kind \in {"add", "update"}
           /\ \A k \in DOMAIN Pending :
                 /\ Pending[k].i \in Nat \ {0} /\ Pending[k].tis \in Tis
                 /\ Pending[k].i <= Len(Pending[k].tis) + 1
<1>1. result \in Seq([kind : {"add", "update"}, tis : Tis, i : Nat \ {0}]) /\ job.tis \in Tis
    BY DEF Types, TiTypes, HeldTypes, JobTypes, ResultTypes
<1>2. /\ DOMAIN Pending = 1..Len(result) + 1 /\ Len(result) \in Nat
      /\ Pending[Len(result) + 1] = JobRecord(job) /\ \A k \in 1..Len(result) : Pending[k] = result[k]
    BY <1>1, PendingIs DEF Pending, JobRecord
<1>3. \A k \in 1..Len(result) : /\ result[k].kind \in {"add", "update"} /\ result[k].i \in Nat \ {0}
                                /\ result[k].tis \in Tis /\ result[k].i <= Len(result[k].tis) + 1
    <2> SUFFICES ASSUME NEW k \in 1..Len(result)
                 PROVE  /\ result[k].kind \in {"add", "update"} /\ result[k].i \in Nat \ {0}
                        /\ result[k].tis \in Tis /\ result[k].i <= Len(result[k].tis) + 1
        OBVIOUS
    <2> DEFINE Records == [kind : {"add", "update"}, tis : Tis, i : Nat \ {0}]
    <2>1. result[k] \in Records
        <3>1. result \in Seq(Records)
            BY <1>1
        <3> HIDE DEF Records
        <3> QED
            BY <3>1
    <2> QED
        BY <2>1 DEF Types, TiTypes, HeldTypes, JobTypes, ResultTypes
<1>4. JobRecord(job).i = 1 /\ JobRecord(job).tis = job.tis /\ 1 <= Len(job.tis) + 1
    BY <1>1 DEF JobRecord, Tis
<1>5. \A k \in DOMAIN Pending : k \in 1..Len(result) \/ k = Len(result) + 1
    BY <1>2
<1>6. Pending = Append(result, JobRecord(job))
    BY DEF Pending, JobRecord
<1>7. \A k \in DOMAIN Pending : /\ Pending[k].i \in Nat \ {0} /\ Pending[k].tis \in Tis
                                 /\ Pending[k].i <= Len(Pending[k].tis) + 1
    <2> SUFFICES ASSUME NEW k \in DOMAIN Pending
                 PROVE  /\ Pending[k].i \in Nat \ {0} /\ Pending[k].tis \in Tis
                        /\ Pending[k].i <= Len(Pending[k].tis) + 1
        OBVIOUS
    <2>1. CASE k \in 1..Len(result)
        BY <1>2, <1>3, <2>1
    <2>2. CASE k = Len(result) + 1
        BY <1>1, <1>2, <1>4, <2>2
    <2> QED
        BY <1>5, <2>1, <2>2
<1>8. \A k \in 1..Len(result) : Pending[k] = result[k] /\ result[k].kind \in {"add", "update"}
    BY <1>2, <1>3, Zenon
<1> QED
    BY <1>2, <1>6, <1>7, <1>8, Zenon

LEMMA EntryTypes ==
    ASSUME Types
    PROVE  /\ \A e \in Entries : /\ e = <<e[1], e[2]>> /\ e[1] \in Nat /\ e[2] \in Nat
                                 /\ Old(e) \in DOMAIN ti /\ New(e) \in 0..Len(ti)
           /\ IsFiniteSet(Entries)
<1>1. ASSUME NEW e \in Entries
      PROVE  /\ e = <<e[1], e[2]>> /\ e[1] \in Nat /\ e[2] \in Nat
             /\ e[1] \in DOMAIN Pending /\ e[2] \in 1..Len(Pending[e[1]].tis)
             /\ Old(e) \in DOMAIN ti /\ New(e) \in 0..Len(ti)
    <2>1. e = <<e[1], e[2]>> /\ IsEntry(Pending, e[1], e[2])
        BY EntriesAre
    <2>2. /\ e[1] \in DOMAIN Pending /\ e[2] \in Pending[e[1]].i..Len(Pending[e[1]].tis)
          /\ Pending[e[1]].tis \in Tis /\ Pending[e[1]].i \in Nat \ {0}
        BY <2>1, PendingTypes DEF IsEntry
    <2>3. Len(Pending[e[1]].tis) \in Nat /\ e[2] \in 1..Len(Pending[e[1]].tis)
        BY <2>2 DEF Tis
    <2>4. Old(e) \in 0..Len(ti) /\ Old(e) # Null
        BY <2>1, <2>2, <2>3 DEF Tis, Old, IsEntry
    <2>5. Old(e) \in DOMAIN ti /\ Null \in 0..Len(ti) /\ \A t \in DOMAIN ti : ti[t].next \in 0..Len(ti)
        BY <2>4 DEF Types, TiTypes, HeldTypes, JobTypes, ResultTypes, Null
    <2>6. New(e) \in 0..Len(ti)
        BY <2>5 DEF New
    <2>7. e[1] \in Nat
        BY <2>2, PendingTypes
    <2> QED
        BY <2>1, <2>2, <2>3, <2>5, <2>6, <2>7
<1>2. IsFiniteSet(Entries)
    <2> DEFINE n == Len(result) + 1
               row == [k \in 1..n |-> {k} \X (1..Len(Pending[k].tis))]
               rows == {row[k] : k \in 1..n}
    <2>1. \A k \in 1..n : Len(Pending[k].tis) \in Nat
        BY PendingTypes DEF Tis
    <2>2. \A r \in rows : IsFiniteSet(r)
        <3> SUFFICES ASSUME NEW k \in 1..n PROVE IsFiniteSet({k} \X (1..Len(Pending[k].tis)))
            OBVIOUS
        <3>1. IsFiniteSet({k}) /\ IsFiniteSet(1..Len(Pending[k].tis))
            BY <2>1, FromOne, FS_Singleton
        <3> QED
            BY <3>1, FS_Product
    <2>3. IsFiniteSet(rows)
        <3>1. IsFiniteSet(1..n)
            BY PendingTypes, FromOne
        <3>2. row \in Surjection(1..n, rows)
            BY DEF Surjection
        <3> HIDE DEF row, rows
        <3> QED
            BY <3>1, <3>2, FS_Surjection
    <2>4. IsFiniteSet(UNION rows)
        BY <2>2, <2>3, FS_UNION
    <2>5. Entries \subseteq UNION rows
        <3> SUFFICES ASSUME NEW e \in Entries PROVE e \in UNION rows
            OBVIOUS
        <3>1. e \in {e[1]} \X (1..Len(Pending[e[1]].tis)) /\ e[1] \in 1..n
            BY <1>1, PendingTypes
        <3> QED
            BY <3>1
    <2> QED
        BY <2>4, <2>5, FS_Subset
<1> QED
    BY <1>1, <1>2


\* What the entries name, as functions.
OldOf == [e \in Entries |-> Old(e)]
NewOf == [e \in Entries |-> New(e)]

LEMMA GivenIs ==
    ASSUME NEW t
    PROVE  /\ GivenBack(t) = Count(Entries, OldOf, t) + Count(Entries, NewOf, t)
           /\ GivenBack(t)' = Count(Entries', OldOf', t) + Count(Entries', NewOf', t)
<1>1. /\ {e \in Entries : Old(e) = t} = {e \in Entries : OldOf[e] = t}
      /\ {e \in Entries : New(e) = t} = {e \in Entries : NewOf[e] = t}
    BY DEF OldOf, NewOf
<1>2. /\ {e \in Entries : Old(e) = t}' = {e \in Entries' : OldOf'[e] = t}
      /\ {e \in Entries : New(e) = t}' = {e \in Entries' : NewOf'[e] = t}
    BY DEF OldOf, NewOf
<1>3. GivenBack(t) = Count(Entries, OldOf, t) + Count(Entries, NewOf, t)
    BY <1>1 DEF GivenBack, Count
<1>4. GivenBack(t)' = Count(Entries', OldOf', t) + Count(Entries', NewOf', t)
    BY <1>2 DEF GivenBack, Count
<1> QED
    BY <1>3, <1>4

LEMMA GivenNat ==
    ASSUME Types, NEW t
    PROVE  /\ GivenBack(t) \in Nat
           /\ Count(Entries, OldOf, t) \in Nat /\ Count(Entries, NewOf, t) \in Nat
           /\ t \in Ids \ DOMAIN ti => GivenBack(t) = 0
<1>1. Count(Entries, OldOf, t) \in Nat /\ Count(Entries, NewOf, t) \in Nat
    BY EntryTypes, CountIsNat
<1>2. ASSUME t \in Ids \ DOMAIN ti PROVE GivenBack(t) = 0
    <2>1. t \notin DOMAIN ti /\ t \notin 0..Len(ti)
        BY <1>2 DEF Ids, Types, TiTypes
    <2>2. \A e \in Entries : OldOf[e] # t /\ NewOf[e] # t
        BY <2>1, EntryTypes DEF OldOf, NewOf
    <2>3. Count(Entries, OldOf, t) = 0 /\ Count(Entries, NewOf, t) = 0
        BY <2>2, CountNone
    <2> QED
        BY <2>3, GivenIs
<1> QED
    BY <1>1, <1>2, GivenIs

\* The entries stay.
LEMMA GivenSame ==
    ASSUME Entries' = Entries, \A e \in Entries : Old(e)' = Old(e) /\ New(e)' = New(e), NEW t
    PROVE  GivenBack(t)' = GivenBack(t)
<1>1. \A e \in Entries : OldOf'[e] = OldOf[e] /\ NewOf'[e] = NewOf[e]
    BY DEF OldOf, NewOf
<1>2. /\ Count(Entries, OldOf', t) = Count(Entries, OldOf, t)
      /\ Count(Entries, NewOf', t) = Count(Entries, NewOf, t)
    BY <1>1, CountSame
<1> QED
    BY <1>2, GivenIs

\* Entries X are added, each of another track, that are not told yet.
LEMMA GivenMore ==
    ASSUME Types, NEW X, Entries' = Entries \cup X, X \cap Entries = {},
           \A e \in Entries : Old(e)' = Old(e) /\ New(e)' = New(e),
           \A x \in X : New(x)' = Null,
           \A x, y \in X : Old(x)' = Old(y)' => x = y,
           NEW t \in Ids
    PROVE  GivenBack(t)' = GivenBack(t) + One(\E x \in X : Old(x)' = t)
<1>1. /\ \A e \in Entries : OldOf'[e] = OldOf[e] /\ NewOf'[e] = NewOf[e]
      /\ \A x \in X : OldOf'[x] = Old(x)' /\ NewOf'[x] = Null
    BY DEF OldOf, NewOf
<1>2. IsFiniteSet(Entries) /\ t # Null
    BY EntryTypes DEF Ids, Null
<1>3. Count(Entries', OldOf', t) = Count(Entries, OldOf, t) + One(\E x \in X : OldOf'[x] = t)
    <2>1. \A x, y \in X : OldOf'[x] = t /\ OldOf'[y] = t => x = y
        BY <1>1
    <2>2. Entries \subseteq Entries' /\ X \subseteq Entries' /\ \A e \in Entries' \ X : e \in Entries /\ OldOf[e] = OldOf'[e]
        BY <1>1
    <2>3. \A x \in X : x \in Entries => OldOf[x] # t
        OBVIOUS
    <2> QED
        BY <1>2, <2>1, <2>2, <2>3, CountGain DEF One
<1>4. Count(Entries', NewOf', t) = Count(Entries, NewOf, t) + One(\E x \in X : NewOf'[x] = t)
    <2>1. \A x, y \in X : NewOf'[x] = t /\ NewOf'[y] = t => x = y
        BY <1>1, <1>2
    <2>2. Entries \subseteq Entries' /\ X \subseteq Entries' /\ \A e \in Entries' \ X : e \in Entries /\ NewOf[e] = NewOf'[e]
        BY <1>1
    <2>3. \A x \in X : x \in Entries => NewOf[x] # t
        OBVIOUS
    <2> QED
        BY <1>2, <2>1, <2>2, <2>3, CountGain DEF One
<1>5. One(\E x \in X : NewOf'[x] = t) = 0 /\ One(\E x \in X : OldOf'[x] = t) = One(\E x \in X : Old(x)' = t)
    BY <1>1, <1>2 DEF One
<1>6. Count(Entries, OldOf, t) \in Nat /\ Count(Entries, NewOf, t) \in Nat /\ One(\E x \in X : Old(x)' = t) \in Nat
    BY GivenNat DEF One
<1>7. /\ GivenBack(t) = Count(Entries, OldOf, t) + Count(Entries, NewOf, t)
      /\ GivenBack(t)' = Count(Entries', OldOf', t) + Count(Entries', NewOf', t)
    BY GivenIs
<1> QED
    BY <1>3, <1>4, <1>5, <1>6, <1>7 DEF One

\* The entry x is gone.
LEMMA GivenLess ==
    ASSUME Types, NEW x \in Entries, Entries' = Entries \ {x},
           \A e \in Entries' : Old(e)' = Old(e) /\ New(e)' = New(e),
           NEW t
    PROVE  GivenBack(t)' = GivenBack(t) - One(Old(x) = t) - One(New(x) = t)
<1>1. /\ \A e \in Entries' : OldOf[e] = OldOf'[e] /\ NewOf[e] = NewOf'[e]
      /\ OldOf[x] = Old(x) /\ NewOf[x] = New(x)
    BY DEF OldOf, NewOf
<1> DEFINE X == {x}
<1>2. IsFiniteSet(Entries') /\ Entries' \subseteq Entries
    BY EntryTypes, FS_Subset
<1>3. Count(Entries, OldOf, t) = Count(Entries', OldOf', t) + One(\E y \in X : OldOf[y] = t)
    <2>0. X \subseteq Entries
        OBVIOUS
    <2>1. \A e \in Entries \ X : e \in Entries' /\ OldOf'[e] = OldOf[e]
        BY <1>1
    <2>2. \A y \in X : y \in Entries' => OldOf'[y] # t
        OBVIOUS
    <2>3. \A y, z \in X : OldOf[y] = t /\ OldOf[z] = t => y = z
        OBVIOUS
    <2> HIDE DEF X
    <2> QED
        BY <1>2, <2>0, <2>1, <2>2, <2>3, CountGain DEF One
<1>4. Count(Entries, NewOf, t) = Count(Entries', NewOf', t) + One(\E y \in X : NewOf[y] = t)
    <2>0. X \subseteq Entries
        OBVIOUS
    <2>1. \A e \in Entries \ X : e \in Entries' /\ NewOf'[e] = NewOf[e]
        BY <1>1
    <2>2. \A y \in X : y \in Entries' => NewOf'[y] # t
        OBVIOUS
    <2>3. \A y, z \in X : NewOf[y] = t /\ NewOf[z] = t => y = z
        OBVIOUS
    <2> HIDE DEF X
    <2> QED
        BY <1>2, <2>0, <2>1, <2>2, <2>3, CountGain DEF One
<1>5. /\ One(\E y \in X : NewOf[y] = t) = One(New(x) = t) /\ One(\E y \in X : OldOf[y] = t) = One(Old(x) = t)
      /\ One(New(x) = t) \in Nat /\ One(Old(x) = t) \in Nat
    BY <1>1 DEF One
<1>6. Count(Entries', OldOf', t) \in Nat /\ Count(Entries', NewOf', t) \in Nat
    BY <1>2, CountIsNat
<1>7. /\ GivenBack(t) = Count(Entries, OldOf, t) + Count(Entries, NewOf, t)
      /\ GivenBack(t)' = Count(Entries', OldOf', t) + Count(Entries', NewOf', t)
    BY GivenIs
<1> QED
    BY <1>3, <1>4, <1>5, <1>6, <1>7 DEF One


\* The entry x is told what became of its track: its new track is named, too.
LEMMA GivenTold ==
    ASSUME Types, NEW x \in Entries, New(x) = Null, Entries' = Entries,
           \A e \in Entries : Old(e)' = Old(e), \A e \in Entries \ {x} : New(e)' = New(e),
           NEW t \in Ids
    PROVE  GivenBack(t)' = GivenBack(t) + One(New(x)' = t)
<1>1. /\ \A e \in Entries : OldOf'[e] = OldOf[e]
      /\ \A e \in Entries \ {x} : NewOf[e] = NewOf'[e]
      /\ NewOf[x] = Null /\ NewOf'[x] = New(x)'
    BY DEF OldOf, NewOf
<1>2. IsFiniteSet(Entries) /\ t # Null
    BY EntryTypes DEF Ids, Null
<1>3. Count(Entries, OldOf', t) = Count(Entries, OldOf, t)
    BY <1>1, CountSame
<1> DEFINE X == {x}
<1>4. Count(Entries, NewOf', t) = Count(Entries, NewOf, t) + (IF \E y \in X : NewOf'[y] = t THEN 1 ELSE 0)
    <2>0. X \subseteq Entries /\ Entries \subseteq Entries
        OBVIOUS
    <2>1. \A e \in Entries \ X : e \in Entries /\ NewOf[e] = NewOf'[e]
        BY <1>1
    <2>2. \A y \in X : y \in Entries => NewOf[y] # t
        BY <1>1, <1>2
    <2>3. \A y, z \in X : NewOf'[y] = t /\ NewOf'[z] = t => y = z
        OBVIOUS
    <2> HIDE DEF X
    <2> QED
        BY <1>2, <2>0, <2>1, <2>2, <2>3, CountGain DEF One
<1>5. (\E y \in X : NewOf'[y] = t) <=> New(x)' = t
    BY <1>1
<1>6. Count(Entries, OldOf, t) \in Nat /\ Count(Entries, NewOf, t) \in Nat
    BY GivenNat
<1>7. /\ GivenBack(t) = Count(Entries, OldOf, t) + Count(Entries, NewOf, t)
      /\ GivenBack(t)' = Count(Entries, OldOf', t) + Count(Entries, NewOf', t)
    BY GivenIs
<1> HIDE DEF X
<1> QED
    BY <1>3, <1>4, <1>5, <1>6, <1>7 DEF One

\* The first result goes, with the entries X of it, one or none.
LEMMA GivenShift ==
    ASSUME Types, NEW X, X \subseteq Entries, \A x, y \in X : x = y,
           \A e \in Entries \ X : /\ Shift(e) \in Entries'
                                  /\ Old(Shift(e))' = Old(e) /\ New(Shift(e))' = New(e),
           \A e \in Entries' : \E x \in Entries \ X : e = Shift(x),
           NEW t
    PROVE  GivenBack(t)' = GivenBack(t) - (IF \E x \in X : Old(x) = t THEN 1 ELSE 0)
                                        - (IF \E x \in X : New(x) = t THEN 1 ELSE 0)
<1> DEFINE E == Entries \ X
<1>1. /\ \A e \in E : /\ Shift(e) \in Entries'
                      /\ OldOf'[Shift(e)] = OldOf[e] /\ NewOf'[Shift(e)] = NewOf[e]
      /\ \A x \in X : OldOf[x] = Old(x) /\ NewOf[x] = New(x)
    BY DEF OldOf, NewOf
<1>2. /\ IsFiniteSet(E) /\ E \subseteq Int \X Int /\ \A e \in Entries' : \E x \in E : e = Shift(x)
      /\ E \subseteq Entries /\ \A e \in Entries \ X : e \in E
    <2>1. IsFiniteSet(E)
        BY EntryTypes, FS_Subset
    <2>2. ASSUME NEW e \in E PROVE e \in Int \X Int
        <3>1. e = <<e[1], e[2]>> /\ e[1] \in Nat /\ e[2] \in Nat
            BY EntryTypes
        <3>2. <<e[1], e[2]>> \in Int \X Int
            BY <3>1
        <3> QED
            BY <3>1, <3>2
    <2> QED
        BY <2>1, <2>2
<1>3. \A x \in X : x \notin E
    OBVIOUS
<1> HIDE DEF E
<1>4. Count(Entries', OldOf', t) = Count(E, OldOf, t) /\ Count(Entries', NewOf', t) = Count(E, NewOf, t)
    BY <1>1, <1>2, CountShift
<1>5. /\ Count(Entries, OldOf, t) = Count(E, OldOf, t) + (IF \E x \in X : OldOf[x] = t THEN 1 ELSE 0)
      /\ Count(Entries, NewOf, t) = Count(E, NewOf, t) + (IF \E x \in X : NewOf[x] = t THEN 1 ELSE 0)
    BY <1>2, <1>3, CountGain DEF One
<1>6. ((\E x \in X : OldOf[x] = t) <=> (\E x \in X : Old(x) = t)) /\ ((\E x \in X : NewOf[x] = t) <=> (\E x \in X : New(x) = t))
    BY <1>1
<1>7. Count(E, OldOf, t) \in Nat /\ Count(E, NewOf, t) \in Nat
    BY <1>2, CountIsNat
<1>8. /\ GivenBack(t) = Count(Entries, OldOf, t) + Count(Entries, NewOf, t)
      /\ GivenBack(t)' = Count(Entries', OldOf', t) + Count(Entries', NewOf', t)
    BY GivenIs
<1> QED
    BY <1>4, <1>5, <1>6, <1>7, <1>8


-----------------------------------------------------------------------------
(* The invariant. *)

\* Where the chain is, before and after a step.
LEMMA Moved ==
    ASSUME Types, NEW c, IsChain(ti, bucket, c), NEW d, NEW t, NEW k, Moves(ti, c, ti', bucket', d, t, k),
           Len(ti') <= MaxTracks
    PROVE  /\ TiTypes' /\ Chained' /\ Chain = c /\ Chain' = d
           /\ \A u : (IsCached(u) <=> u \in ToSet(c)) /\ (IsCached(u)' <=> u \in ToSet(d))
           /\ ToSet(c) \subseteq DOMAIN ti /\ ToSet(d) \subseteq DOMAIN ti'
           /\ DOMAIN ti = 1..Len(ti) /\ DOMAIN ti' = 1..Len(ti') /\ Len(ti) \in Nat /\ Len(ti') \in Nat
           /\ Len(ti') \in Len(ti)..Len(ti) + 1 /\ DOMAIN ti' \subseteq Ids
<1>1. /\ ti \in Seq(Track) /\ ti' \in Seq(Track) /\ IsChain(ti', bucket', d)
      /\ Len(ti') \in Len(ti)..Len(ti) + 1 /\ \A u \in DOMAIN ti' : ti'[u].next \in 0..Len(ti')
    BY DEF Moves, Types, TiTypes
<1>2. Chain = c /\ Chain' = d
    BY <1>1, ChainIs DEF Chain
<1>3. ToSet(c) \subseteq DOMAIN ti /\ ToSet(d) \subseteq DOMAIN ti'
    BY <1>1, ChainTracks
<1>4. /\ DOMAIN ti = 1..Len(ti) /\ DOMAIN ti' = 1..Len(ti') /\ Len(ti) \in Nat /\ Len(ti') \in Nat
      /\ DOMAIN ti' \subseteq Ids
    BY <1>1, MaxTracksAssumption DEF Ids
<1>5. TiTypes' /\ Chained'
    BY <1>1 DEF TiTypes, Chained
<1>6. \A u : (IsCached(u) <=> u \in ToSet(c)) /\ (IsCached(u)' <=> u \in ToSet(d))
    BY <1>2 DEF IsCached
<1> QED
    BY <1>1, <1>2, <1>3, <1>4, <1>5, <1>6

\* The counts go on to be right when the holders change as the references do.
LEMMA Balanced ==
    ASSUME Types, RefsAreCounted, NEW c, IsChain(ti, bucket, c), NEW d, NEW t, NEW k \in Int,
           Moves(ti, c, ti', bucket', d, t, k), Len(ti') <= MaxTracks,
           held' \in [Ids -> Nat],
           \A u \in DOMAIN ti' :
              held'[u] + GivenBack(u)' = held[u] + GivenBack(u) + (IF u = t THEN k ELSE 0)
    PROVE  RefsAreCounted'
<1> SUFFICES ASSUME NEW u \in DOMAIN ti'
             PROVE  ti'[u].refs = held'[u] + GivenBack(u)' + (IF IsCached(u)' THEN 1 ELSE 0)
    BY DEF RefsAreCounted
<1>1. /\ IsCached(u) <=> u \in ToSet(c)
      /\ IsCached(u)' <=> u \in ToSet(d)
      /\ ToSet(c) \subseteq DOMAIN ti /\ DOMAIN ti' \subseteq Ids
    BY Moved
<1>2. ti'[u].refs = (IF u \in DOMAIN ti THEN ti[u].refs - One(u \in ToSet(c)) ELSE 0)
                          + (IF u = t THEN k ELSE 0) + One(u \in ToSet(d))
    BY DEF Moves
<1>3. held[u] \in Nat /\ GivenBack(u) \in Nat
    BY <1>1, GivenNat DEF Types, HeldTypes
<1>4. u \in DOMAIN ti => ti[u].refs = held[u] + GivenBack(u) + (IF IsCached(u) THEN 1 ELSE 0)
    BY DEF RefsAreCounted
<1>5. u \notin DOMAIN ti => held[u] = 0 /\ GivenBack(u) = 0
    BY <1>1, GivenNat DEF Types, HeldTypes
<1>6. held'[u] + GivenBack(u)' = held[u] + GivenBack(u) + (IF u = t THEN k ELSE 0)
    OBVIOUS
<1> QED
    BY <1>1, <1>2, <1>3, <1>4, <1>5, <1>6 DEF One


\* While a step leaves the entries alone, what they name stays.
LEMMA Quiet ==
    ASSUME Types, Apart, NEW c, IsChain(ti, bucket, c), NEW d, NEW t, NEW k, Moves(ti, c, ti', bucket', d, t, k),
           Len(ti') <= MaxTracks, result' = result, job'.tis = job.tis, job'.i = job.i
    PROVE  Apart' /\ \A u : GivenBack(u)' = GivenBack(u)
<1>1. Pending' = Pending
    BY DEF Pending
<1>2. Entries' = Entries
    BY <1>1 DEF Entries, Old
<1>3. \A e : (Old(e)' = Old(e)) /\ (Told(e)' <=> Told(e)) /\ (Listing(e)' <=> Listing(e))
    BY <1>1 DEF Old, Told, Listing
<1>4. ASSUME NEW e \in Entries
      PROVE  New(e)' = New(e) /\ (Told(e) => ~IsCached(Old(e))')
    <2>1. CASE Told(e)
        <3>1. Old(e) \notin ToSet(c) /\ Old(e) \in DOMAIN ti
            BY <2>1, Moved, EntryTypes DEF Apart
        <3>2. ti'[Old(e)].next = ti[Old(e)].next
            BY <3>1 DEF Moves
        <3>3. Old(e) \notin ToSet(d)
            <4>1. Old(e) # Len(ti) + 1
                BY <3>1, Moved
            <4> QED
                BY <3>1, <4>1 DEF Moves
        <3>4. ~IsCached(Old(e))'
            BY <1>3, <3>3, Moved DEF IsCached
        <3> QED
            BY <1>3, <2>1, <3>2, <3>4 DEF New
    <2>2. CASE ~Told(e)
        BY <1>3, <2>2 DEF New
    <2> QED
        BY <2>1, <2>2
<1>5. Apart'
    <2>1. \A e, f \in Entries' : Listing(e)' /\ Listing(f)' /\ Old(e)' = Old(f)' => e = f
        BY <1>2, <1>3 DEF Apart
    <2>2. \A e \in Entries' : Told(e)' => ~IsCached(Old(e))' /\ New(e)' # Old(e)'
        BY <1>2, <1>3, <1>4 DEF Apart
    <2> QED
        BY <2>1, <2>2 DEF Apart
<1>6. \A u : GivenBack(u)' = GivenBack(u)
    BY <1>2, <1>3, <1>4, GivenSame
<1> QED
    BY <1>5, <1>6


\* What is listed stays listed when tracks are made.
LEMMA TisGrows ==
    ASSUME Types, Len(ti') \in Nat, Len(ti) <= Len(ti')
    PROVE  /\ Tis \subseteq Tis' /\ Len(ti) \in Nat
           /\ result' = result => ResultTypes'
           /\ job' = job => JobTypes'
<1>1. ti \in Seq(Track) /\ Len(ti) \in Nat
    BY DEF Types, TiTypes
<1>2. Tis \subseteq Tis'
    <2>1. 0..Len(ti) \subseteq 0..Len(ti')
        BY <1>1
    <2> QED
        BY <2>1 DEF Tis
<1>3. ASSUME result' = result PROVE ResultTypes'
    <2>1. result \in Seq([kind : {"add", "update"}, tis : Tis', i : Nat \ {0}])
        <3> DEFINE Before == [kind : {"add", "update"}, tis : Tis, i : Nat \ {0}]
                   After == [kind : {"add", "update"}, tis : Tis', i : Nat \ {0}]
        <3>1. Before \subseteq After
            BY <1>2
        <3>2. result \in Seq(Before)
            BY DEF Types, ResultTypes
        <3> HIDE DEF Before, After
        <3>3. result \in Seq(After)
            BY <3>1, <3>2
        <3> QED
            BY <3>3 DEF After
    <2> QED
        BY <1>3, <2>1 DEF Types, ResultTypes
<1>4. ASSUME job' = job PROVE JobTypes'
    <2>1. job \in [pc : {"idle", "yield", "changed", "read", "new", "deleted"}, force : BOOLEAN, tis : Tis', i : Nat]
        BY <1>2 DEF Types, JobTypes
    <2> QED
        BY <1>4, <2>1 DEF Types, JobTypes, Idle
<1> QED
    BY <1>1, <1>2, <1>3, <1>4

\* A step that leaves the entries alone; the holders of t change as its references.
LEMMA Steady ==
    ASSUME IInv, NEW c, IsChain(ti, bucket, c), NEW d, NEW t, NEW k \in Int, Moves(ti, c, ti', bucket', d, t, k),
           Len(ti') <= MaxTracks, result' = result, job'.tis = job.tis, job'.i = job.i, JobTypes', Taken',
           held' \in [Ids -> Nat], t \in Ids => t \in DOMAIN ti',
           \A u \in Ids : held'[u] = held[u] + (IF u = t THEN k ELSE 0)
    PROVE  IInv'
<1>1. Types /\ Apart /\ RefsAreCounted
    BY DEF IInv
<1>2. /\ TiTypes' /\ Chained' /\ DOMAIN ti \subseteq DOMAIN ti' /\ DOMAIN ti' \subseteq Ids
      /\ Len(ti') \in Nat /\ Len(ti) <= Len(ti')
    BY <1>1, Moved
<1>3. HeldTypes'
    <2>1. \A u \in Ids \ DOMAIN ti' : held'[u] = 0
        BY <1>1, <1>2 DEF Types, HeldTypes
    <2> QED
        BY <2>1 DEF HeldTypes
<1>4. Apart' /\ \A u : GivenBack(u)' = GivenBack(u)
    BY <1>1, Quiet
<1>5. RefsAreCounted'
    <2>1. \A u \in DOMAIN ti' : held'[u] + GivenBack(u)' = held[u] + GivenBack(u) + (IF u = t THEN k ELSE 0)
        BY <1>1, <1>2, <1>4, GivenNat DEF Types, HeldTypes
    <2> QED
        BY <1>1, <2>1, Balanced
<1>6. Types'
    BY <1>1, <1>2, <1>3, TisGrows DEF Types
<1> QED
    BY <1>2, <1>4, <1>5, <1>6 DEF IInv

\* cache_get_ti for the lists
LEMMA KeepsGetFile == IInv /\ GetFile => IInv'
<1> SUFFICES ASSUME IInv, GetFile
             PROVE  IInv'
    OBVIOUS
<1>1. Types
    BY DEF IInv
<1>2. PICK c : IsChain(ti, bucket, c)
    BY DEF IInv, Chained
<1>3. PICK f \in Filename : \E g \in GetTi(f, FALSE) :
        /\ LockIsFree /\ Len(ti) < MaxTracks /\ g.t # Null
        /\ Store(g.m) /\ held' = [held EXCEPT ![g.t] = @ + 1]
        /\ UNCHANGED <<job, result>>
    BY DEF GetFile
<1>4. PICK g \in GetTi(f, FALSE) :
        /\ LockIsFree /\ Len(ti) < MaxTracks /\ g.t # Null
        /\ Store(g.m) /\ held' = [held EXCEPT ![g.t] = @ + 1]
        /\ UNCHANGED <<job, result>>
    BY <1>3
<1>5. PICK d : Moves(ti, c, ti', bucket', d, g.t, 1) /\ g.t \in DOMAIN ti'
    <2>1. PICK s2, b2, d : g.m = Memory(s2, b2) /\ Moves(ti, c, s2, b2, d, g.t, 1) /\ g.t \in 0..Len(s2)
        BY <1>1, <1>2, Gets DEF Types, TiTypes
    <2>2. ti' = s2 /\ bucket' = b2
        BY <1>4, <2>1, Inside DEF Store
    <2>3. ti' \in Seq(Track)
        BY <2>1, <2>2 DEF Moves
    <2> QED
        BY <1>4, <2>1, <2>2, <2>3 DEF Null
<1>6. Len(ti') <= MaxTracks
    BY <1>1, <1>4, <1>5, MaxTracksAssumption DEF Moves, Types, TiTypes
<1>7. DOMAIN ti' \subseteq Ids /\ Len(ti') \in Nat /\ Len(ti) <= Len(ti')
    BY <1>1, <1>2, <1>5, <1>6, Moved
<1>8. held' \in [Ids -> Nat] /\ \A u \in Ids : held'[u] = held[u] + (IF u = g.t THEN 1 ELSE 0)
    <2>1. g.t \in Ids /\ held \in [Ids -> Nat] /\ held' = [held EXCEPT ![g.t] = @ + 1]
        BY <1>1, <1>4, <1>5, <1>7 DEF Types, HeldTypes
    <2> QED
        BY <2>1
<1>9. JobTypes' /\ Taken'
    BY <1>1, <1>4, <1>7, TisGrows DEF Taken, LockIsFree
<1> QED
    BY <1>2, <1>4, <1>5, <1>6, <1>8, <1>9, Steady

\* track_info_unref and track_info_ref
LEMMA KeepsDropTrack == IInv /\ (DropTrack \/ CopyTrack) => IInv'
<1> SUFFICES ASSUME IInv, DropTrack \/ CopyTrack
             PROVE  IInv'
    OBVIOUS
<1>1. Types /\ Taken
    BY DEF IInv
<1>2. PICK c : IsChain(ti, bucket, c)
    BY DEF IInv, Chained
<1>3. PICK t \in DOMAIN ti, k \in {-1, 1} :
        /\ held' \in [Ids -> Nat] /\ \A u \in Ids : held'[u] = held[u] + (IF u = t THEN k ELSE 0)
        /\ Store(Memory(WithRefs(ti, t, ti[t].refs + k), bucket))
        /\ UNCHANGED <<job, result>>
    <2>0. /\ DOMAIN ti \subseteq Ids /\ held \in [Ids -> Nat]
          /\ Now = Memory(ti, bucket) /\ \A t \in DOMAIN ti : ti[t].refs \in Int
        BY <1>1, TrackFields, MaxTracksAssumption DEF Types, TiTypes, HeldTypes, Ids, Now, Memory
    <2>1. CASE DropTrack
        <3>1. PICK t \in DOMAIN ti : /\ held[t] > 0 /\ held' = [held EXCEPT ![t] = @ - 1] /\ Store(Unref(Now, t))
                                     /\ UNCHANGED <<job, result>>
            BY <2>1 DEF DropTrack
        <3>2. Unref(Now, t) = Memory(WithRefs(ti, t, ti[t].refs + (-1)), bucket)
            <4>1. ti[t].refs - 1 = ti[t].refs + (-1)
                BY <2>0
            <4> QED
                BY <2>0, <4>1, Inside
        <3>3. held' \in [Ids -> Nat] /\ \A u \in Ids : held'[u] = held[u] + (IF u = t THEN -1 ELSE 0)
            BY <2>0, <3>1
        <3> QED
            BY <3>1, <3>2, <3>3
    <2>2. CASE CopyTrack
        <3>1. PICK t \in DOMAIN ti : /\ held' = [held EXCEPT ![t] = @ + 1] /\ Store(Ref(Now, t))
                                     /\ UNCHANGED <<job, result>>
            BY <2>2 DEF CopyTrack
        <3>2. Ref(Now, t) = Memory(WithRefs(ti, t, ti[t].refs + 1), bucket)
            BY <2>0, Inside
        <3>3. held' \in [Ids -> Nat] /\ \A u \in Ids : held'[u] = held[u] + (IF u = t THEN 1 ELSE 0)
            BY <2>0, <3>1
        <3> QED
            BY <3>1, <3>2, <3>3
    <2> QED
        BY <2>1, <2>2
<1>4. ti' = WithRefs(ti, t, ti[t].refs + k) /\ bucket' = bucket
    BY <1>3, Inside DEF Store
<1>5. Moves(ti, c, ti', bucket', c, t, k)
    <2>1. Moves(ti, c, ti, bucket, c, Null, 0)
        BY <1>1, <1>2, Rests DEF Types, TiTypes
    <2>2. ti \in Seq(Track) /\ k \in Int
        BY <1>1 DEF Types, TiTypes
    <2> QED
        BY <1>4, <2>1, <2>2, Refs
<1>6. Len(ti') = Len(ti) /\ DOMAIN ti' = DOMAIN ti /\ Len(ti') <= MaxTracks /\ Len(ti) \in Nat
    <2>1. ti \in Seq(Track) /\ ti[t].refs + k \in Int /\ Len(ti) <= MaxTracks
        BY <1>1, TrackFields DEF Types, TiTypes
    <2> QED
        BY <1>4, <2>1, RefsField
<1>8. JobTypes'
    BY <1>1, <1>3, <1>6, TisGrows
<1>9. Taken'
    <2>1. Chain = c /\ Chain' = c
        BY <1>1, <1>2, <1>5, <1>6, Moved
    <2> QED
        BY <1>1, <1>3, <1>6, <2>1 DEF Taken, IsCached, Entry
<1> QED
    BY <1>2, <1>3, <1>5, <1>6, <1>8, <1>9, Steady


\* do_cache_remove_ti, by a list that lets the track go
LEMMA KeepsRemoveFromCache == IInv /\ RemoveFromCache => IInv'
<1> SUFFICES ASSUME IInv, RemoveFromCache
             PROVE  IInv'
    OBVIOUS
<1>1. Types /\ Taken
    BY DEF IInv
<1>2. PICK c : IsChain(ti, bucket, c)
    BY DEF IInv, Chained
<1>3. PICK t \in DOMAIN ti : /\ LockIsFree /\ held[t] > 0 /\ Store(Unref(RemovedTi(Now, t), t))
                             /\ held' = [held EXCEPT ![t] = @ - 1] /\ UNCHANGED <<job, result>>
    BY DEF RemoveFromCache
<1>4. ti \in Seq(Track) /\ Now = Memory(ti, bucket) /\ \A u \in DOMAIN ti : ti[u].next \in 0..Len(ti)
    BY <1>1 DEF Types, TiTypes, Now, Memory
<1>5. PICK s2, b2, d : /\ RemovedTi(Now, t) = Memory(s2, b2)
                       /\ Moves(ti, c, s2, b2, d, Null, 0) /\ Len(s2) = Len(ti)
    BY <1>2, <1>4, Removes
<1>6. s2 \in Seq(Track) /\ t \in DOMAIN s2 /\ s2[t].refs \in Int /\ s2[t].refs - 1 = s2[t].refs + (-1)
    <2>1. s2 \in Seq(Track)
        BY <1>5 DEF Moves
    <2>2. t \in DOMAIN s2
        BY <1>4, <1>5, <2>1
    <2> QED
        BY <2>1, <2>2, TrackFields
<1>7. ti' = WithRefs(s2, t, s2[t].refs + (-1)) /\ bucket' = b2
    BY <1>3, <1>5, <1>6, Inside DEF Store
<1>8. Moves(ti, c, ti', bucket', d, t, -1)
    BY <1>4, <1>5, <1>6, <1>7, Refs
<1>9. Len(ti') = Len(ti) /\ Len(ti') <= MaxTracks /\ Len(ti) \in Nat /\ t \in DOMAIN ti'
    <2>1. Len(ti') = Len(s2) /\ DOMAIN ti' = DOMAIN s2
        BY <1>6, <1>7, RefsField
    <2> QED
        BY <1>1, <1>4, <1>5, <1>6, <2>1 DEF Types, TiTypes
<1>10. held' \in [Ids -> Nat] /\ \A u \in Ids : held'[u] = held[u] + (IF u = t THEN -1 ELSE 0)
    <2>1. t \in Ids /\ held \in [Ids -> Nat] /\ held[t] > 0 /\ held' = [held EXCEPT ![t] = @ - 1]
        BY <1>1, <1>2, <1>3, <1>8, <1>9, Moved DEF Types, HeldTypes
    <2> QED
        BY <2>1
<1>11. JobTypes' /\ Taken'
    BY <1>1, <1>3, <1>9, TisGrows DEF Taken, LockIsFree
<1> QED
    BY <1>2, <1>3, <1>8, <1>9, <1>10, <1>11, Steady

\* The job goes on with the entry it is at.
LEMMA JobGoes ==
    ASSUME Types, NEW p \in {"changed", "read", "new", "deleted"}, At(p), job.pc # "idle",
           job.i \in 1..Len(job.tis), Len(ti') \in Nat, Len(ti) <= Len(ti')
    PROVE  JobTypes' /\ job'.tis = job.tis /\ job'.i = job.i /\ job'.pc = p /\ Entry' = Entry
<1>1. job \in [pc : {"idle", "yield", "changed", "read", "new", "deleted"}, force : BOOLEAN, tis : Tis, i : Nat]
    BY DEF Types, JobTypes
<1>2. /\ job' = [pc |-> p, force |-> job.force, tis |-> job.tis, i |-> job.i]
      /\ job.tis \in Tis' /\ job.i \in Nat /\ job.force \in BOOLEAN
    BY <1>1, TisGrows DEF At
<1>3. job' \in [pc : {"idle", "yield", "changed", "read", "new", "deleted"}, force : BOOLEAN, tis : Tis', i : Nat]
    BY <1>2
<1>4. job'.tis = job.tis /\ job'.i = job.i /\ job'.pc = p
    BY <1>2
<1>5. \A i \in 1..Len(job'.tis) : job'.i <= i => job'.tis[i] # Null
    BY <1>4 DEF Types, JobTypes
<1>6. Len(job'.tis) \in Nat /\ job'.i \in 1..Len(job'.tis) + 1 /\ job'.i \in 1..Len(job'.tis)
    BY <1>2, <1>4 DEF Tis
<1>7. JobTypes'
    BY <1>3, <1>4, <1>5, <1>6 DEF JobTypes
<1> QED
    BY <1>4, <1>7 DEF Entry

\* The entry that the job is at.
LEMMA AtEntry ==
    ASSUME Types, job.pc # "idle", job.i \in 1..Len(job.tis)
    PROVE  Entry \in DOMAIN ti /\ <<Len(result) + 1, job.i>> \in Entries
           /\ Old(<<Len(result) + 1, job.i>>) = Entry /\ New(<<Len(result) + 1, job.i>>) = Null
           /\ ~Told(<<Len(result) + 1, job.i>>) /\ Listing(<<Len(result) + 1, job.i>>)
<1> DEFINE x == <<Len(result) + 1, job.i>>
<1>1. Pending[x[1]] = JobRecord(job) /\ x[1] = Len(result) + 1 /\ x[2] = job.i /\ x[1] \in DOMAIN Pending
    BY PendingTypes
<1>2. job.tis[job.i] # Null /\ job.i \in Nat
    BY DEF Types, JobTypes
<1>3. Old(x) = Entry /\ JobRecord(job).kind = "job" /\ JobRecord(job).i = 1 /\ JobRecord(job).tis = job.tis
    BY <1>1 DEF Old, Entry, JobRecord
<1>4. x \in Entries
    BY <1>1, <1>2, <1>3, EntriesAre DEF IsEntry
<1>5. ~Told(x) /\ Listing(x)
    BY <1>1, <1>2, <1>3 DEF Told, Listing
<1> QED
    BY <1>3, <1>4, <1>5, EntryTypes DEF New

\* The file has changed or is gone: the track leaves the cache.
LEMMA KeepsChanged ==
    ASSUME IInv, job.pc = "yield", job.i \in 1..Len(job.tis), NEW p \in {"changed", "deleted"},
           Store(RemovedTi(Now, Entry)), At(p), UNCHANGED <<held, result>>
    PROVE  IInv'
<1>1. Types
    BY DEF IInv
<1>2. PICK c : IsChain(ti, bucket, c)
    BY DEF IInv, Chained
<1>3. ti \in Seq(Track) /\ Now = Memory(ti, bucket) /\ \A u \in DOMAIN ti : ti[u].next \in 0..Len(ti)
    BY <1>1 DEF Types, TiTypes, Now, Memory
<1>4. Entry \in DOMAIN ti
    BY <1>1, AtEntry
<1>5. PICK s2, b2, d : /\ RemovedTi(Now, Entry) = Memory(s2, b2)
                       /\ Moves(ti, c, s2, b2, d, Null, 0) /\ Len(s2) = Len(ti) /\ ToSet(d) = ToSet(c) \ {Entry}
    BY <1>2, <1>3, <1>4, Removes
<1>6. ti' = s2 /\ bucket' = b2
    BY <1>5, Inside DEF Store
<1>7. Moves(ti, c, ti', bucket', d, Null, 0) /\ Len(ti') = Len(ti) /\ Len(ti') <= MaxTracks /\ Len(ti) \in Nat
    BY <1>1, <1>3, <1>5, <1>6 DEF Types, TiTypes
<1>8. JobTypes' /\ job'.tis = job.tis /\ job'.i = job.i /\ job'.pc = p /\ Entry' = Entry
    BY <1>1, <1>7, JobGoes
<1>9. Taken'
    <2>1. ~(Entry' \in ToSet(Chain'))
        BY <1>1, <1>2, <1>5, <1>7, <1>8, Moved
    <2> QED
        BY <1>8, <2>1 DEF Taken, IsCached
<1>10. held' \in [Ids -> Nat] /\ Null \notin Ids /\ \A u \in Ids : held'[u] = held[u] + (IF u = Null THEN 0 ELSE 0)
    BY <1>1 DEF Types, HeldTypes, Ids, Null
<1> QED
    BY <1>2, <1>7, <1>8, <1>9, <1>10, Steady


\* The job goes on, with the tracks as they are.
LEMMA KeepsAt ==
    ASSUME IInv, job.pc \notin {"idle", "yield"}, NEW p \in {"read", "deleted"}, At(p),
           UNCHANGED <<ti, bucket, held, result>>
    PROVE  IInv'
<1>1. Types /\ Taken /\ job.i \in 1..Len(job.tis)
    BY DEF IInv, Types, JobTypes
<1>2. PICK c : IsChain(ti, bucket, c)
    BY DEF IInv, Chained
<1>3. Moves(ti, c, ti', bucket', c, Null, 0) /\ Len(ti') = Len(ti) /\ Len(ti') <= MaxTracks /\ Len(ti) \in Nat
    BY <1>1, <1>2, Rests DEF Types, TiTypes
<1>4. JobTypes' /\ job'.tis = job.tis /\ job'.i = job.i /\ job'.pc = p /\ Entry' = Entry
    BY <1>1, <1>3, JobGoes
<1>5. Taken'
    <2>1. job.pc \in {"changed", "read", "new", "deleted"}
        BY <1>1 DEF Types, JobTypes
    <2>2. Entry \notin ToSet(Chain) /\ Chain' = Chain
        BY <1>1, <1>2, <1>3, <2>1, Moved DEF Taken, IsCached
    <2> QED
        BY <1>4, <2>2 DEF Taken, IsCached
<1>6. held' \in [Ids -> Nat] /\ Null \notin Ids /\ \A u \in Ids : held'[u] = held[u] + (IF u = Null THEN 0 ELSE 0)
    BY <1>1 DEF Types, HeldTypes, Ids, Null
<1> QED
    BY <1>2, <1>3, <1>4, <1>5, <1>6, Steady

\* ip_get_ti finds the file, or does not.
LEMMA KeepsRead == IInv /\ Read => IInv'
<1> SUFFICES ASSUME IInv, Read
             PROVE  IInv'
    OBVIOUS
<1>1. Types /\ Taken /\ job.i \in 1..Len(job.tis) /\ job.pc = "read" /\ UNCHANGED <<held, result>>
    BY DEF IInv, Types, JobTypes, Read
<1>2. CASE At("deleted") /\ UNCHANGED <<ti, bucket>>
    BY <1>1, <1>2, KeepsAt
<1>3. CASE Len(ti) < MaxTracks /\ Store(WithNew(Now, ti[Entry].file)) /\ At("new")
    <2>1. PICK c : IsChain(ti, bucket, c)
        BY DEF IInv, Chained
    <2>2. /\ ti \in Seq(Track) /\ Now = Memory(ti, bucket) /\ \A u \in DOMAIN ti : ti[u].next \in 0..Len(ti)
          /\ Len(ti) \in Nat /\ DOMAIN ti = 1..Len(ti)
        BY <1>1 DEF Types, TiTypes, Now, Memory
    <2>3. Entry \in DOMAIN ti /\ ti[Entry].file \in Filename
        BY <1>1, <2>2, AtEntry, TrackFields
    <2>4. Moves(ti, c, ti, bucket, c, Null, 0)
        BY <2>1, <2>2, Rests
    <2>5. PICK s3, d3 :
           /\ WithNew(Memory(ti, bucket), ti[Entry].file) = Memory(s3, Len(ti) + 1)
           /\ Moves(ti, c, s3, Len(ti) + 1, d3, Null, 0) /\ Len(s3) = Len(ti) + 1
           /\ ToSet(d3) = ToSet(c) \cup {Len(ti) + 1}
        BY <2>2, <2>3, <2>4, Makes, SMTT(30)
    <2>6. ti' = s3 /\ bucket' = Len(ti) + 1
        BY <1>3, <2>2, <2>5, Inside DEF Store
    <2>7. Moves(ti, c, ti', bucket', d3, Null, 0) /\ Len(ti') = Len(ti) + 1 /\ Len(ti') <= MaxTracks /\ Len(ti') \in Nat
        BY <1>3, <2>2, <2>5, <2>6, MaxTracksAssumption
    <2>8. JobTypes' /\ job'.tis = job.tis /\ job'.i = job.i /\ job'.pc = "new" /\ Entry' = Entry
        BY <1>1, <1>3, <2>2, <2>7, JobGoes
    <2>9. Taken'
        <3>1. Entry \notin ToSet(c) /\ Chain' = d3
            BY <1>1, <2>1, <2>7, Moved DEF Taken
        <3>2. Entry < Len(ti') /\ Entry \notin ToSet(Chain')
            BY <2>2, <2>3, <2>5, <2>7, <3>1
        <3> QED
            BY <2>8, <3>2 DEF Taken, IsCached
    <2>10. held' \in [Ids -> Nat] /\ Null \notin Ids /\ \A u \in Ids : held'[u] = held[u] + (IF u = Null THEN 0 ELSE 0)
        BY <1>1 DEF Types, HeldTypes, Ids, Null
    <2> QED
        BY <1>1, <2>1, <2>7, <2>8, <2>9, <2>10, Steady
<1> QED
    BY <1>2, <1>3 DEF Read

\* The job lets the track of its entry go.
LEMMA KeepsForgotten ==
    ASSUME IInv, job.pc # "idle", job.i \in 1..Len(job.tis), Forgotten(Now), UNCHANGED <<held, result>>
    PROVE  IInv'
<1> DEFINE n == Len(result) + 1
           x == <<n, job.i>>
<1>1. Types /\ Apart /\ RefsAreCounted
    BY DEF IInv
<1>2. PICK c : IsChain(ti, bucket, c)
    BY DEF IInv, Chained
<1>3. /\ Entry \in DOMAIN ti /\ x \in Entries /\ Old(x) = Entry /\ New(x) = Null /\ ~Told(x)
    BY <1>1, AtEntry
<1>4. ti' = WithRefs(ti, Entry, ti[Entry].refs + (-1)) /\ bucket' = bucket
    <2>1. Now = Memory(ti, bucket) /\ ti[Entry].refs - 1 = ti[Entry].refs + (-1)
        BY <1>1, <1>3, TrackFields DEF Types, TiTypes, Now, Memory
    <2> QED
        BY <2>1, Inside DEF Forgotten, Store
<1>5. ti \in Seq(Track) /\ Len(ti) \in Nat /\ Len(ti) <= MaxTracks
    BY <1>1 DEF Types, TiTypes
<1>6. Moves(ti, c, ti', bucket', c, Entry, -1)
    <2>1. Moves(ti, c, ti, bucket, c, Null, 0)
        BY <1>1, <1>2, Rests DEF Types, TiTypes
    <2> QED
        BY <1>3, <1>4, <1>5, <2>1, Refs
<1>7. Len(ti') = Len(ti) /\ DOMAIN ti' = DOMAIN ti /\ \A u \in DOMAIN ti : ti'[u].next = ti[u].next
    <2>1. ti[Entry].refs + (-1) \in Int
        BY <1>3, <1>5, TrackFields
    <2> QED
        BY <1>3, <1>4, <1>5, <2>1, RefsField
<1>8. TiTypes' /\ Chained' /\ Chain = c /\ Chain' = c /\ DOMAIN ti' \subseteq Ids /\ Tis' = Tis
    BY <1>1, <1>2, <1>5, <1>6, <1>7, Moved DEF Tis
<1>9. /\ job'.pc = "yield" /\ job'.i = job.i + 1 /\ Len(job'.tis) = Len(job.tis)
      /\ job'.tis = [job.tis EXCEPT ![job.i] = Null] /\ job.tis \in Tis /\ job.i \in Nat /\ JobTypes'
    <2>1. /\ job \in [pc : {"idle", "yield", "changed", "read", "new", "deleted"}, force : BOOLEAN, tis : Tis, i : Nat]
          /\ \A i \in 1..Len(job.tis) : job.i <= i => job.tis[i] # Null
        BY <1>1 DEF Types, JobTypes
    <2>2. /\ job' = [pc |-> "yield", force |-> job.force, tis |-> [job.tis EXCEPT ![job.i] = Null], i |-> job.i + 1]
          /\ job.tis \in Tis /\ job.i \in Nat /\ job.force \in BOOLEAN
        BY <2>1 DEF Forgotten
    <2>3. [job.tis EXCEPT ![job.i] = Null] \in Tis /\ Len([job.tis EXCEPT ![job.i] = Null]) = Len(job.tis)
        BY <1>5, <2>2 DEF Tis, Null
    <2>4. job' \in [pc : {"idle", "yield", "changed", "read", "new", "deleted"}, force : BOOLEAN, tis : Tis', i : Nat]
        BY <1>8, <2>2, <2>3
    <2>5. \A i \in 1..Len(job'.tis) : job'.i <= i => job'.tis[i] # Null
        <3> SUFFICES ASSUME NEW i \in 1..Len(job.tis), job.i + 1 <= i
                     PROVE  [job.tis EXCEPT ![job.i] = Null][i] # Null
            BY <2>2, <2>3
        <3>1. job.tis[i] # Null /\ i # job.i
            BY <2>1, <2>2
        <3> QED
            BY <2>2, <3>1 DEF Tis
    <2>6. job'.pc = "yield" /\ job'.i = job.i + 1 /\ job'.tis = [job.tis EXCEPT ![job.i] = Null]
        BY <2>2
    <2>7. job'.i \in 1..Len(job'.tis) + 1
        BY <2>2, <2>3, <2>6 DEF Tis
    <2> QED
        BY <2>2, <2>3, <2>4, <2>5, <2>6, <2>7 DEF JobTypes

<1>10. /\ DOMAIN Pending = 1..n /\ DOMAIN Pending' = 1..n /\ n \in Nat
       /\ \A k \in 1..n : k # n => Pending'[k] = Pending[k]
       /\ Pending[n] = JobRecord(job) /\ Pending'[n] = JobRecord(job')
    <2>1. Pending' = Append(result, JobRecord(job'))
        BY DEF Pending, JobRecord
    <2>2. result \in Seq([kind : {"add", "update"}, tis : Tis, i : Nat \ {0}])
        BY <1>1 DEF Types, ResultTypes
    <2>3. /\ DOMAIN Pending' = 1..n /\ Pending'[n] = JobRecord(job')
          /\ \A k \in 1..Len(result) : Pending'[k] = result[k]
        BY <2>1, <2>2, PendingIs
    <2>4. \A k \in 1..n : k # n => k \in 1..Len(result)
        BY <1>1, PendingTypes
    <2> QED
        BY <1>1, <2>3, <2>4, PendingTypes
<1>11. ASSUME NEW k \in 1..n, NEW j \in Nat, <<k, j>> # x
       PROVE  /\ IsEntry(Pending', k, j) <=> IsEntry(Pending, k, j)
              /\ IsEntry(Pending, k, j) => Pending'[k].tis[j] = Pending[k].tis[j]
              /\ Pending'[k].kind = Pending[k].kind
    <2>1. CASE k # n
        BY <1>10, <2>1 DEF IsEntry
    <2>2. CASE k = n
        <3>1. j # job.i
            BY <1>11, <2>2
        <3>2. j \in 1..Len(job.tis) => job'.tis[j] = job.tis[j]
            BY <1>9, <3>1 DEF Tis
        <3>3. /\ Pending[k].tis = job.tis /\ Pending'[k].tis = job'.tis /\ Pending[k].i = 1 /\ Pending'[k].i = 1
              /\ Pending[k].kind = "job" /\ Pending'[k].kind = "job"
            BY <1>10, <2>2 DEF JobRecord
        <3> QED
            BY <1>9, <1>10, <3>2, <3>3 DEF IsEntry
    <2> QED
        BY <2>1, <2>2
<1>12. Entries' = Entries \ {x}
    <2>1. ASSUME NEW e \in Entries, e # x PROVE e \in Entries'
        <3>1. e = <<e[1], e[2]>> /\ IsEntry(Pending, e[1], e[2]) /\ e[2] \in Nat /\ e[1] \in 1..n
            BY <1>1, <1>10, EntriesAre, EntryTypes DEF IsEntry
        <3>2. IsEntry(Pending', e[1], e[2])
            BY <1>11, <2>1, <3>1
        <3> QED
            BY <3>1, <3>2, EntriesAre
    <2>2. ASSUME NEW e \in Entries' PROVE e \in Entries /\ e # x
        <3>1. e = <<e[1], e[2]>> /\ IsEntry(Pending', e[1], e[2]) /\ e[1] \in 1..n
            BY <1>10, EntriesAre DEF IsEntry
        <3>2. e # x
            <4> SUFFICES ASSUME e = x PROVE FALSE
                OBVIOUS
            <4>1. Pending'[n].tis[job.i] # Null /\ Pending'[n].tis = job'.tis
                BY <1>10, <3>1 DEF IsEntry, JobRecord
            <4> QED
                BY <1>9, <4>1 DEF Tis
        <3>3. e[2] \in Nat
            <4>1. e[2] \in Pending'[e[1]].i..Len(Pending'[e[1]].tis) /\ Pending'[e[1]].i \in Nat
                BY <1>1, <1>10, <3>1, PendingTypes DEF IsEntry, JobRecord
            <4> QED
                BY <4>1
        <3>4. IsEntry(Pending, e[1], e[2])
            BY <1>11, <3>1, <3>2, <3>3
        <3> QED
            BY <3>1, <3>2, <3>4, EntriesAre
    <2> QED
        BY <2>1, <2>2
<1>13. ASSUME NEW e \in Entries, e # x
       PROVE  (Old(e)' = Old(e)) /\ (Told(e)' <=> Told(e)) /\ (Listing(e)' <=> Listing(e)) /\ (New(e)' = New(e))
    <2>1. e = <<e[1], e[2]>> /\ IsEntry(Pending, e[1], e[2]) /\ e[2] \in Nat /\ e[1] \in 1..n /\ Old(e) \in DOMAIN ti
        BY <1>1, <1>10, EntriesAre, EntryTypes DEF IsEntry
    <2>2. Pending'[e[1]].tis[e[2]] = Pending[e[1]].tis[e[2]] /\ Pending'[e[1]].kind = Pending[e[1]].kind
        BY <1>11, <1>13, <2>1
    <2>3. Old(e)' = Old(e) /\ (Listing(e)' <=> Listing(e))
        BY <2>2 DEF Old, Listing
    <2>4. Told(e)' <=> Told(e)
        <3>1. Pending[e[1]].kind = "job" => e[1] = n
            BY <1>1, <1>10, <2>1, PendingTypes
        <3>2. e[1] = n => (e[2] < job'.i <=> e[2] < job.i)
            BY <1>9, <1>13, <2>1
        <3> QED
            BY <2>2, <3>1, <3>2 DEF Told
    <2>5. New(e)' = New(e)
        BY <1>7, <2>1, <2>3, <2>4 DEF New
    <2> QED
        BY <2>3, <2>4, <2>5
<1>14. \A u \in DOMAIN ti : GivenBack(u)' = GivenBack(u) - One(Entry = u)
    <2> SUFFICES ASSUME NEW u \in DOMAIN ti PROVE GivenBack(u)' = GivenBack(u) - One(Entry = u)
        OBVIOUS
    <2>1. GivenBack(u)' = GivenBack(u) - One(Old(x) = u) - One(New(x) = u)
        BY <1>1, <1>3, <1>12, <1>13, GivenLess
    <2>2. New(x) # u /\ GivenBack(u) \in Nat
        BY <1>1, <1>3, <1>5, GivenNat DEF Null
    <2> QED
        BY <1>3, <2>1, <2>2 DEF One
<1>15. RefsAreCounted'
    <2>1. held' \in [Ids -> Nat] /\ \A u \in DOMAIN ti' : held[u] \in Nat /\ GivenBack(u) \in Nat
        BY <1>1, <1>8, GivenNat DEF Types, HeldTypes
    <2>2. \A u \in DOMAIN ti' : held'[u] + GivenBack(u)' = held[u] + GivenBack(u) + (IF u = Entry THEN -1 ELSE 0)
        BY <1>7, <1>14, <2>1 DEF One
    <2> QED
        BY <1>1, <1>2, <1>5, <1>6, <1>7, <2>1, <2>2, Balanced
<1>16. Apart'
    <2>1. \A e, f \in Entries' : Listing(e)' /\ Listing(f)' /\ Old(e)' = Old(f)' => e = f
        BY <1>1, <1>12, <1>13 DEF Apart
    <2>2. \A e \in Entries' : Told(e)' => ~IsCached(Old(e))' /\ New(e)' # Old(e)'
        BY <1>1, <1>8, <1>12, <1>13 DEF Apart, IsCached
    <2> QED
        BY <2>1, <2>2 DEF Apart
<1>17. Types' /\ Taken'
    <2>1. HeldTypes' /\ ResultTypes'
        BY <1>1, <1>5, <1>7, TisGrows DEF Types, HeldTypes
    <2> QED
        BY <1>8, <1>9, <2>1 DEF Types, Taken
<1> QED
    BY <1>8, <1>15, <1>16, <1>17 DEF IInv


\* What Tell leaves of the tracks: next of t names v, which has a reference more.
Named(m, t, v) == IF v = Null THEN NextIn(m, t, Null) ELSE Ref(NextIn(m, t, v), v)
NamedTi(s, t, v) ==
    LET s1 == WithNext(s, t, v)
    IN  IF v = Null THEN s1 ELSE WithRefs(s1, v, s1[v].refs + 1)
LEMMA Naming ==
    ASSUME NEW s \in Seq(Track), NEW t \in DOMAIN s, NEW v, v = Null \/ v = Len(s)
    PROVE  /\ \A b : Named(Memory(s, b), t, v) = Memory(NamedTi(s, t, v), b)
           /\ NamedTi(s, t, v) \in Seq(Track) /\ Len(NamedTi(s, t, v)) = Len(s) /\ DOMAIN NamedTi(s, t, v) = DOMAIN s
           /\ \A u \in DOMAIN s :
                /\ NamedTi(s, t, v)[u].next = IF u = t THEN v ELSE s[u].next
                /\ NamedTi(s, t, v)[u].refs = s[u].refs + (IF u = v THEN 1 ELSE 0)
<1>1. /\ DOMAIN s = 1..Len(s) /\ Len(s) \in Nat /\ Len(s) \in DOMAIN s /\ Null \in Nat /\ Null \notin DOMAIN s
      /\ \A u \in DOMAIN s : s[u].refs \in Int
    BY TrackFields DEF Null
<1>0. v \in Nat /\ (v = Null \/ v = Len(s))
    BY <1>1
<1>2. PICK s1 : s1 = WithNext(s, t, v)
    OBVIOUS
<1>3. /\ s1 \in Seq(Track) /\ Len(s1) = Len(s) /\ DOMAIN s1 = DOMAIN s
      /\ \A u \in DOMAIN s : s1[u].refs = s[u].refs /\ s1[u].next = IF u = t THEN v ELSE s[u].next
    BY <1>0, <1>2, NextField
<1>4. CASE v = Null
    <2>1. s1 = NamedTi(s, t, v) /\ \A b : Named(Memory(s, b), t, v) = Memory(s1, b)
        BY <1>2, <1>4, Inside DEF Named, NamedTi
    <2> QED
        BY <1>1, <1>3, <1>4, <2>1
<1>5. CASE v # Null
    <2>1. v = Len(s)
        BY <1>0, <1>5
    <2>4. v \in DOMAIN s /\ v \in DOMAIN s1
        BY <1>1, <1>3, <2>1
    <2>0. PICK x \in Int : x = s1[v].refs + 1
        BY <1>1, <1>3, <2>4
    <2>2. PICK s2 : s2 = WithRefs(s1, v, x)
        OBVIOUS
    <2>3. s2 = NamedTi(s, t, v) /\ \A b : Named(Memory(s, b), t, v) = Memory(s2, b)
        BY <1>2, <1>5, <2>0, <2>2, Inside DEF Named, NamedTi
    <2>5. /\ s2 \in Seq(Track) /\ Len(s2) = Len(s1) /\ DOMAIN s2 = DOMAIN s1
          /\ \A u \in DOMAIN s1 : /\ s2[u].next = s1[u].next
                                  /\ s2[u].refs = IF u = v THEN x ELSE s1[u].refs
        <3>1. s1 \in Seq(Track) /\ v \in DOMAIN s1
            BY <1>3, <2>4
        <3> QED
            BY <2>2, <3>1, RefsField
    <2> QED
        BY <1>1, <1>3, <2>0, <2>3, <2>4, <2>5
<1> QED
    BY <1>4, <1>5

\* The job tells what became of the track of its entry.
LEMMA KeepsTold ==
    ASSUME IInv, NEW v, v = Null \/ v = Len(ti), job.pc \in {"new", "deleted"}, v # Null => job.pc = "new",
           Forward(Named(Now, Entry, v)),
           UNCHANGED <<held, result>>
    PROVE  IInv'
<1> DEFINE n == Len(result) + 1
<1>0. PICK x : x = <<n, job.i>>
    OBVIOUS
<1>1. Types /\ Apart /\ Taken /\ RefsAreCounted /\ job.i \in 1..Len(job.tis)
    BY DEF IInv, Types, JobTypes
<1>2. PICK c : IsChain(ti, bucket, c)
    BY DEF IInv, Chained
<1>3. /\ Entry \in DOMAIN ti /\ x \in Entries /\ Old(x) = Entry /\ New(x) = Null /\ ~Told(x) /\ Listing(x)
    BY <1>0, <1>1, AtEntry
<1>4. /\ ti \in Seq(Track) /\ Len(ti) \in Nat /\ DOMAIN ti = 1..Len(ti) /\ Len(ti) <= MaxTracks
      /\ \A u \in DOMAIN ti : ti[u].next \in 0..Len(ti)
    BY <1>1 DEF Types, TiTypes
<1>5. /\ bucket' = bucket /\ ti' \in Seq(Track) /\ Len(ti') = Len(ti) /\ DOMAIN ti' = DOMAIN ti
      /\ \A u \in DOMAIN ti : /\ ti'[u].next = IF u = Entry THEN v ELSE ti[u].next
                              /\ ti'[u].refs = ti[u].refs + (IF u = v THEN 1 ELSE 0)
    <2>1. Now = Memory(ti, bucket)
        BY DEF Now, Memory
    <2>2. Entry \in DOMAIN ti /\ ti \in Seq(Track) /\ (v = Null \/ v = Len(ti))
        BY <1>3, <1>4
    <2>3. Named(Now, Entry, v) = Memory(NamedTi(ti, Entry, v), bucket)
        BY <2>1, <2>2, Naming
    <2>4. ti' = NamedTi(ti, Entry, v) /\ bucket' = bucket
        BY <2>3, Inside DEF Forward, Store
    <2> QED
        BY <2>2, <2>4, Naming
<1>6. /\ Chain = c /\ Chain' = c /\ Chained' /\ Entry \notin ToSet(c) /\ ToSet(c) \subseteq DOMAIN ti
      /\ \A u : (IsCached(u) <=> u \in ToSet(c)) /\ (IsCached(u)' <=> u \in ToSet(c))
    <2>1. Chain = c
        BY <1>2, <1>4, ChainIs DEF Chain
    <2>2. Entry \notin ToSet(c) /\ ToSet(c) \subseteq DOMAIN ti
        BY <1>1, <1>2, <1>4, <2>1, ChainTracks DEF Taken, IsCached
    <2>3. IsChain(ti', bucket', c)
        BY <1>2, <1>4, <1>5, <2>2, SameLinks
    <2>4. Chain' = c
        BY <1>5, <2>3, ChainIs DEF Chain
    <2> QED
        BY <2>1, <2>2, <2>3, <2>4 DEF Chained, IsCached
<1>7. /\ job'.pc = "yield" /\ job'.i = job.i + 1 /\ job'.tis = job.tis
      /\ job.tis \in Tis /\ job.i \in Nat /\ JobTypes' /\ Tis' = Tis
    <2>0. Tis' = Tis
        BY <1>5 DEF Tis
    <2>1. /\ job \in [pc : {"idle", "yield", "changed", "read", "new", "deleted"}, force : BOOLEAN, tis : Tis, i : Nat]
          /\ \A i \in 1..Len(job.tis) : job.i <= i => job.tis[i] # Null
        BY <1>1 DEF Types, JobTypes
    <2>2. /\ job' = [pc |-> "yield", force |-> job.force, tis |-> job.tis, i |-> job.i + 1]
          /\ job.tis \in Tis /\ job.i \in Nat /\ job.force \in BOOLEAN
        BY <2>1 DEF Forward
    <2>3. job' \in [pc : {"idle", "yield", "changed", "read", "new", "deleted"}, force : BOOLEAN, tis : Tis', i : Nat]
        BY <2>0, <2>2
    <2>4. job'.pc = "yield" /\ job'.i = job.i + 1 /\ job'.tis = job.tis
        BY <2>2
    <2>5. \A i \in 1..Len(job'.tis) : job'.i <= i => job'.tis[i] # Null
        BY <2>1, <2>2, <2>4 DEF Tis
    <2>6. job'.i \in 1..Len(job'.tis) + 1
        BY <1>1, <2>2, <2>4 DEF Tis
    <2> QED
        BY <2>0, <2>2, <2>3, <2>4, <2>5, <2>6 DEF JobTypes
<1>8. Pending' = Pending
    BY <1>7 DEF Pending
<1>9. Entries' = Entries
    BY <1>8 DEF Entries, Old
<1>10. \A e : (Old(e)' = Old(e)) /\ (Listing(e)' <=> Listing(e))
    BY <1>8 DEF Old, Listing
<1>11. \A e \in Entries : Told(e) => Listing(e)
    BY DEF Told, Listing
<1>12. ASSUME NEW e \in Entries
       PROVE  Told(e)' <=> Told(e) \/ e = x
    <2>1. e = <<e[1], e[2]>> /\ e[2] \in Nat /\ IsEntry(Pending, e[1], e[2])
        BY <1>1, EntriesAre, EntryTypes
    <2>2. Pending[e[1]].kind = "job" <=> e[1] = n
        <3>1. e[1] \in 1..n /\ n \in Nat
            BY <1>1, <2>1, PendingTypes DEF IsEntry
        <3>2. CASE e[1] = n
            BY <1>1, <3>2, PendingTypes DEF JobRecord
        <3>3. CASE e[1] # n
            <4>1. e[1] \in 1..Len(result)
                BY <1>1, <3>1, <3>3, PendingTypes
            <4> QED
                BY <1>1, <3>3, <4>1, PendingTypes
        <3> QED
            BY <3>2, <3>3
    <2>3. Told(e)' <=> Pending[e[1]].kind = "update" \/ (Pending[e[1]].kind = "job" /\ e[2] < job.i + 1)
        BY <1>7, <1>8 DEF Told
    <2>4. e[2] < job.i + 1 <=> e[2] < job.i \/ e[2] = job.i
        BY <1>7, <2>1
    <2>5. e = x <=> e[1] = n /\ e[2] = job.i
        BY <1>0, <2>1
    <2> QED
        BY <2>2, <2>3, <2>4, <2>5 DEF Told
<1>13. New(x)' = v
    BY <1>3, <1>5, <1>10, <1>12 DEF New
<1>14. ASSUME NEW e \in Entries \ {x}
       PROVE  New(e)' = New(e)
    <2>1. CASE Told(e)
        <3>1. Old(e) # Entry
            BY <1>1, <1>3, <1>11, <2>1 DEF Apart
        <3>2. Old(e) \in DOMAIN ti
            BY <1>1, EntryTypes
        <3>3. ti'[Old(e)].next = ti[Old(e)].next
            BY <1>5, <3>1, <3>2
        <3> QED
            BY <1>10, <1>12, <2>1, <3>3 DEF New
    <2>2. CASE ~Told(e)
        BY <1>12, <2>2 DEF New
    <2> QED
        BY <2>1, <2>2
<1>15. RefsAreCounted'
    <2> SUFFICES ASSUME NEW u \in DOMAIN ti'
                 PROVE  ti'[u].refs = held'[u] + GivenBack(u)' + (IF IsCached(u)' THEN 1 ELSE 0)
        BY DEF RefsAreCounted
    <2>1. u \in DOMAIN ti /\ u \in Ids
        BY <1>4, <1>5, MaxTracksAssumption DEF Ids
    <2>2. GivenBack(u)' = GivenBack(u) + One(v = u)
        BY <1>1, <1>3, <1>9, <1>10, <1>13, <1>14, <2>1, GivenTold
    <2>3. held[u] \in Nat /\ GivenBack(u) \in Nat
        BY <1>1, <2>1, GivenNat DEF Types, HeldTypes
    <2>4. ti[u].refs = held[u] + GivenBack(u) + (IF IsCached(u) THEN 1 ELSE 0)
        BY <1>1, <2>1 DEF RefsAreCounted
    <2>5. ti'[u].refs = ti[u].refs + (IF u = v THEN 1 ELSE 0)
        BY <1>5, <2>1
    <2>6. IsCached(u)' <=> IsCached(u)
        BY <1>6
    <2> QED
        BY <2>2, <2>3, <2>4, <2>5, <2>6 DEF One
<1>16. Apart'
    <2>1. \A e, f \in Entries' : Listing(e)' /\ Listing(f)' /\ Old(e)' = Old(f)' => e = f
        BY <1>1, <1>9, <1>10 DEF Apart
    <2>2. ASSUME NEW e \in Entries', Told(e)'
          PROVE  ~IsCached(Old(e))' /\ New(e)' # Old(e)'
        <3>1. CASE e = x
            <4>1. Old(x)' = Entry
                BY <1>3, <1>10
            <4>2. v # Entry
                BY <1>1, <1>3, <1>4 DEF Taken, Null
            <4>3. ~IsCached(Old(e))'
                BY <1>6, <3>1, <4>1 DEF IsCached
            <4> QED
                BY <1>13, <3>1, <4>1, <4>2, <4>3
        <3>2. CASE e # x
            <4>1. Told(e) /\ e \in Entries
                BY <1>9, <1>12, <2>2, <3>2
            <4>2. ~IsCached(Old(e)) /\ New(e) # Old(e)
                BY <1>1, <4>1 DEF Apart
            <4>3. ~IsCached(Old(e))'
                BY <1>6, <1>10, <4>2 DEF IsCached
            <4> QED
                BY <1>10, <1>14, <3>2, <4>1, <4>2, <4>3
        <3> QED
            BY <3>1, <3>2
    <2> QED
        BY <2>1, <2>2 DEF Apart
<1>17. Types' /\ Taken'
    <2>1. TiTypes'
        BY <1>4, <1>5 DEF TiTypes, Null
    <2>2. HeldTypes' /\ ResultTypes'
        BY <1>1, <1>4, <1>5, TisGrows DEF Types, HeldTypes
    <2> QED
        BY <1>7, <2>1, <2>2 DEF Types, Taken
<1> QED
    BY <1>6, <1>15, <1>16, <1>17 DEF IInv


\* The steps of the job on one entry.
LEMMA KeepsStat == IInv /\ (Stat \/ ForcedUnique \/ Tell) => IInv'
<1> SUFFICES ASSUME IInv, Stat \/ ForcedUnique \/ Tell
             PROVE  IInv'
    OBVIOUS
<1>1. Types /\ job.i \in Nat /\ Len(job.tis) \in Nat
      /\ (job.pc # "idle" => job.i \in 1..Len(job.tis) + 1) /\ (job.pc \notin {"idle", "yield"} => job.i \in 1..Len(job.tis))
    BY DEF IInv, Types, JobTypes, Tis
<1>2. CASE Stat
    <2>1. job.pc = "yield" /\ job.i \in 1..Len(job.tis) /\ UNCHANGED <<held, result>>
        BY <1>1, <1>2 DEF Stat
    <2>2. CASE Forgotten(Now)
        BY <2>1, <2>2, KeepsForgotten
    <2>3. CASE \E place \in {"changed", "deleted"} : Store(RemovedTi(Now, Entry)) /\ At(place)
        BY <2>1, <2>3, KeepsChanged
    <2> QED
        BY <1>2, <2>2, <2>3 DEF Stat
<1>3. CASE ForcedUnique
    <2>1. job.pc = "changed" /\ job.i \in 1..Len(job.tis) /\ UNCHANGED <<held, result>>
        BY <1>1, <1>3 DEF ForcedUnique
    <2>2. CASE Forgotten(Now)
        BY <2>1, <2>2, KeepsForgotten
    <2>3. CASE At("read") /\ UNCHANGED <<ti, bucket>>
        BY <2>1, <2>3, KeepsAt
    <2> QED
        BY <1>3, <2>2, <2>3 DEF ForcedUnique
<1>4. CASE Tell
    <2>1. job.pc \in {"new", "deleted"} /\ job.i \in 1..Len(job.tis) /\ UNCHANGED <<held, result>>
        BY <1>1, <1>4 DEF Tell
    <2>2. CASE Forgotten(Now)
        BY <2>1, <2>2, KeepsForgotten
    <2>3. CASE job.pc = "new" /\ Forward(Ref([Now EXCEPT !.ti[Entry].next = Len(ti)], Len(ti)))
        <3>1. Len(ti) # Null
            <4>1. Entry \in DOMAIN ti /\ ti \in Seq(Track)
                BY <1>1, <2>1, AtEntry DEF Types, TiTypes
            <4> QED
                BY <4>1 DEF Null
        <3>2. Forward(Named(Now, Entry, Len(ti)))
            BY <2>3, <3>1 DEF Named, NextIn
        <3> QED
            BY <2>1, <2>3, <3>2, KeepsTold
    <2>4. CASE Forward([Now EXCEPT !.ti[Entry].next = Null])
        <3>1. Forward(Named(Now, Entry, Null))
            BY <2>4 DEF Named, NextIn
        <3> QED
            BY <2>1, <3>1, KeepsTold
    <2> QED
        BY <1>4, <2>2, <2>3, <2>4 DEF Tell
<1> QED
    BY <1>2, <1>3, <1>4

\* get_track_infos(true): the job takes a reference on every track of the cache.
LEMMA KeepsStartRefresh == IInv /\ StartRefresh => IInv'
<1> SUFFICES ASSUME IInv, StartRefresh
             PROVE  IInv'
    OBVIOUS
<1> DEFINE n == Len(result) + 1
<1>1. Types /\ Apart /\ RefsAreCounted /\ job = Idle
    BY DEF IInv, Types, JobTypes, StartRefresh
<1>2. PICK c : IsChain(ti, bucket, c)
    BY DEF IInv, Chained
<1>3. /\ ti \in Seq(Track) /\ Len(ti) \in Nat /\ DOMAIN ti = 1..Len(ti) /\ Len(ti) <= MaxTracks
      /\ \A u \in DOMAIN ti : ti[u].next \in 0..Len(ti)
    BY <1>1 DEF Types, TiTypes
<1>4. /\ Chain = c /\ c \in Seq(DOMAIN ti) /\ Len(c) \in Nat /\ DOMAIN c = 1..Len(c) /\ ToSet(c) \subseteq DOMAIN ti
      /\ \A i, j \in 1..Len(c) : c[i] = c[j] => i = j
      /\ \A u : IsCached(u) <=> \E i \in 1..Len(c) : c[i] = u
    <2>1. Chain = c
        BY <1>2, <1>3, ChainIs DEF Chain
    <2>2. c \in Seq(DOMAIN ti) /\ DOMAIN c = 1..Len(c) /\ Len(c) \in Nat
        BY <1>2 DEF IsChain
    <2>3. \A i, j \in 1..Len(c) : c[i] = c[j] => i = j
        BY <1>2, <2>2 DEF IsChain, IsInjective
    <2>4. ToSet(c) \subseteq DOMAIN ti
        BY <1>2, <1>3, ChainTracks
    <2>5. \A u : IsCached(u) <=> \E i \in 1..Len(c) : c[i] = u
        BY <2>1, <2>2 DEF IsCached, ToSet
    <2> QED
        BY <2>1, <2>2, <2>3, <2>4, <2>5
<1>5. PICK force \in BOOLEAN :
        /\ job' = [pc |-> "yield", force |-> force, tis |-> c, i |-> 1]
        /\ ti' = [t \in DOMAIN ti |-> IF IsCached(t) THEN [ti[t] EXCEPT !.refs = @ + 1] ELSE ti[t]]
        /\ UNCHANGED <<bucket, held, result>>
    BY <1>4 DEF StartRefresh
<1>6. /\ ti' \in Seq(Track) /\ Len(ti') = Len(ti) /\ DOMAIN ti' = DOMAIN ti
      /\ \A u \in DOMAIN ti : /\ ti'[u].next = ti[u].next
                              /\ ti'[u].refs = ti[u].refs + (IF IsCached(u) THEN 1 ELSE 0)
    <2>1. ASSUME NEW u \in DOMAIN ti
          PROVE  /\ ti'[u] \in Track /\ ti'[u].next = ti[u].next
                 /\ ti'[u].refs = ti[u].refs + (IF IsCached(u) THEN 1 ELSE 0)
        <3>1. ti[u] \in Track /\ ti[u].refs \in Int
            BY <1>3, TrackFields
        <3>2. /\ [ti[u] EXCEPT !.refs = @ + 1] \in Track
              /\ [ti[u] EXCEPT !.refs = @ + 1].next = ti[u].next
              /\ [ti[u] EXCEPT !.refs = @ + 1].refs = ti[u].refs + 1
            BY <3>1 DEF Track
        <3>3. ti'[u] = IF IsCached(u) THEN [ti[u] EXCEPT !.refs = @ + 1] ELSE ti[u]
            BY <1>5
        <3>4. CASE IsCached(u)
            BY <3>2, <3>3, <3>4
        <3>5. CASE ~IsCached(u)
            BY <3>1, <3>3, <3>5
        <3> QED
            BY <3>4, <3>5
    <2>2. DOMAIN ti' = 1..Len(ti)
        BY <1>3, <1>5
    <2>3. ti' \in Seq(Track) /\ Len(ti') = Len(ti)
        <3>1. ti' = [u \in 1..Len(ti) |-> ti'[u]]
            BY <1>3, <1>5
        <3>2. \A u \in 1..Len(ti) : ti'[u] \in Track
            BY <1>3, <2>1
        <3>3. ti' \in [1..Len(ti) -> Track]
            BY <3>1, <3>2
        <3> QED
            BY <1>3, <3>3
    <2> QED
        BY <1>3, <2>1, <2>2, <2>3
<1>7. Chain' = c /\ Chained' /\ \A u : IsCached(u)' <=> IsCached(u)
    <2>1. IsChain(ti', bucket', c)
        <3>1. \A u \in ToSet(c) : ti'[u].next = ti[u].next
            BY <1>4, <1>6
        <3> QED
            BY <1>2, <1>3, <1>5, <1>6, <3>1, SameLinks
    <2>2. Chain' = c
        BY <1>6, <2>1, ChainIs DEF Chain
    <2> QED
        BY <1>4, <2>1, <2>2 DEF Chained, IsCached

<1>8. /\ DOMAIN Pending = 1..n /\ DOMAIN Pending' = 1..n /\ n \in Nat
      /\ \A k \in 1..n : k # n => Pending'[k] = Pending[k]
      /\ Pending[n].tis = <<>> /\ Pending[n].i = 1
      /\ Pending'[n] = [kind |-> "job", tis |-> c, i |-> 1]
    <2>1. Pending' = Append(result, [kind |-> "job", tis |-> c, i |-> 1])
        BY <1>5 DEF Pending
    <2>2. result \in Seq([kind : {"add", "update"}, tis : Tis, i : Nat \ {0}])
        BY <1>1 DEF Types, ResultTypes
    <2>3. /\ DOMAIN Pending' = 1..n /\ Pending'[n] = [kind |-> "job", tis |-> c, i |-> 1]
          /\ \A k \in 1..Len(result) : Pending'[k] = result[k]
        BY <2>1, <2>2, PendingIs
    <2>4. \A k \in 1..n : k # n => k \in 1..Len(result)
        BY <1>1, PendingTypes
    <2>5. Pending[n].tis = <<>> /\ Pending[n].i = 1
        BY <1>1, PendingTypes DEF JobRecord, Idle
    <2> QED
        BY <1>1, <2>3, <2>4, <2>5, PendingTypes
<1>9. PICK X : X = {n} \X (1..Len(c))
    OBVIOUS
<1>10. ASSUME NEW e \in Entries
       PROVE  /\ e = <<e[1], e[2]>> /\ IsEntry(Pending, e[1], e[2]) /\ Old(e) \in DOMAIN ti
              /\ e[1] \in 1..n /\ e[1] # n /\ e \notin X /\ Pending'[e[1]] = Pending[e[1]]
    <2>1. e = <<e[1], e[2]>> /\ IsEntry(Pending, e[1], e[2]) /\ Old(e) \in DOMAIN ti /\ e[1] \in 1..n
        BY <1>1, <1>8, EntriesAre, EntryTypes DEF IsEntry
    <2>2. e[1] # n
        <3> SUFFICES ASSUME e[1] = n PROVE FALSE
            OBVIOUS
        <3>1. e[2] \in 1..Len(<<>>)
            BY <1>8, <2>1 DEF IsEntry
        <3> QED
            BY <3>1
    <2> QED
        BY <1>8, <1>9, <2>1, <2>2
<1>11. ASSUME NEW x \in X
       PROVE  /\ x = <<n, x[2]>> /\ x[2] \in 1..Len(c) /\ Old(x)' = c[x[2]] /\ New(x)' = Null
              /\ x \in Entries' /\ ~Told(x)'
    <2>1. x = <<n, x[2]>> /\ x[1] = n /\ x[2] \in 1..Len(c)
        BY <1>9
    <2>2. Pending'[n].tis = c /\ Pending'[n].i = 1 /\ Pending'[n].kind = "job"
        BY <1>8
    <2>3. Old(x)' = c[x[2]]
        BY <2>1, <2>2 DEF Old
    <2>4. ~Told(x)'
        <3>1. job'.i = 1 /\ ~(x[2] < 1)
            BY <1>4, <1>5, <2>1
        <3> QED
            BY <2>1, <2>2, <3>1 DEF Told
    <2>5. c[x[2]] # Null
        BY <1>3, <1>4, <2>1 DEF Null
    <2>6. x \in Entries'
        <3>1. IsEntry(Pending', n, x[2])
            BY <1>8, <2>1, <2>2, <2>5 DEF IsEntry
        <3> QED
            BY <2>1, <3>1, EntriesAre
    <2> QED
        BY <2>1, <2>3, <2>4, <2>6 DEF New
<1>12. Entries' = Entries \cup X /\ X \cap Entries = {}
    <2>1. ASSUME NEW e \in Entries PROVE e \in Entries' /\ e \notin X
        <3>1. IsEntry(Pending', e[1], e[2])
            BY <1>8, <1>10 DEF IsEntry
        <3> QED
            BY <1>10, <3>1, EntriesAre
    <2>2. ASSUME NEW e \in Entries', e \notin X PROVE e \in Entries
        <3>1. e = <<e[1], e[2]>> /\ IsEntry(Pending', e[1], e[2]) /\ e[1] \in 1..n
            BY <1>8, EntriesAre DEF IsEntry
        <3>2. e[1] # n
            <4> SUFFICES ASSUME e[1] = n PROVE FALSE
                OBVIOUS
            <4>1. e[2] \in 1..Len(c)
                BY <1>8, <3>1 DEF IsEntry
            <4>2. e \in X
                BY <1>9, <3>1, <4>1
            <4> QED
                BY <2>2, <4>2
        <3>3. IsEntry(Pending, e[1], e[2])
            BY <1>8, <3>1, <3>2 DEF IsEntry
        <3> QED
            BY <3>1, <3>3, EntriesAre
    <2> QED
        BY <1>11, <2>1, <2>2
<1>13. ASSUME NEW e \in Entries
       PROVE  (Old(e)' = Old(e)) /\ (Told(e)' <=> Told(e)) /\ (Listing(e)' <=> Listing(e)) /\ (New(e)' = New(e))
              /\ (Listing(e) => Told(e))
    <2>1. Old(e)' = Old(e) /\ (Listing(e)' <=> Listing(e))
        BY <1>10 DEF Old, Listing
    <2>2. Pending[e[1]].kind \in {"add", "update"}
        <3>1. e[1] \in 1..Len(result)
            BY <1>1, <1>10, PendingTypes
        <3> QED
            BY <1>1, <3>1, PendingTypes
    <2>3. (Told(e)' <=> Told(e)) /\ (Listing(e) => Told(e))
        BY <1>10, <2>2 DEF Told, Listing
    <2>4. New(e)' = New(e)
        BY <1>6, <1>10, <2>1, <2>3 DEF New
    <2> QED
        BY <2>1, <2>3, <2>4
<1>14. \A x, y \in X : Old(x)' = Old(y)' => x = y
    <2> SUFFICES ASSUME NEW x \in X, NEW y \in X, Old(x)' = Old(y)' PROVE x = y
        OBVIOUS
    <2>1. x[2] = y[2]
        BY <1>4, <1>11
    <2> QED
        BY <1>11, <2>1
<1>15. ASSUME NEW u \in DOMAIN ti
       PROVE  GivenBack(u)' = GivenBack(u) + (IF IsCached(u) THEN 1 ELSE 0)
    <2>1. u \in Ids
        BY <1>3, MaxTracksAssumption DEF Ids
    <2>2. GivenBack(u)' = GivenBack(u) + One(\E x \in X : Old(x)' = u)
        BY <1>1, <1>11, <1>12, <1>13, <1>14, <2>1, GivenMore
    <2>3. (\E x \in X : Old(x)' = u) <=> IsCached(u)
        <3>1. ASSUME NEW i \in 1..Len(c), c[i] = u PROVE \E x \in X : Old(x)' = u
            <4>1. <<n, i>> \in X /\ <<n, i>>[2] = i
                BY <1>9
            <4>2. PICK x : x = <<n, i>>
                OBVIOUS
            <4>3. x \in X /\ Old(x)' = u
                BY <1>11, <3>1, <4>1, <4>2
            <4> QED
                BY <4>3
        <3>2. ASSUME NEW x \in X, Old(x)' = u PROVE \E i \in 1..Len(c) : c[i] = u
            BY <1>11, <3>2
        <3> QED
            BY <1>4, <3>1, <3>2
    <2> QED
        BY <2>2, <2>3 DEF One
<1>16. RefsAreCounted'
    <2> SUFFICES ASSUME NEW u \in DOMAIN ti'
                 PROVE  ti'[u].refs = held'[u] + GivenBack(u)' + (IF IsCached(u)' THEN 1 ELSE 0)
        BY DEF RefsAreCounted
    <2>1. u \in DOMAIN ti /\ u \in Ids
        BY <1>3, <1>6, MaxTracksAssumption DEF Ids
    <2>2. held[u] \in Nat /\ GivenBack(u) \in Nat /\ held'[u] = held[u]
        BY <1>1, <1>5, <2>1, GivenNat DEF Types, HeldTypes
    <2>3. ti[u].refs = held[u] + GivenBack(u) + (IF IsCached(u) THEN 1 ELSE 0)
        BY <1>1, <2>1 DEF RefsAreCounted
    <2>4. ti'[u].refs = ti[u].refs + (IF IsCached(u) THEN 1 ELSE 0)
        BY <1>6, <2>1
    <2> QED
        BY <1>7, <1>15, <2>1, <2>2, <2>3, <2>4
<1>17. Apart'
    <2>1. ASSUME NEW e \in Entries', NEW f \in Entries', Listing(e)', Listing(f)', Old(e)' = Old(f)'
          PROVE  e = f
        <3>1. ASSUME NEW y \in Entries, NEW x \in X, Listing(y) PROVE Old(y)' # Old(x)'
            <4>1. ~IsCached(Old(y)) /\ Old(y)' = Old(y)
                BY <1>1, <1>13, <3>1 DEF Apart
            <4>2. Old(x)' = c[x[2]] /\ x[2] \in 1..Len(c)
                BY <1>11
            <4> QED
                BY <1>4, <4>1, <4>2
        <3>2. CASE e \in Entries /\ f \in Entries
            BY <1>1, <1>13, <2>1, <3>2 DEF Apart
        <3>3. CASE e \in X /\ f \in X
            BY <1>14, <2>1, <3>3
        <3>4. CASE e \in Entries /\ f \in X
            BY <1>13, <2>1, <3>1, <3>4
        <3>5. CASE e \in X /\ f \in Entries
            BY <1>13, <2>1, <3>1, <3>5
        <3> QED
            BY <1>12, <3>2, <3>3, <3>4, <3>5
    <2>2. ASSUME NEW e \in Entries', Told(e)'
          PROVE  ~IsCached(Old(e))' /\ New(e)' # Old(e)'
        <3>1. e \in Entries /\ Told(e)
            BY <1>11, <1>12, <1>13, <2>2
        <3>2. ~IsCached(Old(e)) /\ New(e) # Old(e)
            BY <1>1, <3>1 DEF Apart
        <3>3. ~IsCached(Old(e))'
            BY <1>4, <1>7, <1>13, <3>1, <3>2 DEF IsCached
        <3> QED
            BY <1>13, <3>1, <3>2, <3>3
    <2> QED
        BY <2>1, <2>2 DEF Apart
<1>18. Types' /\ Taken'
    <2>1. TiTypes'
        BY <1>3, <1>6 DEF TiTypes
    <2>2. HeldTypes' /\ ResultTypes'
        BY <1>1, <1>3, <1>5, <1>6, TisGrows DEF Types, HeldTypes
    <2>3. JobTypes'
        <3>1. c \in Tis'
            <4>1. DOMAIN ti \subseteq 0..Len(ti')
                BY <1>3, <1>6
            <4> QED
                BY <1>4, <4>1 DEF Tis
        <3>2. /\ job' \in [pc : {"idle", "yield", "changed", "read", "new", "deleted"}, force : BOOLEAN, tis : Tis', i : Nat]
              /\ job'.pc = "yield" /\ job'.i = 1 /\ job'.tis = c
            BY <1>5, <3>1
        <3>3. \A i \in 1..Len(c) : c[i] # Null
            BY <1>3, <1>4 DEF Null
        <3> QED
            BY <1>4, <3>2, <3>3 DEF JobTypes
    <2>4. Taken'
        BY <1>5 DEF Taken
    <2> QED
        BY <2>1, <2>2, <2>3, <2>4 DEF Types
<1> QED
    BY <1>7, <1>16, <1>17, <1>18 DEF IInv


\* The end of the job: its entries are a result, all of them told.
LEMMA KeepsEndRefresh == IInv /\ EndRefresh => IInv'
<1> SUFFICES ASSUME IInv, EndRefresh
             PROVE  IInv'
    OBVIOUS
<1> DEFINE n == Len(result) + 1
           update == [kind |-> "update", tis |-> job.tis, i |-> 1]
<1>1. Types /\ Apart /\ RefsAreCounted /\ Chained
    BY DEF IInv
<1>2. /\ job.pc = "yield" /\ job.i > Len(job.tis) /\ UNCHANGED <<ti, bucket, held>>
      /\ result' = Append(result, update) /\ job' = Idle
    BY DEF EndRefresh
<1>3. /\ job.tis \in Tis /\ job.i \in Nat /\ Len(job.tis) \in Nat /\ Tis' = Tis
      /\ result \in Seq([kind : {"add", "update"}, tis : Tis, i : Nat \ {0}]) /\ Len(result) \in Nat
    BY <1>1, <1>2 DEF Types, JobTypes, ResultTypes, Tis
<1>4. /\ result' \in Seq([kind : {"add", "update"}, tis : Tis, i : Nat \ {0}])
      /\ Len(result') = n /\ result'[n] = update /\ \A k \in 1..Len(result) : result'[k] = result[k]
    <2>1. update \in [kind : {"add", "update"}, tis : Tis, i : Nat \ {0}]
        BY <1>3
    <2> DEFINE Results == [kind : {"add", "update"}, tis : Tis, i : Nat \ {0}]
    <2>2. result \in Seq(Results) /\ update \in Results
        BY <1>3, <2>1
    <2> HIDE DEF Results, update
    <2>3. Append(result, update) \in Seq(Results)
        BY <2>2
    <2>4. Len(Append(result, update)) = n /\ Append(result, update)[n] = update
          /\ \A k \in 1..Len(result) : Append(result, update)[k] = result[k]
        BY <2>2
    <2> QED
        BY <1>2, <2>3, <2>4 DEF Results
<1>5. /\ DOMAIN Pending = 1..n /\ Pending[n] = JobRecord(job) /\ DOMAIN Pending' = 1..n + 1 /\ n \in Nat
      /\ Pending'[n] = update /\ Pending'[n + 1] = JobRecord(Idle)
      /\ \A k \in 1..n : k # n => Pending'[k] = Pending[k] /\ Pending[k].kind \in {"add", "update"}
    <2>1. Pending' = Append(result', JobRecord(Idle))
        BY <1>2 DEF Pending, JobRecord
    <2>2. /\ DOMAIN Pending' = 1..n + 1 /\ Pending'[n + 1] = JobRecord(Idle)
          /\ \A k \in 1..n : Pending'[k] = result'[k]
        BY <1>4, <2>1, PendingIs
    <2>3. n \in Nat /\ \A k \in 1..n : k # n => k \in 1..Len(result)
        BY <1>3
    <2>4. DOMAIN Pending = 1..n /\ Pending[n] = JobRecord(job)
        BY <1>1, PendingTypes
    <2>5. \A k \in 1..Len(result) : Pending[k] = result[k] /\ Pending[k].kind \in {"add", "update"}
        BY <1>1, PendingTypes
    <2>6. n \in 1..n
        BY <2>3
    <2>7. Pending'[n] = update
        BY <1>4, <2>2, <2>6
    <2>8. \A k \in 1..n : k # n => Pending'[k] = Pending[k] /\ Pending[k].kind \in {"add", "update"}
        BY <1>4, <2>2, <2>3, <2>5
    <2> HIDE DEF update, n
    <2> QED
        BY <2>2, <2>3, <2>4, <2>7, <2>8
<1>6. \A k \in 1..n : Pending'[k].tis = Pending[k].tis /\ Pending'[k].i = Pending[k].i
    BY <1>5 DEF JobRecord
<1>7. Entries' = Entries
    <2>1. ASSUME NEW e \in Entries PROVE e \in Entries'
        <3>1. e = <<e[1], e[2]>> /\ IsEntry(Pending, e[1], e[2])
            BY EntriesAre
        <3>2. IsEntry(Pending', e[1], e[2])
            BY <1>5, <1>6, <3>1 DEF IsEntry
        <3> QED
            BY <3>1, <3>2, EntriesAre
    <2>2. ASSUME NEW e \in Entries' PROVE e \in Entries
        <3>1. e = <<e[1], e[2]>> /\ IsEntry(Pending', e[1], e[2]) /\ e[1] \in 1..n + 1
            BY <1>5, EntriesAre DEF IsEntry
        <3>2. e[1] # n + 1
            <4> SUFFICES ASSUME e[1] = n + 1 PROVE FALSE
                OBVIOUS
            <4>1. e[2] \in 1..Len(<<>>)
                BY <1>5, <3>1 DEF IsEntry, JobRecord, Idle
            <4> QED
                BY <4>1
        <3>3. e[1] \in 1..n
            BY <1>5, <3>1, <3>2
        <3>4. IsEntry(Pending, e[1], e[2])
            BY <1>5, <1>6, <3>1, <3>3 DEF IsEntry
        <3> QED
            BY <3>1, <3>4, EntriesAre
    <2> QED
        BY <2>1, <2>2
<1>8. ASSUME NEW e \in Entries
      PROVE  (Old(e)' = Old(e)) /\ (Told(e)' <=> Told(e)) /\ (Listing(e)' <=> Listing(e)) /\ (New(e)' = New(e))
    <2>1. e = <<e[1], e[2]>> /\ IsEntry(Pending, e[1], e[2]) /\ e[1] \in 1..n /\ e[2] \in Nat
        BY <1>1, <1>5, EntriesAre, EntryTypes DEF IsEntry
    <2>2. Old(e)' = Old(e)
        BY <1>6, <2>1 DEF Old
    <2>3. (Told(e)' <=> Told(e)) /\ (Listing(e)' <=> Listing(e))
        <3>1. CASE e[1] = n
            <4>1. e[2] < job.i
                <5>1. e[2] <= Len(job.tis)
                    BY <1>3, <1>5, <2>1, <3>1 DEF IsEntry, JobRecord
                <5> QED
                    BY <1>2, <1>3, <2>1, <5>1
            <4> QED
                BY <1>5, <3>1, <4>1 DEF Told, Listing, JobRecord
        <3>2. CASE e[1] # n
            <4>1. Pending'[e[1]] = Pending[e[1]] /\ Pending[e[1]].kind \in {"add", "update"}
                BY <1>5, <2>1, <3>2
            <4> QED
                BY <4>1 DEF Told, Listing
        <3> QED
            BY <3>1, <3>2
    <2>4. New(e)' = New(e)
        BY <1>2, <2>2, <2>3 DEF New
    <2> QED
        BY <2>2, <2>3, <2>4
<1>9. \A u : (GivenBack(u)' = GivenBack(u)) /\ (IsCached(u)' <=> IsCached(u))
    <2>1. Chain' = Chain
        BY <1>2 DEF Chain
    <2>2. \A u : IsCached(u)' <=> IsCached(u)
        BY <2>1 DEF IsCached
    <2> QED
        BY <1>7, <1>8, <2>2, GivenSame
<1>10. RefsAreCounted'
    BY <1>1, <1>2, <1>9 DEF RefsAreCounted
<1>11. Apart'
    <2>1. \A e, f \in Entries' : Listing(e)' /\ Listing(f)' /\ Old(e)' = Old(f)' => e = f
        BY <1>1, <1>7, <1>8 DEF Apart
    <2>2. \A e \in Entries' : Told(e)' => ~IsCached(Old(e))' /\ New(e)' # Old(e)'
        <3> SUFFICES ASSUME NEW e \in Entries', Told(e)' PROVE ~IsCached(Old(e))' /\ New(e)' # Old(e)'
            OBVIOUS
        <3>1. e \in Entries /\ Told(e) /\ Old(e)' = Old(e) /\ New(e)' = New(e)
            BY <1>7, <1>8
        <3>2. ~IsCached(Old(e))' 
            BY <1>1, <1>2, <3>1 DEF Apart, IsCached, Chain
        <3> QED
            BY <1>1, <3>1, <3>2 DEF Apart
    <2> QED
        BY <2>1, <2>2 DEF Apart
<1>12. Types'
    <2>1. ResultTypes'
        <3>1. ASSUME NEW k \in 1..Len(result')
              PROVE  /\ result'[k].i <= Len(result'[k].tis) + 1
                     /\ result'[k].kind = "add"
                          => Len(result'[k].tis) = 1 /\ result'[k].i = 1 /\ result'[k].tis[1] # Null
            <4>1. CASE k = n
                BY <1>3, <1>4, <4>1
            <4>2. CASE k # n
                <5>1. k \in 1..Len(result)
                    BY <1>3, <1>4, <4>2
                <5> QED
                    BY <1>1, <1>4, <5>1 DEF Types, ResultTypes
            <4> QED
                BY <4>1, <4>2
        <3> QED
            BY <1>3, <1>4, <3>1 DEF ResultTypes
    <2>2. JobTypes'
        <3>1. <<>> \in Tis' /\ Len(<<>>) = 0
            BY DEF Tis
        <3>2. /\ job' = [pc |-> "idle", force |-> FALSE, tis |-> <<>>, i |-> 0]
              /\ job'.pc = "idle" /\ job'.tis = <<>>
            BY <1>2 DEF Idle
        <3> QED
            BY <1>2, <3>1, <3>2 DEF JobTypes
    <2>3. TiTypes' /\ HeldTypes'
        BY <1>1, <1>2 DEF Types, TiTypes, HeldTypes
    <2> QED
        BY <2>1, <2>2, <2>3 DEF Types
<1>13. Chained' /\ Taken'
    BY <1>1, <1>2 DEF Chained, Taken, Idle
<1> QED
    BY <1>10, <1>11, <1>12, <1>13 DEF IInv


\* The first result goes: what is pending moves up.
LEMMA Shifts ==
    ASSUME Types, result # <<>>, result' = Tail(result), UNCHANGED <<ti, bucket, job>>
    PROVE  /\ ResultTypes' /\ JobTypes' /\ TiTypes' /\ (Taken <=> Taken')
           /\ \A e \in Entries : e[1] # 1 =>
                 /\ Shift(e) \in Entries' /\ Old(Shift(e))' = Old(e) /\ New(Shift(e))' = New(e)
                 /\ (Told(Shift(e))' <=> Told(e)) /\ (Listing(Shift(e))' <=> Listing(e))
           /\ \A e \in Entries' : \E x \in Entries : x[1] # 1 /\ e = Shift(x)
<1> DEFINE n == Len(result)
           Results == [kind : {"add", "update"}, tis : Tis, i : Nat \ {0}]
<1>1. result \in Seq(Results) /\ n \in Nat \ {0} /\ Tis' = Tis
    BY DEF Types, ResultTypes, Tis
<1>2. /\ result' \in Seq(Results) /\ Len(result') = n - 1
      /\ \A k \in 1..n - 1 : result'[k] = result[k + 1] /\ k + 1 \in 1..n
    <2> HIDE DEF Results
    <2> QED
        BY <1>1
<1>3. /\ DOMAIN Pending = 1..n + 1 /\ DOMAIN Pending' = 1..n
      /\ \A k \in 1..n : Pending'[k] = Pending[k + 1]
    <2>1. Pending' = Append(result', JobRecord(job))
        BY DEF Pending, JobRecord
    <2>2. /\ DOMAIN Pending' = 1..n /\ Pending'[n] = JobRecord(job)
          /\ \A k \in 1..n - 1 : Pending'[k] = result'[k]
        <3>1. Len(result') + 1 = n
            BY <1>1, <1>2
        <3>2. /\ DOMAIN Pending' = 1..Len(result') + 1 /\ Pending'[Len(result') + 1] = JobRecord(job)
              /\ \A k \in 1..Len(result') : Pending'[k] = result'[k]
            BY <1>2, <2>1, PendingIs
        <3> QED
            BY <1>2, <3>1, <3>2
    <2>3. /\ DOMAIN Pending = 1..n + 1 /\ Pending[n + 1] = JobRecord(job)
          /\ \A k \in 1..n : Pending[k] = result[k]
        BY PendingTypes
    <2>4. ASSUME NEW k \in 1..n PROVE Pending'[k] = Pending[k + 1]
        <3>1. CASE k = n
            BY <2>2, <2>3, <3>1
        <3>2. CASE k # n
            <4>1. k \in 1..n - 1
                BY <1>1, <3>2
            <4> QED
                BY <1>2, <2>2, <2>3, <4>1
        <3> QED
            BY <3>1, <3>2
    <2> QED
        BY <2>2, <2>3, <2>4
<1>4. ASSUME NEW e \in Entries, e[1] # 1
      PROVE  /\ Shift(e) \in Entries' /\ Old(Shift(e))' = Old(e) /\ New(Shift(e))' = New(e)
             /\ (Told(Shift(e))' <=> Told(e)) /\ (Listing(Shift(e))' <=> Listing(e))
    <2>1. e = <<e[1], e[2]>> /\ IsEntry(Pending, e[1], e[2]) /\ e[1] \in 1..n + 1
        BY <1>3, EntriesAre DEF IsEntry
    <2>2. PICK f : f = <<e[1] - 1, e[2]>>
        OBVIOUS
    <2>3. f[1] \in 1..n /\ f[1] + 1 = e[1] /\ f[2] = e[2] /\ f = Shift(e)
        BY <1>1, <1>4, <2>1, <2>2 DEF Shift
    <2>4. Pending'[f[1]] = Pending[e[1]]
        BY <1>3, <2>3
    <2>5. IsEntry(Pending', f[1], f[2])
        BY <1>3, <2>1, <2>3, <2>4 DEF IsEntry
    <2>6. f \in Entries' /\ Old(f)' = Old(e)
        BY <2>2, <2>3, <2>4, <2>5, EntriesAre DEF Old
    <2>7. (Told(f)' <=> Told(e)) /\ (Listing(f)' <=> Listing(e))
        BY <2>3, <2>4 DEF Told, Listing
    <2>8. New(f)' = New(e)
        BY <2>6, <2>7 DEF New
    <2> QED
        BY <2>3, <2>6, <2>7, <2>8
<1>5. ASSUME NEW e \in Entries'
      PROVE  \E x \in Entries : x[1] # 1 /\ e = Shift(x)
    <2>1. e = <<e[1], e[2]>> /\ IsEntry(Pending', e[1], e[2]) /\ e[1] \in 1..n
        BY <1>3, EntriesAre DEF IsEntry
    <2>2. PICK x : x = <<e[1] + 1, e[2]>>
        OBVIOUS
    <2>3. x[1] = e[1] + 1 /\ x[2] = e[2] /\ x[1] \in DOMAIN Pending /\ x[1] # 1 /\ Pending'[e[1]] = Pending[x[1]]
        BY <1>1, <1>3, <2>1, <2>2
    <2>4. IsEntry(Pending, x[1], x[2])
        BY <2>1, <2>3 DEF IsEntry
    <2>5. x \in Entries
        BY <2>2, <2>3, <2>4, EntriesAre
    <2>6. e = Shift(x)
        <3>1. x[1] - 1 = e[1]
            BY <1>1, <2>1, <2>3
        <3> QED
            BY <2>1, <2>3, <3>1 DEF Shift
    <2> QED
        BY <2>3, <2>5, <2>6
<1>6. ResultTypes'
    <2>1. ASSUME NEW k \in 1..Len(result')
          PROVE  /\ result'[k].i <= Len(result'[k].tis) + 1
                 /\ result'[k].kind = "add"
                      => Len(result'[k].tis) = 1 /\ result'[k].i = 1 /\ result'[k].tis[1] # Null
        <3>1. k + 1 \in 1..Len(result) /\ result'[k] = result[k + 1]
            BY <1>2
        <3> QED
            BY <3>1 DEF Types, ResultTypes
    <2> QED
        BY <1>1, <1>2, <2>1 DEF ResultTypes
<1>7. JobTypes' /\ TiTypes' /\ (Taken <=> Taken')
    <2>1. Chain' = Chain
        BY DEF Chain
    <2>2. Taken <=> Taken'
        BY <2>1 DEF Taken, IsCached, Entry
    <2> QED
        BY <1>1, <2>2 DEF Types, JobTypes, TiTypes
<1> QED
    BY <1>4, <1>5, <1>6, <1>7

\* How many references of u are in X, when X is one entry or none.
OldIn(X, u) == IF \E x \in X : Old(x) = u THEN 1 ELSE 0
NewIn(X, u) == IF \E x \in X : New(x) = u THEN 1 ELSE 0

\* The first result goes, and the lists keep what it still had, an entry or none.
LEMMA KeepsDropped ==
    ASSUME IInv, result # <<>>, result' = Tail(result), UNCHANGED <<ti, bucket, job>>,
           NEW X, X = {e \in Entries : e[1] = 1}, \A x, y \in X : x = y,
           held' \in [Ids -> Nat],
           \A u \in Ids : held'[u] = held[u] + OldIn(X, u)
                                             + NewIn(X, u)
    PROVE  IInv'
<1>1. Types /\ Apart /\ Taken /\ RefsAreCounted /\ Chained
    BY DEF IInv
<1>2. /\ ResultTypes' /\ JobTypes' /\ TiTypes' /\ Taken'
      /\ \A e \in Entries \ X :
            /\ Shift(e) \in Entries' /\ Old(Shift(e))' = Old(e) /\ New(Shift(e))' = New(e)
            /\ (Told(Shift(e))' <=> Told(e)) /\ (Listing(Shift(e))' <=> Listing(e))
      /\ \A e \in Entries' : \E x \in Entries \ X : e = Shift(x)
    BY <1>1, Shifts
<1>3. \A u : (IsCached(u)' <=> IsCached(u))
    BY DEF Chain, IsCached
<1>4. /\ \A x \in X : Old(x) \in DOMAIN ti /\ New(x) \in 0..Len(ti)
      /\ DOMAIN ti = 1..Len(ti) /\ DOMAIN ti \subseteq Ids /\ 0 \notin Ids /\ Len(ti) \in Nat
    <2>1. ti \in Seq(Track) /\ Len(ti) <= MaxTracks
        BY <1>1 DEF Types, TiTypes
    <2> QED
        BY <1>1, <2>1, EntryTypes, MaxTracksAssumption DEF Ids
<1>5. RefsAreCounted'
    <2> SUFFICES ASSUME NEW u \in DOMAIN ti'
                 PROVE  ti'[u].refs = held'[u] + GivenBack(u)' + (IF IsCached(u)' THEN 1 ELSE 0)
        BY DEF RefsAreCounted
    <2>1. u \in DOMAIN ti /\ u \in Ids
        BY <1>4
    <2>2. GivenBack(u)' = GivenBack(u) - OldIn(X, u)
                                       - NewIn(X, u)
        <3>1. X \subseteq Entries
            OBVIOUS
        <3> QED
            BY <1>1, <1>2, <3>1, GivenShift DEF OldIn, NewIn
    <2>3. held[u] \in Nat /\ GivenBack(u) \in Nat
        BY <1>1, <2>1, GivenNat DEF Types, HeldTypes
    <2>4. ti[u].refs = held[u] + GivenBack(u) + (IF IsCached(u) THEN 1 ELSE 0)
        BY <1>1, <2>1 DEF RefsAreCounted
    <2>5. held'[u] = held[u] + OldIn(X, u)
                             + NewIn(X, u)
        BY <2>1
    <2>6. PICK a \in Nat : a = OldIn(X, u)
        BY DEF OldIn
    <2>7. PICK b \in Nat : b = NewIn(X, u)
        BY DEF NewIn
    <2>8. /\ GivenBack(u)' = GivenBack(u) - a - b /\ held'[u] = held[u] + a + b
          /\ ti'[u].refs = held[u] + GivenBack(u) + (IF IsCached(u) THEN 1 ELSE 0)
        BY <2>2, <2>4, <2>5, <2>6, <2>7
    <2> QED
        BY <1>3, <2>3, <2>8
<1>6. Apart'
    <2>1. ASSUME NEW e \in Entries', NEW f \in Entries', Listing(e)', Listing(f)', Old(e)' = Old(f)'
          PROVE  e = f
        <3>1. PICK x \in Entries \ X : e = Shift(x)
            BY <1>2
        <3>2. PICK y \in Entries \ X : f = Shift(y)
            BY <1>2
        <3>3. Listing(x) /\ Listing(y) /\ Old(x) = Old(y)
            BY <1>2, <2>1, <3>1, <3>2
        <3>4. x = y
            BY <1>1, <3>3 DEF Apart
        <3> QED
            BY <3>1, <3>2, <3>4
    <2>2. ASSUME NEW e \in Entries', Told(e)'
          PROVE  ~IsCached(Old(e))' /\ New(e)' # Old(e)'
        <3>1. PICK x \in Entries \ X : e = Shift(x)
            BY <1>2
        <3>2. Told(x) /\ Old(e)' = Old(x) /\ New(e)' = New(x)
            BY <1>2, <2>2, <3>1
        <3>3. ~IsCached(Old(x)) /\ New(x) # Old(x)
            BY <1>1, <3>2 DEF Apart
        <3>4. ~IsCached(Old(e))'
            BY <3>2, <3>3 DEF IsCached, Chain
        <3> QED
            BY <3>2, <3>3, <3>4
    <2> QED
        BY <2>1, <2>2 DEF Apart
<1>7. HeldTypes'
    <2>1. ASSUME NEW u \in Ids \ DOMAIN ti PROVE held'[u] = 0
        <3>1. \A x \in X : Old(x) # u /\ New(x) # u
            BY <1>4
        <3>2. held[u] = 0
            BY <1>1 DEF Types, HeldTypes
        <3> QED
            BY <3>1, <3>2 DEF OldIn, NewIn
    <2> QED
        BY <2>1 DEF HeldTypes
<1> QED
    BY <1>1, <1>2, <1>5, <1>6, <1>7 DEF IInv, Types, Chained


\* The result of an add job: the lists take the reference over.
LEMMA KeepsHandleAdd == IInv /\ HandleAdd => IInv'
<1> SUFFICES ASSUME IInv, HandleAdd
             PROVE  IInv'
    OBVIOUS
<1>1. Types
    BY DEF IInv
<1>0. PICK t : t = Head(result).tis[1]
    OBVIOUS
<1>2. /\ t = result[1].tis[1] /\ result # <<>> /\ result[1].kind = "add" /\ result' = Tail(result)
      /\ held' = [held EXCEPT ![t] = @ + 1] /\ UNCHANGED <<ti, bucket, job>>
    BY <1>0 DEF HandleAdd
<1>3. PICK X : X = {e \in Entries : e[1] = 1}
    OBVIOUS
<1>4. /\ result \in Seq([kind : {"add", "update"}, tis : Tis, i : Nat \ {0}])
      /\ 1 \in 1..Len(result) /\ 1 \in DOMAIN Pending /\ Pending[1] = result[1]
    <2>1. result \in Seq([kind : {"add", "update"}, tis : Tis, i : Nat \ {0}]) /\ Len(result) \in Nat
        BY <1>1 DEF Types, ResultTypes
    <2>2. 1 \in 1..Len(result) /\ 1 \in 1..Len(result) + 1
        BY <1>2, <2>1
    <2> QED
        BY <1>1, <2>1, <2>2, PendingTypes
<1>5. Len(result[1].tis) = 1 /\ result[1].i = 1 /\ t # Null
    BY <1>1, <1>2, <1>4 DEF Types, ResultTypes
<1>6. PICK x : x = <<1, 1>>
    OBVIOUS
<1>7. x \in Entries /\ Old(x) = t /\ New(x) = Null /\ t \in DOMAIN ti
    <2>1. IsEntry(Pending, 1, 1)
        BY <1>2, <1>4, <1>5 DEF IsEntry
    <2>2. x \in Entries
        BY <1>6, <2>1, EntriesAre
    <2>3. Old(x) = t /\ ~Told(x)
        BY <1>2, <1>4, <1>6 DEF Old, Told
    <2> QED
        BY <1>1, <2>2, <2>3, EntryTypes DEF New
<1>8. X = {x}
    <2>1. ASSUME NEW e \in X PROVE e = x
        <3>1. e = <<e[1], e[2]>> /\ e[1] = 1 /\ IsEntry(Pending, e[1], e[2])
            BY <1>3, EntriesAre
        <3>2. e[2] \in 1..1
            BY <1>4, <1>5, <3>1 DEF IsEntry
        <3> QED
            BY <1>6, <3>1, <3>2
    <2> QED
        BY <1>3, <1>6, <1>7, <2>1
<1>9. /\ held' \in [Ids -> Nat]
      /\ \A u \in Ids : held'[u] = held[u] + OldIn(X, u)
                                           + NewIn(X, u)
    <2>1. t \in Ids /\ held \in [Ids -> Nat]
        BY <1>1, <1>7, MaxTracksAssumption DEF Types, TiTypes, HeldTypes, Ids
    <2>2. held' \in [Ids -> Nat] /\ \A u \in Ids : held'[u] = held[u] + (IF u = t THEN 1 ELSE 0)
        BY <1>2, <2>1
    <2>3. ASSUME NEW u \in Ids
          PROVE  ((\E y \in X : Old(y) = u) <=> u = t) /\ ~ (\E y \in X : New(y) = u)
        BY <1>7, <1>8 DEF Ids, Null
    <2>4. \A u \in Ids : held[u] \in Nat
        BY <2>1
    <2> QED
        BY <2>2, <2>3, <2>4 DEF OldIn, NewIn
<1>10. \A y, z \in X : y = z
    BY <1>8
<1> QED
    BY <1>2, <1>3, <1>9, <1>10, KeepsDropped

\* The end of an update: all its entries have been handled.
LEMMA KeepsEndUpdate == IInv /\ EndUpdate => IInv'
<1> SUFFICES ASSUME IInv, EndUpdate
             PROVE  IInv'
    OBVIOUS
<1>1. Types
    BY DEF IInv
<1>2. /\ result # <<>> /\ result[1].i > Len(result[1].tis) /\ result' = Tail(result)
      /\ UNCHANGED <<ti, bucket, held, job>>
    BY DEF EndUpdate
<1>3. PICK X : X = {e \in Entries : e[1] = 1}
    OBVIOUS
<1>4. /\ result[1].i \in Nat /\ Len(result[1].tis) \in Nat /\ Pending[1] = result[1]
    <2>1. result \in Seq([kind : {"add", "update"}, tis : Tis, i : Nat \ {0}]) /\ Len(result) \in Nat
        BY <1>1 DEF Types, ResultTypes
    <2>2. 1 \in 1..Len(result)
        BY <1>2, <2>1
    <2>3. result[1].i \in Nat /\ result[1].tis \in Tis
        <3> DEFINE Results == [kind : {"add", "update"}, tis : Tis, i : Nat \ {0}]
        <3>1. \A r \in Results : r.i \in Nat /\ r.tis \in Tis
            OBVIOUS
        <3>2. result \in Seq(Results)
            BY <2>1
        <3> HIDE DEF Results
        <3>3. result[1] \in Results
            BY <2>2, <3>2
        <3> QED
            BY <3>1, <3>3
    <2> QED
        BY <1>1, <2>2, <2>3, PendingTypes DEF Tis
<1>5. X = {}
    <2> SUFFICES ASSUME NEW e \in X PROVE FALSE
        OBVIOUS
    <2>1. e[2] \in result[1].i..Len(result[1].tis)
        BY <1>3, <1>4, EntriesAre DEF IsEntry
    <2> QED
        BY <1>2, <1>4, <2>1
<1>6. /\ held' \in [Ids -> Nat]
      /\ \A u \in Ids : held'[u] = held[u] + OldIn(X, u)
                                           + NewIn(X, u)
    <2>1. held \in [Ids -> Nat] /\ held' = held
        BY <1>1, <1>2 DEF Types, HeldTypes
    <2>2. \A u \in Ids : held[u] \in Nat
        BY <2>1
    <2>3. \A u : OldIn(X, u) = 0 /\ NewIn(X, u) = 0
        BY <1>5 DEF OldIn, NewIn
    <2> QED
        BY <2>1, <2>2, <2>3
<1>7. \A y, z \in X : y = z
    BY <1>5
<1> QED
    BY <1>2, <1>3, <1>6, <1>7, KeepsDropped


\* An add job that finds its file: the result has a reference.
LEMMA KeepsAdded ==
    ASSUME IInv, job = Idle, NEW c, IsChain(ti, bucket, c), NEW d, NEW t \in DOMAIN ti',
           Moves(ti, c, ti', bucket', d, t, 1), Len(ti') <= MaxTracks,
           result' = Append(result, [kind |-> "add", tis |-> <<t>>, i |-> 1]), UNCHANGED <<held, job>>
    PROVE  IInv'
<1> DEFINE n == Len(result) + 1
           add == [kind |-> "add", tis |-> <<t>>, i |-> 1]
<1>1. Types /\ Apart /\ RefsAreCounted
    BY DEF IInv
<1>2. /\ TiTypes' /\ Chained' /\ DOMAIN ti' = 1..Len(ti') /\ DOMAIN ti \subseteq DOMAIN ti' /\ DOMAIN ti' \subseteq Ids
      /\ Len(ti') \in Nat /\ Len(ti) <= Len(ti') /\ Len(ti) \in Nat
      /\ \A u : (IsCached(u) <=> u \in ToSet(c)) /\ (IsCached(u)' <=> u \in ToSet(d))
    BY <1>1, Moved
<1>3. /\ result \in Seq([kind : {"add", "update"}, tis : Tis', i : Nat \ {0}]) /\ Len(result) \in Nat
      /\ JobTypes' /\ add \in [kind : {"add", "update"}, tis : Tis', i : Nat \ {0}]
    <2> DEFINE Before == [kind : {"add", "update"}, tis : Tis, i : Nat \ {0}]
               After == [kind : {"add", "update"}, tis : Tis', i : Nat \ {0}]
    <2>1. Tis \subseteq Tis' /\ JobTypes'
        BY <1>1, <1>2, TisGrows
    <2>2. Before \subseteq After
        BY <2>1
    <2>3. result \in Seq(Before)
        BY <1>1 DEF Types, ResultTypes
    <2>4. add \in After
        <3>1. t \in 0..Len(ti')
            BY <1>2
        <3>2. <<t>> \in Tis'
            BY <3>1 DEF Tis
        <3> QED
            BY <3>2
    <2> HIDE DEF Before, After
    <2>5. result \in Seq(After) /\ Len(result) \in Nat
        BY <2>2, <2>3
    <2> QED
        BY <2>1, <2>4, <2>5 DEF After
<1>4. /\ result' \in Seq([kind : {"add", "update"}, tis : Tis', i : Nat \ {0}])
      /\ Len(result') = n /\ result'[n] = add /\ \A k \in 1..Len(result) : result'[k] = result[k]
    <2> DEFINE Results == [kind : {"add", "update"}, tis : Tis', i : Nat \ {0}]
    <2>1. result \in Seq(Results) /\ add \in Results /\ result' = Append(result, add)
        BY <1>3
    <2> HIDE DEF Results, add
    <2> QED
        BY <2>1 DEF Results
<1>5. /\ DOMAIN Pending = 1..n /\ Pending[n] = JobRecord(Idle) /\ DOMAIN Pending' = 1..n + 1 /\ n \in Nat
      /\ Pending'[n] = add /\ Pending'[n + 1] = JobRecord(Idle)
      /\ \A k \in 1..n : k # n => Pending'[k] = Pending[k] /\ Pending[k].kind \in {"add", "update"}
    <2>1. Pending' = Append(result', JobRecord(Idle))
        BY DEF Pending, JobRecord
    <2>2. /\ DOMAIN Pending' = 1..n + 1 /\ Pending'[n + 1] = JobRecord(Idle)
          /\ \A k \in 1..n : Pending'[k] = result'[k]
        BY <1>4, <2>1, PendingIs
    <2>3. n \in Nat /\ \A k \in 1..n : k # n => k \in 1..Len(result)
        BY <1>3
    <2>4. DOMAIN Pending = 1..n /\ Pending[n] = JobRecord(Idle)
        BY <1>1, PendingTypes
    <2>5. \A k \in 1..Len(result) : Pending[k] = result[k] /\ Pending[k].kind \in {"add", "update"}
        BY <1>1, PendingTypes
    <2>6. n \in 1..n
        BY <1>3
    <2>7. Pending'[n] = add
        BY <1>4, <2>2, <2>6
    <2>8. \A k \in 1..n : k # n => Pending'[k] = Pending[k] /\ Pending[k].kind \in {"add", "update"}
        BY <1>4, <2>2, <2>3, <2>5
    <2> HIDE DEF add, n
    <2> QED
        BY <2>2, <2>3, <2>4, <2>7, <2>8
<1>6. PICK x : x = <<n, 1>>
    OBVIOUS
<1>7. x \in Entries' /\ Old(x)' = t /\ New(x)' = Null /\ ~Told(x)' /\ ~Listing(x)'
    <2>1. x[1] = n /\ x[2] = 1 /\ Pending'[x[1]] = add /\ x[1] \in DOMAIN Pending'
        BY <1>5, <1>6
    <2>2. t # Null
        BY <1>2 DEF Null
    <2>3. IsEntry(Pending', n, 1)
        BY <2>1, <2>2 DEF IsEntry
    <2>4. x \in Entries'
        BY <1>6, <2>3, EntriesAre
    <2>5. Old(x)' = t /\ ~Told(x)' /\ ~Listing(x)'
        BY <2>1 DEF Old, Told, Listing
    <2> QED
        BY <2>4, <2>5 DEF New
<1>8. ASSUME NEW e \in Entries
      PROVE  /\ e = <<e[1], e[2]>> /\ IsEntry(Pending, e[1], e[2]) /\ Old(e) \in DOMAIN ti
             /\ e[1] \in 1..n /\ e[1] # n /\ Pending'[e[1]] = Pending[e[1]] /\ Pending[e[1]].kind \in {"add", "update"}
    <2>1. e = <<e[1], e[2]>> /\ IsEntry(Pending, e[1], e[2]) /\ Old(e) \in DOMAIN ti /\ e[1] \in 1..n
        BY <1>1, <1>5, EntriesAre, EntryTypes DEF IsEntry
    <2>2. e[1] # n
        <3> SUFFICES ASSUME e[1] = n PROVE FALSE
            OBVIOUS
        <3>1. e[2] \in 1..Len(<<>>)
            BY <1>5, <2>1 DEF IsEntry, JobRecord, Idle
        <3> QED
            BY <3>1
    <2> QED
        BY <1>5, <2>1, <2>2
<1>9. PICK X : X = {x}
    OBVIOUS
<1>10. Entries' = Entries \cup X /\ X \cap Entries = {}
    <2>1. ASSUME NEW e \in Entries PROVE e \in Entries' /\ e # x
        <3>1. IsEntry(Pending', e[1], e[2])
            BY <1>5, <1>8 DEF IsEntry
        <3> QED
            BY <1>6, <1>8, <3>1, EntriesAre
    <2>2. ASSUME NEW e \in Entries', e # x PROVE e \in Entries
        <3>1. e = <<e[1], e[2]>> /\ IsEntry(Pending', e[1], e[2]) /\ e[1] \in 1..n + 1
            BY <1>5, EntriesAre DEF IsEntry
        <3>2. e[1] # n + 1
            <4> SUFFICES ASSUME e[1] = n + 1 PROVE FALSE
                OBVIOUS
            <4>1. e[2] \in 1..Len(<<>>)
                BY <1>5, <3>1 DEF IsEntry, JobRecord, Idle
            <4> QED
                BY <4>1
        <3>3. e[1] # n
            <4> SUFFICES ASSUME e[1] = n PROVE FALSE
                OBVIOUS
            <4>1. e[2] \in 1..1
                BY <1>5, <3>1 DEF IsEntry
            <4> QED
                BY <1>6, <2>2, <3>1, <4>1
        <3>4. e[1] \in 1..n
            BY <1>5, <3>1, <3>2
        <3>5. IsEntry(Pending, e[1], e[2])
            BY <1>5, <3>1, <3>3, <3>4 DEF IsEntry
        <3> QED
            BY <3>1, <3>5, EntriesAre
    <2> QED
        BY <1>7, <1>9, <2>1, <2>2
<1>11. ASSUME NEW e \in Entries
       PROVE  (Old(e)' = Old(e)) /\ (Told(e)' <=> Told(e)) /\ (Listing(e)' <=> Listing(e)) /\ (New(e)' = New(e))
              /\ (Told(e) => ~IsCached(Old(e))')
    <2>1. Old(e)' = Old(e) /\ (Listing(e)' <=> Listing(e)) /\ (Told(e)' <=> Told(e))
        BY <1>8 DEF Old, Listing, Told
    <2>2. CASE Told(e)
        <3>1. Old(e) \notin ToSet(c) /\ Old(e) \in DOMAIN ti
            BY <1>1, <1>2, <1>8, <2>2 DEF Apart
        <3>2. ti'[Old(e)].next = ti[Old(e)].next
            BY <3>1 DEF Moves
        <3>3. Old(e) \notin ToSet(d)
            <4>1. Old(e) # Len(ti) + 1
                BY <1>1, <3>1 DEF Types, TiTypes
            <4> QED
                BY <3>1, <4>1 DEF Moves
        <3>4. ~IsCached(Old(e))'
            BY <1>2, <2>1, <3>3 DEF IsCached
        <3> QED
            BY <2>1, <2>2, <3>2, <3>4 DEF New
    <2>3. CASE ~Told(e)
        BY <2>1, <2>3 DEF New
    <2> QED
        BY <2>1, <2>2, <2>3
<1>12. ASSUME NEW u \in DOMAIN ti'
       PROVE  GivenBack(u)' = GivenBack(u) + (IF u = t THEN 1 ELSE 0)
    <2>1. u \in Ids
        BY <1>2
    <2>2. (\A y \in X : New(y)' = Null) /\ (\A y, z \in X : Old(y)' = Old(z)' => y = z)
        BY <1>7, <1>9
    <2>3. GivenBack(u)' = GivenBack(u) + One(\E y \in X : Old(y)' = u)
        BY <1>1, <1>10, <1>11, <2>1, <2>2, GivenMore
    <2>4. (\E y \in X : Old(y)' = u) <=> u = t
        BY <1>7, <1>9
    <2> QED
        BY <2>3, <2>4 DEF One
<1>13. RefsAreCounted'
    <2>1. held' \in [Ids -> Nat] /\ \A u \in DOMAIN ti' : held[u] \in Nat /\ GivenBack(u) \in Nat
        BY <1>1, <1>2, GivenNat DEF Types, HeldTypes
    <2>2. \A u \in DOMAIN ti' : held'[u] + GivenBack(u)' = held[u] + GivenBack(u) + (IF u = t THEN 1 ELSE 0)
        BY <1>12, <2>1
    <2> QED
        BY <1>1, <2>1, <2>2, Balanced
<1>14. Apart'
    <2>1. \A e, f \in Entries' : Listing(e)' /\ Listing(f)' /\ Old(e)' = Old(f)' => e = f
        BY <1>1, <1>7, <1>9, <1>10, <1>11 DEF Apart
    <2>2. ASSUME NEW e \in Entries', Told(e)'
          PROVE  ~IsCached(Old(e))' /\ New(e)' # Old(e)'
        <3>1. e \in Entries /\ Told(e)
            BY <1>7, <1>9, <1>10, <1>11, <2>2
        <3> QED
            BY <1>1, <1>11, <3>1 DEF Apart
    <2> QED
        BY <2>1, <2>2 DEF Apart
<1>15. Types' /\ Taken'
    <2>1. ASSUME NEW k \in 1..Len(result')
          PROVE  /\ result'[k].i <= Len(result'[k].tis) + 1
                 /\ result'[k].kind = "add"
                      => Len(result'[k].tis) = 1 /\ result'[k].i = 1 /\ result'[k].tis[1] # Null
        <3>1. CASE k = n
            BY <1>2, <1>4, <3>1 DEF Null
        <3>2. CASE k # n
            <4>1. k \in 1..Len(result)
                BY <1>3, <1>4, <3>2
            <4> QED
                BY <1>1, <1>4, <4>1 DEF Types, ResultTypes
        <3> QED
            BY <3>1, <3>2
    <2>2. ResultTypes'
        BY <1>4, <2>1 DEF ResultTypes
    <2>3. HeldTypes'
        BY <1>1, <1>2 DEF Types, HeldTypes
    <2>4. Taken'
        BY DEF Taken, Idle
    <2> QED
        BY <1>2, <1>3, <2>2, <2>3, <2>4 DEF Types
<1> QED
    BY <1>2, <1>13, <1>14, <1>15 DEF IInv

\* do_add_job, one file
LEMMA KeepsAddFile == IInv /\ AddFile => IInv'
<1> SUFFICES ASSUME IInv, AddFile
             PROVE  IInv'
    OBVIOUS
<1>1. Types
    BY DEF IInv
<1>2. PICK c : IsChain(ti, bucket, c)
    BY DEF IInv, Chained
<1>3. PICK f \in Filename : \E force \in BOOLEAN : \E g \in GetTi(f, force) :
        /\ job.pc = "idle" /\ Len(ti) < MaxTracks /\ Store(g.m)
        /\ result' = IF g.t = Null THEN result
                     ELSE Append(result, [kind |-> "add", tis |-> <<g.t>>, i |-> 1])
        /\ UNCHANGED <<held, job>>
    BY DEF AddFile
<1>4. PICK force \in BOOLEAN : \E g \in GetTi(f, force) :
        /\ job.pc = "idle" /\ Len(ti) < MaxTracks /\ Store(g.m)
        /\ result' = IF g.t = Null THEN result
                     ELSE Append(result, [kind |-> "add", tis |-> <<g.t>>, i |-> 1])
        /\ UNCHANGED <<held, job>>
    BY <1>3
<1>5. PICK g \in GetTi(f, force) :
        /\ job.pc = "idle" /\ Len(ti) < MaxTracks /\ Store(g.m)
        /\ result' = IF g.t = Null THEN result
                     ELSE Append(result, [kind |-> "add", tis |-> <<g.t>>, i |-> 1])
        /\ UNCHANGED <<held, job>>
    BY <1>4
<1>6. PICK d : Moves(ti, c, ti', bucket', d, g.t, 1) /\ g.t \in 0..Len(ti') /\ ti' \in Seq(Track)
    <2>1. PICK s2, b2, d : g.m = Memory(s2, b2) /\ Moves(ti, c, s2, b2, d, g.t, 1) /\ g.t \in 0..Len(s2)
        BY <1>1, <1>2, Gets DEF Types, TiTypes
    <2>2. ti' = s2 /\ bucket' = b2
        BY <1>5, <2>1, Inside DEF Store
    <2>3. ti' \in Seq(Track)
        BY <2>1, <2>2 DEF Moves
    <2> QED
        BY <2>1, <2>2, <2>3
<1>7. Len(ti') <= MaxTracks
    BY <1>1, <1>5, <1>6, MaxTracksAssumption DEF Moves, Types, TiTypes
<1>8. Len(ti') \in Nat /\ Len(ti) <= Len(ti') /\ DOMAIN ti' = 1..Len(ti') /\ job = Idle
    BY <1>1, <1>2, <1>5, <1>6, <1>7, Moved DEF Types, JobTypes
<1>9. CASE g.t = Null
    <2>1. JobTypes' /\ Taken'
        BY <1>1, <1>5, <1>8, TisGrows DEF Taken, Idle
    <2>2. /\ held' \in [Ids -> Nat] /\ Null \notin Ids
          /\ \A u \in Ids : held'[u] = held[u] + (IF u = Null THEN 1 ELSE 0)
        BY <1>1, <1>5 DEF Types, HeldTypes, Ids, Null
    <2>3. result' = result /\ job' = job /\ Moves(ti, c, ti', bucket', d, Null, 1)
        BY <1>5, <1>6, <1>9
    <2> QED
        BY <1>2, <1>7, <2>1, <2>2, <2>3, Steady
<1>10. CASE g.t # Null
    <2>1. PICK t : t = g.t
        OBVIOUS
    <2>2. t \in DOMAIN ti'
        BY <1>6, <1>8, <1>10, <2>1 DEF Null
    <2>3. /\ result' = Append(result, [kind |-> "add", tis |-> <<t>>, i |-> 1])
          /\ Moves(ti, c, ti', bucket', d, t, 1)
        BY <1>5, <1>6, <1>10, <2>1
    <2> QED
        BY <1>2, <1>5, <1>7, <1>8, <2>2, <2>3, KeepsAdded
<1> QED
    BY <1>9, <1>10


\* What Replaced changes.
LEMMA Replacing ==
    ASSUME NEW old, NEW new, NEW k \in Nat, ti \in Seq(Track)
    PROVE  /\ Replaced(old, new, k) \in Seq(Track) /\ Len(Replaced(old, new, k)) = Len(ti)
           /\ DOMAIN Replaced(old, new, k) = DOMAIN ti
           /\ \A u \in DOMAIN ti :
                /\ Replaced(old, new, k)[u].next = ti[u].next
                /\ Replaced(old, new, k)[u].refs = ti[u].refs - (IF u = old THEN k + 1 ELSE 0)
                                                              + (IF u = new THEN k - 1 ELSE 0)
<1>1. PICK s : s = Replaced(old, new, k)
    OBVIOUS
<1>2. Len(ti) \in Nat /\ DOMAIN ti = 1..Len(ti) /\ DOMAIN s = DOMAIN ti /\ s = [u \in DOMAIN ti |-> s[u]]
    BY <1>1 DEF Replaced
<1>3. ASSUME NEW u \in DOMAIN ti
      PROVE  s[u] \in Track /\ s[u].next = ti[u].next
             /\ s[u].refs = ti[u].refs - (IF u = old THEN k + 1 ELSE 0) + (IF u = new THEN k - 1 ELSE 0)
    <2>1. PICK x \in Int : x = ti[u].refs - (IF u = old THEN k + 1 ELSE 0) + (IF u = new THEN k - 1 ELSE 0)
        BY TrackFields
    <2>2. ti[u] \in Track
        OBVIOUS
    <2>3. s[u] = [ti[u] EXCEPT !.refs = x]
        BY <1>1, <2>1 DEF Replaced
    <2> QED
        BY <2>1, <2>2, <2>3 DEF Track
<1>4. s \in [1..Len(ti) -> Track]
    BY <1>2, <1>3
<1>5. s \in Seq(Track) /\ Len(s) = Len(ti)
    BY <1>2, <1>4
<1> QED
    BY <1>1, <1>2, <1>3, <1>5

\* The main thread goes on to the next entry of the first result, an update.
LEMMA Advances ==
    ASSUME Types, result # <<>>, result[1].kind = "update", result[1].i <= Len(result[1].tis),
           result' = [result EXCEPT ![1].i = @ + 1], job' = job,
           Len(ti') = Len(ti), \A u \in DOMAIN ti : ti'[u].next = ti[u].next,
           NEW x, x = <<1, result[1].i>>
    PROVE  /\ ResultTypes' /\ JobTypes' /\ Entries' = Entries \ {x}
           /\ \A e \in Entries : /\ Old(e)' = Old(e) /\ New(e)' = New(e)
                                 /\ (Told(e)' <=> Told(e)) /\ (Listing(e)' <=> Listing(e))
           /\ Old(x) = result[1].tis[result[1].i] /\ Old(x) \in 0..Len(ti)
           /\ Old(x) # Null => x \in Entries /\ Told(x) /\ New(x) = ti[Old(x)].next
<1> DEFINE n == Len(result) + 1
           i == result[1].i
           Results == [kind : {"add", "update"}, tis : Tis, i : Nat \ {0}]
<1>1. result \in Seq(Results) /\ Len(result) \in Nat /\ 1 \in 1..Len(result) /\ Tis' = Tis
    BY DEF Types, ResultTypes, Tis
<1>2. /\ result[1] \in Results /\ i \in Nat \ {0} /\ result[1].tis \in Tis /\ Len(result[1].tis) \in Nat
      /\ i \in 1..Len(result[1].tis)
    <2>1. \A r \in Results : r.i \in Nat \ {0} /\ r.tis \in Tis
        OBVIOUS
    <2> HIDE DEF Results
    <2>2. result[1] \in Results
        BY <1>1
    <2>3. result[1].i \in Nat \ {0} /\ result[1].tis \in Tis
        BY <2>1, <2>2
    <2>4. Len(result[1].tis) \in Nat
        BY <2>3 DEF Tis
    <2> QED
        BY <2>2, <2>3, <2>4
<1>3. PICK r : r = [kind |-> "update", tis |-> result[1].tis, i |-> i + 1]
    OBVIOUS
<1>4. r \in Results /\ [result[1] EXCEPT !.i = @ + 1] = r
    BY <1>2, <1>3
<1>5. /\ result' \in Seq(Results) /\ Len(result') = Len(result) /\ result'[1] = r
      /\ \A k \in 1..Len(result) : k # 1 => result'[k] = result[k]
    <2>1. result' = [result EXCEPT ![1] = r]
        BY <1>4
    <2> HIDE DEF Results
    <2> QED
        BY <1>1, <1>4, <2>1
<1>6. /\ DOMAIN Pending = 1..n /\ DOMAIN Pending' = 1..n /\ n \in Nat /\ n # 1
      /\ Pending[1] = result[1] /\ Pending'[1] = r
      /\ \A k \in 1..n : k # 1 => Pending'[k] = Pending[k]
    <2>1. Pending' = Append(result', JobRecord(job))
        BY DEF Pending, JobRecord
    <2>2. /\ DOMAIN Pending' = 1..n /\ Pending'[n] = JobRecord(job)
          /\ \A k \in 1..Len(result) : Pending'[k] = result'[k]
        BY <1>5, <2>1, PendingIs
    <2>3. /\ DOMAIN Pending = 1..n /\ Pending[n] = JobRecord(job)
          /\ \A k \in 1..Len(result) : Pending[k] = result[k]
        BY PendingTypes
    <2>4. n \in Nat /\ n # 1 /\ \A k \in 1..n : k # n => k \in 1..Len(result)
        BY <1>1
    <2>5. ASSUME NEW k \in 1..n, k # 1 PROVE Pending'[k] = Pending[k]
        BY <1>5, <2>2, <2>3, <2>4, <2>5
    <2> QED
        BY <1>1, <1>5, <2>2, <2>3, <2>4, <2>5
<1>7. /\ Pending'[1].tis = Pending[1].tis /\ Pending'[1].kind = "update" /\ Pending[1].kind = "update"
      /\ Pending'[1].i = i + 1 /\ Pending[1].i = i
    BY <1>3, <1>6
<1>8. \A k \in 1..n : Pending'[k].tis = Pending[k].tis /\ Pending'[k].kind = Pending[k].kind
    BY <1>6, <1>7
<1>9. Entries' = Entries \ {x}
    <2>1. ASSUME NEW e \in Entries, e # x PROVE e \in Entries'
        <3>1. e = <<e[1], e[2]>> /\ IsEntry(Pending, e[1], e[2]) /\ e[1] \in 1..n /\ e[2] \in Nat
            BY <1>6, EntriesAre, EntryTypes DEF IsEntry
        <3>2. IsEntry(Pending', e[1], e[2])
            <4>1. CASE e[1] = 1
                <5>1. e[2] # i
                    BY <2>1, <3>1, <4>1
                <5>2. e[2] \in i + 1..Len(result[1].tis)
                    BY <1>2, <1>6, <3>1, <4>1, <5>1 DEF IsEntry
                <5> QED
                    BY <1>3, <1>6, <1>7, <3>1, <4>1, <5>2 DEF IsEntry
            <4>2. CASE e[1] # 1
                BY <1>6, <3>1, <4>2 DEF IsEntry
            <4> QED
                BY <4>1, <4>2
        <3> QED
            BY <3>1, <3>2, EntriesAre
    <2>2. ASSUME NEW e \in Entries' PROVE e \in Entries /\ e # x
        <3>1. e = <<e[1], e[2]>> /\ IsEntry(Pending', e[1], e[2]) /\ e[1] \in 1..n
            BY <1>6, EntriesAre DEF IsEntry
        <3>2. IsEntry(Pending, e[1], e[2]) /\ e # x
            <4>1. CASE e[1] = 1
                <5>1. e[2] \in i + 1..Len(result[1].tis)
                    BY <1>3, <1>6, <1>7, <3>1, <4>1 DEF IsEntry
                <5>2. e[2] \in i..Len(result[1].tis) /\ e[2] # i
                    BY <1>2, <5>1
                <5>3. e # x
                    BY <3>1, <5>2
                <5> QED
                    BY <1>3, <1>6, <1>7, <3>1, <4>1, <5>2, <5>3 DEF IsEntry
            <4>2. CASE e[1] # 1
                BY <1>6, <3>1, <4>2 DEF IsEntry
            <4> QED
                BY <4>1, <4>2
        <3> QED
            BY <3>1, <3>2, EntriesAre
    <2> QED
        BY <2>1, <2>2
<1>10. ASSUME NEW e \in Entries
       PROVE  /\ Old(e)' = Old(e) /\ New(e)' = New(e)
              /\ (Told(e)' <=> Told(e)) /\ (Listing(e)' <=> Listing(e))
    <2>1. e[1] \in 1..n /\ Old(e) \in DOMAIN ti
        BY <1>6, EntriesAre, EntryTypes DEF IsEntry
    <2>2. Old(e)' = Old(e) /\ (Told(e)' <=> Told(e)) /\ (Listing(e)' <=> Listing(e))
        BY <1>8, <2>1 DEF Old, Told, Listing
    <2>3. New(e)' = New(e)
        BY <2>1, <2>2 DEF New
    <2> QED
        BY <2>2, <2>3
<1>11. ResultTypes' /\ JobTypes'
    <2>1. ASSUME NEW k \in 1..Len(result')
          PROVE  /\ result'[k].i <= Len(result'[k].tis) + 1
                 /\ result'[k].kind = "add"
                      => Len(result'[k].tis) = 1 /\ result'[k].i = 1 /\ result'[k].tis[1] # Null
        <3>1. CASE k = 1
            BY <1>2, <1>3, <1>5, <3>1
        <3>2. CASE k # 1
            BY <1>5, <3>2 DEF Types, ResultTypes
        <3> QED
            BY <3>1, <3>2
    <2>2. ResultTypes'
        BY <1>1, <1>5, <2>1 DEF ResultTypes
    <2>3. JobTypes'
        BY <1>1 DEF Types, JobTypes
    <2> QED
        BY <2>2, <2>3
<1>12. /\ Old(x) = result[1].tis[i] /\ Old(x) \in 0..Len(ti)
       /\ Old(x) # Null => x \in Entries /\ Told(x) /\ New(x) = ti[Old(x)].next
    <2>1. x[1] = 1 /\ x[2] = i /\ Old(x) = result[1].tis[i]
        BY <1>6 DEF Old
    <2>2. Old(x) \in 0..Len(ti)
        BY <1>2, <2>1 DEF Tis
    <2>3. Told(x)
        BY <1>7, <2>1 DEF Told
    <2>4. ASSUME Old(x) # Null PROVE x \in Entries
        <3>1. IsEntry(Pending, 1, i)
            BY <1>1, <1>2, <1>6, <1>7, <2>1, <2>4 DEF IsEntry
        <3> QED
            BY <3>1, EntriesAre
    <2> QED
        BY <2>1, <2>2, <2>3, <2>4 DEF New
<1> QED
    BY <1>9, <1>10, <1>11, <1>12


\* job_handle_update_cache_result: one entry.
LEMMA KeepsHandleEntry == IInv /\ HandleEntry => IInv'
<1> SUFFICES ASSUME IInv, HandleEntry
             PROVE  IInv'
    OBVIOUS
<1>1. Types /\ Apart /\ RefsAreCounted /\ Taken
    BY DEF IInv
<1>2. PICK c : IsChain(ti, bucket, c)
    BY DEF IInv, Chained
<1>3. PICK old : old = Head(result).tis[Head(result).i]
    OBVIOUS
<1>4. PICK new : new = ti[old].next
    OBVIOUS
<1>5. /\ result # <<>> /\ result[1].kind = "update" /\ result[1].i <= Len(result[1].tis)
      /\ result' = [result EXCEPT ![1].i = @ + 1] /\ job' = job /\ bucket' = bucket
      /\ old = result[1].tis[result[1].i]
    <2>1. result' = [result EXCEPT ![1].i = @ + 1]
        BY Zenon DEF HandleEntry
    <2>2. result # <<>> /\ job' = job /\ bucket' = bucket
        BY DEF HandleEntry
    <2>3. Head(result) = result[1]
        BY <1>1, <2>2 DEF Types, ResultTypes
    <2>4. Head(result).kind = "update" /\ Head(result).i <= Len(Head(result).tis)
        BY Zenon DEF HandleEntry
    <2> QED
        BY <1>3, <2>1, <2>2, <2>3, <2>4
<1>6. /\ ti \in Seq(Track) /\ Len(ti) \in Nat /\ DOMAIN ti = 1..Len(ti) /\ Len(ti) <= MaxTracks
      /\ \A u \in DOMAIN ti : ti[u].next \in 0..Len(ti)
      /\ held \in [Ids -> Nat] /\ DOMAIN ti \subseteq Ids /\ \A u \in Ids \ DOMAIN ti : held[u] = 0
    BY <1>1, MaxTracksAssumption DEF Types, TiTypes, HeldTypes, Ids
<1>7. PICK x : x = <<1, result[1].i>>
    OBVIOUS
<1>8. \/ old = Null /\ UNCHANGED <<ti, held>>
      \/ \E stays \in {0, 1} :
            /\ old # Null /\ (stays = 1 => new = Null /\ held[old] > 0)
            /\ ti' = Replaced(old, new, held[old] - stays)
            /\ held' = [t \in Ids |-> IF t = old THEN stays
                                      ELSE IF t = new THEN held[t] + held[old] ELSE held[t]]
    BY <1>3, <1>4 DEF HandleEntry
<1>9. ASSUME Len(ti') = Len(ti), \A u \in DOMAIN ti : ti'[u].next = ti[u].next, ti' \in Seq(Track),
             HeldTypes', RefsAreCounted'
      PROVE  IInv'
    <2>1. /\ ResultTypes' /\ JobTypes' /\ Entries' = Entries \ {x}
          /\ \A e \in Entries : /\ Old(e)' = Old(e) /\ New(e)' = New(e)
                                /\ (Told(e)' <=> Told(e)) /\ (Listing(e)' <=> Listing(e))
        BY <1>1, <1>5, <1>7, <1>9, Advances
    <2>2. DOMAIN ti' = DOMAIN ti
        BY <1>6, <1>9
    <2>3. IsChain(ti', bucket', c)
        <3>1. ToSet(c) \subseteq DOMAIN ti
            BY <1>2, <1>6, ChainTracks
        <3>2. \A u \in ToSet(c) : ti'[u].next = ti[u].next
            BY <1>9, <3>1
        <3> QED
            BY <1>2, <1>5, <1>6, <1>9, <2>2, <3>2, SameLinks
    <2>4. Chain = c /\ Chain' = c
        BY <1>2, <1>6, <1>9, <2>3, ChainIs DEF Chain
    <2>5. TiTypes' /\ Chained' /\ Taken'
        BY <1>1, <1>5, <1>6, <1>9, <2>2, <2>3, <2>4 DEF TiTypes, Chained, Taken, IsCached, Entry
    <2>6. Apart'
        <3>1. \A e, f \in Entries' : Listing(e)' /\ Listing(f)' /\ Old(e)' = Old(f)' => e = f
            BY <1>1, <2>1 DEF Apart
        <3>2. ASSUME NEW e \in Entries', Told(e)' PROVE ~IsCached(Old(e))' /\ New(e)' # Old(e)'
            <4>1. e \in Entries /\ Told(e) /\ Old(e)' = Old(e) /\ New(e)' = New(e)
                BY <2>1, <3>2
            <4>2. ~IsCached(Old(e)) /\ New(e) # Old(e)
                BY <1>1, <4>1 DEF Apart
            <4>3. ~IsCached(Old(e))'
                BY <2>4, <4>1, <4>2 DEF IsCached
            <4> QED
                BY <4>1, <4>2, <4>3
        <3> QED
            BY <3>1, <3>2 DEF Apart
    <2> QED
        BY <1>9, <2>1, <2>5, <2>6 DEF IInv, Types
<1>10. ASSUME Len(ti') = Len(ti), \A u \in DOMAIN ti : ti'[u].next = ti[u].next, ti' \in Seq(Track)
       PROVE  /\ Entries' = Entries \ {x} /\ DOMAIN ti' = DOMAIN ti
              /\ \A e \in Entries : Old(e)' = Old(e) /\ New(e)' = New(e)
              /\ Old(x) = old /\ old \in 0..Len(ti)
              /\ old # Null => x \in Entries /\ Told(x) /\ New(x) = new
              /\ \A u : IsCached(u)' <=> IsCached(u)
    <2>1. /\ Entries' = Entries \ {x} /\ \A e \in Entries : Old(e)' = Old(e) /\ New(e)' = New(e)
          /\ Old(x) = old /\ old \in 0..Len(ti)
          /\ old # Null => x \in Entries /\ Told(x) /\ New(x) = new
        BY <1>1, <1>4, <1>5, <1>7, <1>10, Advances
    <2>2. DOMAIN ti' = DOMAIN ti
        BY <1>6, <1>10
    <2>3. IsChain(ti', bucket', c)
        <3>1. ToSet(c) \subseteq DOMAIN ti
            BY <1>2, <1>6, ChainTracks
        <3>2. \A u \in ToSet(c) : ti'[u].next = ti[u].next
            BY <1>10, <3>1
        <3> QED
            BY <1>2, <1>5, <1>6, <1>10, <2>2, <3>2, SameLinks
    <2>4. Chain = c /\ Chain' = c
        BY <1>2, <1>6, <1>10, <2>3, ChainIs DEF Chain
    <2> QED
        BY <2>1, <2>2, <2>4 DEF IsCached
<1>11. CASE old = Null /\ UNCHANGED <<ti, held>>
    <2>1. Len(ti') = Len(ti) /\ (\A u \in DOMAIN ti : ti'[u].next = ti[u].next) /\ ti' \in Seq(Track) /\ HeldTypes'
        BY <1>6, <1>11 DEF HeldTypes
    <2>2. /\ Entries' = Entries \ {x} /\ DOMAIN ti' = DOMAIN ti
          /\ \A e \in Entries : Old(e)' = Old(e) /\ New(e)' = New(e)
          /\ Old(x) = old /\ \A u : IsCached(u)' <=> IsCached(u)
        BY <1>10, <2>1
    <2>3. x \notin Entries
        BY <1>11, <2>2 DEF Entries
    <2>4. Entries' = Entries
        BY <2>2, <2>3
    <2>5. \A u : GivenBack(u)' = GivenBack(u)
        BY <2>2, <2>4, GivenSame
    <2>6. RefsAreCounted'
        BY <1>1, <1>11, <2>2, <2>5 DEF RefsAreCounted
    <2> QED
        BY <1>9, <2>1, <2>6
<1>12. CASE \E stays \in {0, 1} :
                /\ old # Null /\ (stays = 1 => new = Null /\ held[old] > 0)
                /\ ti' = Replaced(old, new, held[old] - stays)
                /\ held' = [t \in Ids |-> IF t = old THEN stays
                                          ELSE IF t = new THEN held[t] + held[old] ELSE held[t]]
    <2>1. PICK stays \in {0, 1} :
                /\ old # Null /\ (stays = 1 => new = Null /\ held[old] > 0)
                /\ ti' = Replaced(old, new, held[old] - stays)
                /\ held' = [t \in Ids |-> IF t = old THEN stays
                                          ELSE IF t = new THEN held[t] + held[old] ELSE held[t]]
        BY <1>12
    <2>2. old \in DOMAIN ti
        <3>1. result \in Seq([kind : {"add", "update"}, tis : Tis, i : Nat \ {0}])
            BY <1>1 DEF Types, ResultTypes
        <3> DEFINE Results == [kind : {"add", "update"}, tis : Tis, i : Nat \ {0}]
        <3>2. \A r \in Results : r.i \in Nat \ {0} /\ r.tis \in Tis
            OBVIOUS
        <3>3. result \in Seq(Results)
            BY <3>1
        <3> HIDE DEF Results
        <3>4. result[1] \in Results
            <4>1. 1 \in 1..Len(result)
                BY <1>5, <3>3
            <4> QED
                BY <3>3, <4>1
        <3>5. result[1].i \in Nat \ {0} /\ result[1].tis \in Tis
            BY <3>2, <3>4
        <3>6. result[1].i \in 1..Len(result[1].tis)
            BY <1>5, <3>5 DEF Tis
        <3>7. old \in 0..Len(ti)
            BY <1>5, <3>5, <3>6 DEF Tis
        <3> QED
            BY <1>6, <2>1, <3>7 DEF Null
    <2>3. PICK k \in Nat : k = held[old] - stays
        BY <1>6, <2>1, <2>2
    <2>4. /\ ti' \in Seq(Track) /\ Len(ti') = Len(ti)
          /\ \A u \in DOMAIN ti :
                /\ ti'[u].next = ti[u].next
                /\ ti'[u].refs = ti[u].refs - (IF u = old THEN k + 1 ELSE 0) + (IF u = new THEN k - 1 ELSE 0)
        <3>1. ti' = Replaced(old, new, k) /\ ti \in Seq(Track)
            BY <1>6, <2>1, <2>3
        <3> QED
            BY <3>1, Replacing
    <2>5. /\ Entries' = Entries \ {x} /\ DOMAIN ti' = DOMAIN ti
          /\ \A e \in Entries : Old(e)' = Old(e) /\ New(e)' = New(e)
          /\ Old(x) = old /\ x \in Entries /\ Told(x) /\ New(x) = new
          /\ \A u : IsCached(u)' <=> IsCached(u)
        BY <1>10, <2>1, <2>4
    <2>6. ~IsCached(old) /\ new # old /\ new \in 0..Len(ti)
        BY <1>1, <1>4, <1>6, <2>2, <2>5 DEF Apart
    <2>7. /\ held' \in [Ids -> Nat]
          /\ \A u \in Ids : held'[u] = IF u = old THEN stays ELSE IF u = new THEN held[u] + held[old] ELSE held[u]
        <3>1. \A u \in Ids : held[u] \in Nat
            BY <1>6
        <3>2. held[old] \in Nat /\ stays \in Nat
            BY <1>6, <2>2, <3>1
        <3>3. \A u \in Ids : (IF u = old THEN stays ELSE IF u = new THEN held[u] + held[old] ELSE held[u]) \in Nat
            BY <3>1, <3>2
        <3> QED
            BY <2>1, <3>3
    <2>8. HeldTypes'
        <3>1. \A u \in Ids \ DOMAIN ti' : held'[u] = 0
            BY <1>6, <2>2, <2>5, <2>6, <2>7 DEF Ids
        <3> QED
            BY <2>7, <3>1 DEF HeldTypes
    <2>9. RefsAreCounted'
        <3> SUFFICES ASSUME NEW u \in DOMAIN ti'
                     PROVE  ti'[u].refs = held'[u] + GivenBack(u)' + (IF IsCached(u)' THEN 1 ELSE 0)
            BY DEF RefsAreCounted
        <3>1. u \in DOMAIN ti /\ u \in Ids /\ u # Null
            BY <1>6, <2>5 DEF Ids, Null
        <3>2. GivenBack(u)' = GivenBack(u) - (IF u = old THEN 1 ELSE 0) - (IF u = new THEN 1 ELSE 0)
            <4>1. GivenBack(u)' = GivenBack(u) - One(Old(x) = u) - One(New(x) = u)
                BY <1>1, <2>5, GivenLess
            <4> QED
                BY <2>5, <4>1 DEF One
        <3>3. held[u] \in Nat /\ held[old] \in Nat /\ GivenBack(u) \in Nat
            BY <1>1, <1>6, <2>2, <3>1, GivenNat
        <3>4. ti[u].refs = held[u] + GivenBack(u) + (IF IsCached(u) THEN 1 ELSE 0)
            BY <1>1, <3>1 DEF RefsAreCounted
        <3>5. ti'[u].refs = ti[u].refs - (IF u = old THEN k + 1 ELSE 0) + (IF u = new THEN k - 1 ELSE 0)
            BY <2>4, <3>1
        <3>6. held'[u] = IF u = old THEN stays ELSE IF u = new THEN held[u] + held[old] ELSE held[u]
            BY <2>7, <3>1
        <3>7. CASE u = old
            <4>1. /\ held'[u] = stays /\ GivenBack(u)' = GivenBack(u) - 1 /\ ~IsCached(u) /\ ~IsCached(u)'
                  /\ ti'[u].refs = ti[u].refs - (k + 1) /\ k = held[u] - stays
                BY <2>3, <2>5, <2>6, <3>2, <3>3, <3>4, <3>5, <3>6, <3>7
            <4> QED
                BY <3>3, <3>4, <4>1
        <3>8. CASE u = new
            <4>1. stays = 0 /\ u # old
                BY <2>1, <2>6, <3>1, <3>8
            <4>2. /\ held'[u] = held[u] + k /\ GivenBack(u)' = GivenBack(u) - 1
                  /\ ti'[u].refs = ti[u].refs + (k - 1)
                BY <2>3, <3>2, <3>3, <3>4, <3>5, <3>6, <3>8, <4>1
            <4> QED
                BY <2>5, <3>3, <3>4, <4>2
        <3>9. CASE u # old /\ u # new
            BY <2>5, <3>2, <3>3, <3>4, <3>5, <3>6, <3>9
        <3> QED
            BY <3>7, <3>8, <3>9
    <2> QED
        BY <1>9, <2>4, <2>8, <2>9
<1> QED
    BY <1>8, <1>11, <1>12


LEMMA StepKeeps == IInv /\ [CacheNext]_cvars => IInv'
<1> SUFFICES ASSUME IInv, [CacheNext]_cvars
             PROVE  IInv'
    OBVIOUS
<1>1. CASE AddFile
    BY <1>1, KeepsAddFile
<1>2. CASE StartRefresh
    BY <1>2, KeepsStartRefresh
<1>3. CASE Stat \/ ForcedUnique \/ Tell
    BY <1>3, KeepsStat
<1>4. CASE Read
    BY <1>4, KeepsRead
<1>5. CASE EndRefresh
    BY <1>5, KeepsEndRefresh
<1>6. CASE GetFile
    BY <1>6, KeepsGetFile
<1>7. CASE DropTrack \/ CopyTrack
    BY <1>7, KeepsDropTrack
<1>8. CASE RemoveFromCache
    BY <1>8, KeepsRemoveFromCache
<1>9. CASE HandleAdd
    BY <1>9, KeepsHandleAdd
<1>10. CASE HandleEntry
    BY <1>10, KeepsHandleEntry
<1>11. CASE EndUpdate
    BY <1>11, KeepsEndUpdate
<1>12. CASE UNCHANGED cvars
    <2>1. PICK c : IsChain(ti, bucket, c)
        BY DEF IInv, Chained
    <2>2. Types /\ Taken /\ UNCHANGED <<ti, bucket, held, job, result>>
        BY <1>12 DEF IInv, cvars
    <2>3. Moves(ti, c, ti', bucket', c, Null, 0) /\ Len(ti') <= MaxTracks
        BY <2>1, <2>2, Rests DEF Types, TiTypes
    <2>4. Chain' = Chain /\ JobTypes'
        BY <2>2 DEF Chain, Types, JobTypes, Tis
    <2>5. Taken'
        BY <2>2, <2>4 DEF Taken, IsCached, Entry
    <2>6. held' \in [Ids -> Nat] /\ Null \notin Ids /\ \A u \in Ids : held'[u] = held[u] + (IF u = Null THEN 0 ELSE 0)
        BY <2>2 DEF Types, HeldTypes, Ids, Null
    <2> QED
        BY <2>1, <2>2, <2>3, <2>4, <2>5, <2>6, Steady
<1> QED
    BY <1>1, <1>2, <1>3, <1>4, <1>5, <1>6, <1>7, <1>8, <1>9, <1>10, <1>11, <1>12 DEF CacheNext

LEMMA InitKeeps == CacheInit => IInv
<1> SUFFICES ASSUME CacheInit
             PROVE  IInv
    OBVIOUS
<1>1. ti = <<>> /\ bucket = Null /\ held = [t \in Ids |-> 0] /\ job = Idle /\ result = <<>>
    BY DEF CacheInit
<1>2. Types
    <2>1. TiTypes /\ HeldTypes
        BY <1>1, MaxTracksAssumption DEF TiTypes, HeldTypes
    <2>2. JobTypes
        <3>1. <<>> \in Tis /\ Len(<<>>) = 0
            BY DEF Tis
        <3>2. job = [pc |-> "idle", force |-> FALSE, tis |-> <<>>, i |-> 0]
            BY <1>1 DEF Idle
        <3>3. job.pc = "idle" /\ job.tis = <<>>
            BY <3>2
        <3> QED
            BY <1>1, <3>1, <3>2, <3>3 DEF JobTypes
    <2>3. ResultTypes
        BY <1>1 DEF ResultTypes
    <2> QED
        BY <2>1, <2>2, <2>3 DEF Types
<1>3. Chained
    <2>1. IsChain(ti, bucket, <<>>)
        BY <1>1 DEF IsChain, IsInjective
    <2> QED
        BY <2>1 DEF Chained
<1>4. Entries = {}
    <2> SUFFICES ASSUME NEW e \in Entries PROVE FALSE
        OBVIOUS
    <2>1. e[1] = 1 /\ IsEntry(Pending, e[1], e[2]) /\ Pending[1] = JobRecord(Idle)
        BY <1>1, <1>2, EntriesAre, PendingTypes DEF IsEntry
    <2>2. e[2] \in 1..Len(<<>>)
        BY <2>1 DEF IsEntry, JobRecord, Idle
    <2> QED
        BY <2>2
<1> QED
    BY <1>1, <1>2, <1>3, <1>4 DEF IInv, Apart, Taken, Idle, RefsAreCounted

LEMMA IInvIsSound == IInv => CacheIsSound
<1> SUFFICES ASSUME IInv
             PROVE  CacheIsSound
    OBVIOUS
<1>1. Types /\ RefsAreCounted
    BY DEF IInv
<1>2. PICK c : IsChain(ti, bucket, c)
    BY DEF IInv, Chained
<1>3. /\ ti \in Seq(Track) /\ Len(ti) \in Nat /\ DOMAIN ti = 1..Len(ti) /\ Len(ti) <= MaxTracks
      /\ \A u \in DOMAIN ti : ti[u].next \in 0..Len(ti) /\ ti[u].file \in Filename
      /\ held \in [Ids -> Nat] /\ DOMAIN ti \subseteq Ids
    BY <1>1, MaxTracksAssumption, TrackFields DEF Types, TiTypes, HeldTypes, Ids
<1>4. Chain = c
    BY <1>2, <1>3, ChainIs DEF Chain
<1>5. ASSUME NEW u \in DOMAIN ti
      PROVE  ti[u].refs >= 0 /\ (IsCached(u) => ti[u].refs > 0)
    <2>1. held[u] \in Nat /\ GivenBack(u) \in Nat
        BY <1>1, <1>3, GivenNat
    <2>2. ti[u].refs = held[u] + GivenBack(u) + (IF IsCached(u) THEN 1 ELSE 0)
        BY <1>1 DEF RefsAreCounted
    <2> QED
        BY <2>1, <2>2
<1>6. bucket \in 0..Len(ti) /\ ToSet(c) \subseteq DOMAIN ti
    <2>1. ToSet(c) \subseteq DOMAIN ti /\ (bucket # Null => bucket \in ToSet(c))
        BY <1>2, <1>3, ChainTracks
    <2> QED
        BY <1>3, <2>1 DEF Null
<1>7. CacheTypeOK
    BY <1>3, <1>5, <1>6 DEF CacheTypeOK
<1>8. ChainIsSound
    BY <1>2, <1>4, <1>5, <1>6 DEF ChainIsSound, IsChain, IsCached
<1> QED
    BY <1>1, <1>7, <1>8 DEF CacheIsSound

\* A track with one reference is nobody else's than the job's.
LEMMA UniqueIsAlone ==
    ASSUME IInv, job.pc \in {"changed", "new", "deleted"}, Unique(Entry)
    PROVE  held[Entry] = 0 /\ \A e \in Entries : e[1] \in DOMAIN result => Entry \notin {Old(e), New(e)}
<1> DEFINE olds == {e \in Entries : Old(e) = Entry}
           news == {e \in Entries : New(e) = Entry}
<1>1. Types /\ Taken /\ RefsAreCounted /\ job.pc # "idle" /\ job.i \in 1..Len(job.tis)
    BY DEF IInv, Types, JobTypes
<1>2. PICK x : x = <<Len(result) + 1, job.i>>
    OBVIOUS
<1>3. Entry \in DOMAIN ti /\ x \in Entries /\ Old(x) = Entry
    BY <1>1, <1>2, AtEntry
<1>4. held[Entry] \in Nat /\ ~IsCached(Entry)
    BY <1>1, <1>3, MaxTracksAssumption DEF Taken, Types, TiTypes, HeldTypes, Ids
<1>5. IsFiniteSet(olds) /\ IsFiniteSet(news) /\ x \in olds
    BY <1>1, <1>3, EntryTypes, FS_Subset
<1>6. ti[Entry].refs = held[Entry] + Cardinality(olds) + Cardinality(news) /\ ti[Entry].refs = 1
    <2>1. ti[Entry].refs = held[Entry] + GivenBack(Entry) + (IF IsCached(Entry) THEN 1 ELSE 0)
        BY <1>1, <1>3 DEF RefsAreCounted
    <2>2. GivenBack(Entry) = Cardinality(olds) + Cardinality(news) /\ GivenBack(Entry) \in Nat
        BY <1>1, GivenNat DEF GivenBack
    <2>3. Cardinality(olds) \in Nat /\ Cardinality(news) \in Nat
        BY <1>5, FS_CardinalityType
    <2> HIDE DEF olds, news
    <2> QED
        BY <1>4, <2>1, <2>2, <2>3 DEF Unique
<1>7. Cardinality(olds) \in Nat /\ Cardinality(news) \in Nat /\ Cardinality(olds) # 0
    <2> HIDE DEF olds, news
    <2> QED
        BY <1>5, FS_CardinalityType, FS_EmptySet
<1>8. held[Entry] = 0 /\ Cardinality(olds) = 1 /\ Cardinality(news) = 0
    <2> HIDE DEF olds, news
    <2> QED
        BY <1>4, <1>6, <1>7
<1>9. (\E y : olds = {y}) /\ news = {}
    <2> HIDE DEF olds, news
    <2> QED
        BY <1>5, <1>8, FS_Singleton, FS_EmptySet
<1>10. ASSUME NEW e \in Entries, e[1] \in DOMAIN result
       PROVE  Old(e) # Entry /\ New(e) # Entry
    <2>1. e # x
        <3>1. Len(result) + 1 \notin DOMAIN result
            BY <1>1 DEF Types, ResultTypes
        <3> QED
            BY <1>2, <1>10, <3>1
    <2>2. e \notin olds
        BY <1>5, <1>9, <2>1
    <2>3. e \notin news
        BY <1>9
    <2> QED
        BY <2>2, <2>3
<1> QED
    BY <1>8, <1>10

LEMMA StepTells ==
    ASSUME IInv, [CacheNext]_cvars, job.pc \in {"changed", "new", "deleted"}, job'.pc = "yield",
           job'.tis[job.i] = Null
    PROVE  held[Entry] = 0 /\ \A e \in Entries : e[1] \in DOMAIN result => Entry \notin {Old(e), New(e)}
<1>1. /\ job.i \in 1..Len(job.tis) /\ job.tis[job.i] # Null
      /\ job \in [pc : {"idle", "yield", "changed", "read", "new", "deleted"}, force : BOOLEAN, tis : Tis, i : Nat]
    BY DEF IInv, Types, JobTypes
<1>2. ForcedUnique \/ Tell
    <2>1. ~AddFile /\ ~StartRefresh /\ ~Stat /\ ~Read /\ ~EndRefresh
        BY DEF AddFile, StartRefresh, Stat, Read, EndRefresh
    <2>2. job' # job
        OBVIOUS
    <2>3. ~GetFile /\ ~DropTrack /\ ~CopyTrack /\ ~RemoveFromCache /\ ~HandleAdd /\ ~HandleEntry /\ ~EndUpdate
        BY <2>2 DEF GetFile, DropTrack, CopyTrack, RemoveFromCache, HandleAdd, HandleEntry, EndUpdate
    <2> QED
        BY <2>1, <2>2, <2>3 DEF CacheNext, cvars
<1>3. Unique(Entry)
    <2>1. CASE ForcedUnique
        <3>1. At("read") => job'.pc = "read"
            BY <1>1 DEF At
        <3> QED
            BY <2>1, <3>1 DEF ForcedUnique
    <2>2. CASE Tell
        <3>1. ASSUME NEW m, Forward(m) PROVE job'.tis = job.tis
            BY <1>1, <3>1 DEF Forward
        <3> QED
            BY <1>1, <2>2, <3>1 DEF Tell
    <2> QED
        BY <1>2, <2>1, <2>2
<1> QED
    BY <1>3, UniqueIsAlone

\* What the counts rest on, in every state.
THEOREM CacheInvariant == CacheSpec => []IInv
<1>1. CacheInit => IInv
    BY InitKeeps
<1>2. IInv /\ [CacheNext]_cvars => IInv'
    BY StepKeeps
<1> QED
    BY <1>1, <1>2, PTL DEF CacheSpec

\* The references of every track_info are those of its holders, and the hash chain
\* has none twice and none that was freed (track_info_ref, track_info_unref and
\* cache_refresh against the lists and the results).
THEOREM CacheStaysSound == CacheSpec => []CacheIsSound
<1>1. IInv => CacheIsSound
    BY IInvIsSound
<1> QED
    BY <1>1, CacheInvariant, PTL

\* The job forgets a track only when no list and no pending result has it
\* (track_info_unique_ref in cache_refresh).
THEOREM RefreshTells == CacheSpec => EveryChangeIsTold
<1>1. IInv /\ [CacheNext]_cvars =>
        [ (job.pc \in {"changed", "new", "deleted"} /\ job'.pc = "yield" /\ job'.tis[job.i] = Null)
            => held[Entry] = 0 /\ \A e \in Entries : e[1] \in DOMAIN result => Entry \notin {Old(e), New(e)}
        ]_cvars
    BY StepTells
<1> QED
    BY <1>1, CacheInvariant, PTL DEF CacheSpec, EveryChangeIsTold
=============================================================================
