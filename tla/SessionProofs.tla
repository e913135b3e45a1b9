--------------------------- MODULE SessionProofs ---------------------------
(***************************************************************************)
(* Theorems about module Session, for any number of playlists, of starts,   *)
(* of failing writes and of times that the program is killed, and with an   *)
(* exit at any moment, while lists are still read as well.                  *)
(*                                                                         *)
(* What an exit has still to do is a sequence of operations; Sane says how  *)
(* the operations of a file follow each other in it, and Exiting what is    *)
(* true of a file by whether the operation that puts it on the disk is      *)
(* still ahead. So each step of an exit is shown to hand over one file, and *)
(* a crash between two steps finds no more than one open.                   *)
(***************************************************************************)
EXTENDS Session, TLAPS, FiniteSetTheorems, SequenceTheorems, WellFoundedInduction

\* the operations of exit_all
ExitOp == {"truncate", "write", "create", "fill", "rename", "clear"} \X File

Has(s, x) == \E i \in 1..Len(s) : s[i] = x
\* what puts f on the disk
LastOp(f) == <<IF f \in Lists THEN "write" ELSE "rename", f>>
Ahead(f) == Has(steps, LastOp(f))

\* the operations of one file follow each other; the first may have been done
Sane(s) ==
    \A i \in 1..Len(s) :
        LET f == s[i][2]
        IN  /\ s[i][1] \in {"truncate", "write"} => f \in Lists
            /\ s[i][1] \in {"create", "fill", "rename"} => f \in Renamed
            /\ s[i][1] = "truncate" => i < Len(s) /\ s[i + 1] = <<"write", f>>
            /\ s[i][1] = "create" => i + 1 < Len(s) /\ s[i + 1] = <<"fill", f>>
            /\ s[i][1] = "fill" => i < Len(s) /\ s[i + 1] = <<"rename", f>>
            /\ i > 1 =>
                /\ s[i][1] = "write" => s[i - 1] = <<"truncate", f>>
                /\ s[i][1] = "fill" => s[i - 1] = <<"create", f>>
                /\ s[i][1] = "rename" => s[i - 1] = <<"fill", f>>

\* the views are saved before they are cleared
ClearLast(s) ==
    \A i, j \in 1..Len(s) : s[i][1] = "clear" /\ s[j] \in {LastOp("queue"), LastOp("lib")} => j < i

\* what is known of the exit before
Memory == [mem : [File -> Content], had : [Lists -> Content], visible : Playlist \cup {"none"},
           playing : Playlist \cup {"none"}, cursor : BOOLEAN, torn : SUBSET Lists]

Types ==
    /\ phase \in {"down", "up", "exit"}
    /\ mem \in [File -> Content] /\ disk \in [File -> Content] /\ tmp \in [Renamed -> Content]
    /\ loading \subseteq Lists /\ failed \subseteq File
    /\ steps \in Seq(ExitOp)
    /\ visible \in Playlist \cup {"none"} /\ saved_visible \in Playlist \cup {"none"}
    /\ playing \in Playlist \cup {"none"} /\ saved_playing \in Playlist \cup {"none"}
    /\ cursor \in BOOLEAN /\ resume \in BOOLEAN /\ clean \in BOOLEAN
    /\ kept \in Memory
    /\ phase # "down" => visible \in Playlist
    /\ phase # "up" => loading = {}
    /\ phase # "exit" => steps = <<>>
    /\ clean => phase # "exit"

\* what is torn, on the disk or in memory, was torn by a write that failed
Renames == \A f \in Renamed : disk[f] = Torn \/ mem[f] = Torn => f \in failed

\* while the program runs: lists that are to be read are there, and a playlist that was
\* deleted has left no file
InUse ==
    phase = "up" =>
        /\ \A p \in Playlist : (p \in loading => disk[p] # Absent) /\ (mem[p] = Absent => disk[p] = Absent)
        /\ mem[visible] # Absent
        /\ \A f \in Lists : mem[f] = Torn => disk[f] = Torn

\* all is saved that an exit has to save
Done ==
    /\ \A f \in File : Saved(f) \/ Cleared(f)
    /\ kept.visible \in Playlist
    /\ disk[kept.visible] # Absent \/ kept.visible \in failed
    /\ resume => "resume" \in failed \/ (saved_visible = kept.visible /\ saved_playing = kept.playing)

AtHead(kind, f) == steps # <<>> /\ steps[1] = <<kind, f>>

\* a file is what it was when the exit began, saved already or to be saved yet; the only
\* list that is torn by this exit is the one to be written next
Exiting ==
    phase = "exit" =>
        /\ Sane(steps) /\ ClearLast(steps)
        /\ visible = kept.visible /\ playing = kept.playing
        /\ (cursor => kept.cursor) /\ mem[visible] # Absent
        /\ \A f \in Renamed : AtHead("rename", f) =>
              /\ tmp[f] = Torn => f \in failed
              /\ tmp[f] = kept.mem[f] \/ f \in failed
        /\ \A f \in Lists : /\ mem[f] = Torn => f \in kept.torn
                            /\ disk[f] = Torn => f \in kept.torn \cup failed \/ AtHead("write", f)
        /\ \A f \in File : /\ mem[f] = kept.mem[f] \/ Cleared(f) \/ ~Ahead(f)
                           /\ Ahead(f) \/ Saved(f) \/ Cleared(f)
        /\ Ahead(visible) \/ disk[visible] # Absent \/ visible \in failed
        /\ resume => Ahead("resume") \/ "resume" \in failed \/ (saved_visible = kept.visible /\ saved_playing = kept.playing)

\* until something is done, what is in memory comes from the last exit
Starting ==
    phase = "up" /\ clean /\ failed = {} =>
        /\ Done
        /\ resume => /\ \A f \in File \ loading : mem[f] = disk[f]
                     /\ \A f \in loading : mem[f] \in {Empty, Part}
                     /\ kept.visible \in loading \/ visible \in {kept.visible, kept.playing}
                     /\ playing \in {kept.playing, "none"}

\* The inductive invariant.
SInv == Types /\ Renames /\ InUse /\ Exiting /\ (phase = "down" /\ clean => Done) /\ Starting

-----------------------------------------------------------------------------
(* Sequences of operations. *)

\* begins with the first operation on a file
Whole(s) == s \in Seq(ExitOp) /\ Sane(s) /\ (s # <<>> => s[1][1] \in {"truncate", "create", "clear"})

\* an operation is a kind and a file
LEMMA OpParts ==
    ASSUME NEW o \in ExitOp
    PROVE  /\ o[1] \in {"truncate", "write", "create", "fill", "rename", "clear"}
           /\ o[2] \in File /\ o = <<o[1], o[2]>>
BY DEF ExitOp

\* whole sequences one after the other
LEMMA Joined ==
    ASSUME NEW s, NEW t, Whole(s), Whole(t)
    PROVE  /\ Whole(s \o t)
           /\ \A x : Has(s \o t, x) <=> Has(s, x) \/ Has(t, x)
<1> DEFINE st == s \o t
<1>1. s \in Seq(ExitOp) /\ t \in Seq(ExitOp) /\ st \in Seq(ExitOp) /\ Len(st) = Len(s) + Len(t)
    BY DEF Whole
<1>2. /\ \A i \in 1..Len(s) : st[i] = s[i]
      /\ \A i \in 1..Len(t) : st[Len(s) + i] = t[i]
      /\ \A i \in 1..Len(st) : i \in 1..Len(s) \/ (i - Len(s) \in 1..Len(t) /\ st[i] = t[i - Len(s)])
    BY <1>1
<1>3. Len(s) \in Nat /\ Len(t) \in Nat
    BY <1>1
<1>4. ASSUME NEW x
      PROVE  Has(st, x) <=> Has(s, x) \/ Has(t, x)
    <2>1. ASSUME NEW i \in 1..Len(st), st[i] = x
          PROVE  Has(s, x) \/ Has(t, x)
        BY <1>2, <2>1 DEF Has
    <2>2. ASSUME NEW i \in 1..Len(s), s[i] = x
          PROVE  Has(st, x)
        BY <1>1, <1>2, <1>3, <2>2 DEF Has
    <2>3. ASSUME NEW i \in 1..Len(t), t[i] = x
          PROVE  Has(st, x)
        <3>1. Len(s) + i \in 1..Len(st) /\ st[Len(s) + i] = x
            BY <1>1, <1>2, <1>3, <2>3
        <3> QED
            BY <3>1 DEF Has
    <2> QED
        BY <2>1, <2>2, <2>3 DEF Has
<1> HIDE DEF st
<1>5. Sane(st)
    <2> SUFFICES ASSUME NEW i \in 1..Len(st)
                 PROVE  Sane(st)!(i)
        BY DEF Sane
    <2>1. CASE i \in 1..Len(s)
        <3>1. Sane(s)!(i)
            BY <2>1 DEF Sane, Whole
        <3>2. /\ i < Len(s) => i + 1 \in 1..Len(s)
              /\ i > 1 => i - 1 \in 1..Len(s)
            BY <1>3, <2>1
        <3>3. st[i] = s[i] /\ (i < Len(s) => st[i + 1] = s[i + 1]) /\ (i > 1 => st[i - 1] = s[i - 1])
            BY <1>2, <2>1, <3>2
        <3> QED
            BY <1>1, <1>3, <2>1, <3>1, <3>3
    <2>2. CASE i \notin 1..Len(s)
        <3> DEFINE j == i - Len(s)
        <3>1. j \in 1..Len(t) /\ st[i] = t[j]
            BY <1>2, <2>2
        <3>2. Sane(t)!(j)
            BY <3>1 DEF Sane, Whole
        <3>3. (j < Len(t) => st[i + 1] = t[j + 1]) /\ (j > 1 => st[i - 1] = t[j - 1])
            <4>1. ASSUME j < Len(t) PROVE st[i + 1] = t[j + 1]
                <5>1. j + 1 \in 1..Len(t) /\ Len(s) + (j + 1) = i + 1
                    BY <1>3, <3>1, <4>1
                <5> QED
                    BY <1>2, <5>1
            <4>2. ASSUME j > 1 PROVE st[i - 1] = t[j - 1]
                <5>1. j - 1 \in 1..Len(t) /\ Len(s) + (j - 1) = i - 1
                    BY <1>3, <3>1, <4>2
                <5> QED
                    BY <1>2, <5>1
            <4> QED
                BY <4>1, <4>2
        <3>4. j = 1 => t[j][1] \in {"truncate", "create", "clear"}
            BY <1>1, <3>1 DEF Whole
        <3>5. i < Len(st) <=> j < Len(t)
            BY <1>1, <1>3, <3>1
        <3>6. i + 1 < Len(st) <=> j + 1 < Len(t)
            BY <1>1, <1>3, <3>1
        <3>7. j = 1 \/ j > 1
            BY <1>3, <3>1
        <3> HIDE DEF j
        <3>8. /\ st[i][1] \in {"truncate", "write"} => st[i][2] \in Lists
              /\ st[i][1] \in {"create", "fill", "rename"} => st[i][2] \in Renamed
            BY <3>1, <3>2
        <3>9. /\ st[i][1] = "truncate" => i < Len(st) /\ st[i + 1] = <<"write", st[i][2]>>
              /\ st[i][1] = "fill" => i < Len(st) /\ st[i + 1] = <<"rename", st[i][2]>>
            BY <3>1, <3>2, <3>3, <3>5
        <3>10. st[i][1] = "create" => i + 1 < Len(st) /\ st[i + 1] = <<"fill", st[i][2]>>
            <4>1. j + 1 < Len(t) => j < Len(t)
                BY <1>3, <3>1
            <4> QED
                BY <3>1, <3>2, <3>3, <3>6, <4>1
        <3>11. /\ st[i][1] = "write" => st[i - 1] = <<"truncate", st[i][2]>>
               /\ st[i][1] = "fill" => st[i - 1] = <<"create", st[i][2]>>
               /\ st[i][1] = "rename" => st[i - 1] = <<"fill", st[i][2]>>
            <4>1. CASE j = 1
                BY <3>1, <3>4, <4>1
            <4>2. CASE j > 1
                BY <3>1, <3>2, <3>3, <4>2
            <4> QED
                BY <3>7, <4>1, <4>2
        <3> QED
            BY <3>8, <3>9, <3>10, <3>11
    <2> QED
        BY <2>1, <2>2
<1>6. st # <<>> => st[1][1] \in {"truncate", "create", "clear"}
    <2>1. CASE Len(s) = 0
        <3>1. s = <<>> /\ st = t
            BY <1>1, <2>1 DEF st
        <3> QED
            BY <3>1 DEF Whole
    <2>2. CASE Len(s) > 0
        <3>1. s # <<>> /\ st[1] = s[1]
            BY <1>1, <1>2, <2>2
        <3> QED
            BY <3>1 DEF Whole
    <2> QED
        BY <1>3, <2>1, <2>2
<1> QED
    BY <1>1, <1>4, <1>5, <1>6 DEF Whole, st

\* nothing saves a view any more, or nothing clears one yet
Viewless(s) == ~Has(s, LastOp("queue")) /\ ~Has(s, LastOp("lib"))
Clearless(s) == \A i \in 1..Len(s) : s[i][1] # "clear"

\* what is cleared in sequences one after the other
LEMMA JoinedClears ==
    ASSUME NEW s \in Seq(ExitOp), NEW t \in Seq(ExitOp)
    PROVE  /\ Clearless(s) => ClearLast(s)
           /\ Clearless(s) /\ Clearless(t) => Clearless(s \o t)
           /\ ClearLast(s) /\ Viewless(t) => ClearLast(s \o t)
<1> DEFINE st == s \o t
<1>1. st \in Seq(ExitOp) /\ Len(st) = Len(s) + Len(t) /\ Len(s) \in Nat /\ Len(t) \in Nat
    OBVIOUS
<1>2. \A i \in 1..Len(st) : \/ i \in 1..Len(s) /\ st[i] = s[i]
                            \/ i > Len(s) /\ i - Len(s) \in 1..Len(t) /\ st[i] = t[i - Len(s)]
    BY <1>1
<1> HIDE DEF st
<1>3. Clearless(s) => ClearLast(s)
    BY DEF Clearless, ClearLast
<1>4. Clearless(s) /\ Clearless(t) => Clearless(st)
    BY <1>2 DEF Clearless
<1>5. ASSUME ClearLast(s), Viewless(t)
      PROVE  ClearLast(st)
    <2> SUFFICES ASSUME NEW i \in 1..Len(st), NEW j \in 1..Len(st),
                        st[i][1] = "clear", st[j] \in {LastOp("queue"), LastOp("lib")}
                 PROVE  j < i
        BY DEF ClearLast
    <2>1. j \in 1..Len(s) /\ st[j] = s[j]
        BY <1>2, <1>5 DEF Viewless, Has
    <2>2. CASE i \in 1..Len(s) /\ st[i] = s[i]
        BY <1>5, <2>1, <2>2 DEF ClearLast
    <2>3. CASE i > Len(s)
        BY <1>1, <2>1, <2>3
    <2> QED
        BY <1>2, <2>2, <2>3
<1> QED
    BY <1>3, <1>4, <1>5 DEF st

\* what is left of a sequence
LEMMA TailOps ==
    ASSUME NEW s \in Seq(ExitOp), s # <<>>, Sane(s), ClearLast(s)
    PROVE  /\ Tail(s) \in Seq(ExitOp) /\ Sane(Tail(s)) /\ ClearLast(Tail(s))
           /\ \A x : Has(s, x) <=> s[1] = x \/ Has(Tail(s), x)
           /\ Len(Tail(s)) = Len(s) - 1 /\ Len(s) \in Nat \ {0}
           /\ Len(s) > 1 => Tail(s) # <<>> /\ Tail(s)[1] = s[2]
           /\ Tail(s) # <<>> /\ Tail(s)[1][1] = "rename" => s[1][1] = "fill"
<1> DEFINE t == Tail(s)
<1>1. t \in Seq(ExitOp) /\ Len(t) = Len(s) - 1 /\ Len(s) \in Nat \ {0}
      /\ \A i \in 1..Len(t) : t[i] = s[i + 1]
    OBVIOUS
<1> HIDE DEF t
<1>2. ASSUME NEW x
      PROVE  Has(s, x) <=> s[1] = x \/ Has(t, x)
    <2>1. ASSUME NEW i \in 1..Len(s), s[i] = x
          PROVE  s[1] = x \/ Has(t, x)
        <3>1. CASE i = 1
            BY <2>1, <3>1
        <3>2. CASE i # 1
            <4>1. i - 1 \in 1..Len(t) /\ t[i - 1] = x
                BY <1>1, <2>1, <3>2
            <4> QED
                BY <4>1 DEF Has
        <3> QED
            BY <3>1, <3>2
    <2>2. ASSUME NEW i \in 1..Len(t), t[i] = x
          PROVE  Has(s, x)
        <3>1. i + 1 \in 1..Len(s) /\ s[i + 1] = x
            BY <1>1, <2>2
        <3> QED
            BY <3>1 DEF Has
    <2>3. s[1] = x => Has(s, x)
        BY <1>1 DEF Has
    <2> QED
        BY <2>1, <2>2, <2>3 DEF Has
<1>3. Sane(t)
    <2> SUFFICES ASSUME NEW i \in 1..Len(t)
                 PROVE  Sane(t)!(i)
        BY DEF Sane
    <2>1. i + 1 \in 1..Len(s) /\ t[i] = s[i + 1]
        BY <1>1
    <2>2. /\ i < Len(t) <=> i + 1 < Len(s)
          /\ i + 1 < Len(t) <=> (i + 1) + 1 < Len(s)
          /\ i + 1 > 1 /\ (i + 1) - 1 = i
        BY <1>1
    <2>3. /\ i < Len(t) => t[i + 1] = s[(i + 1) + 1]
          /\ i > 1 => t[i - 1] = s[(i + 1) - 1]
        <3>1. (i < Len(t) => i + 1 \in 1..Len(t)) /\ (i > 1 => i - 1 \in 1..Len(t))
            BY <1>1
        <3>2. (i - 1) + 1 = (i + 1) - 1
            BY <1>1
        <3> QED
            BY <1>1, <3>1, <3>2
    <2>4. Sane(s)!(i + 1)
        BY <2>1 DEF Sane
    <2>5. /\ t[i][1] \in {"truncate", "write"} => t[i][2] \in Lists
          /\ t[i][1] \in {"create", "fill", "rename"} => t[i][2] \in Renamed
        BY <2>1, <2>4
    <2>6. /\ t[i][1] = "truncate" => i < Len(t) /\ t[i + 1] = <<"write", t[i][2]>>
          /\ t[i][1] = "fill" => i < Len(t) /\ t[i + 1] = <<"rename", t[i][2]>>
        BY <2>1, <2>2, <2>3, <2>4
    <2>7. t[i][1] = "create" => i + 1 < Len(t) /\ t[i + 1] = <<"fill", t[i][2]>>
        <3>1. i + 1 < Len(t) => i < Len(t)
            BY <1>1
        <3> QED
            BY <2>1, <2>2, <2>3, <2>4, <3>1
    <2>8. i > 1 =>
            /\ t[i][1] = "write" => t[i - 1] = <<"truncate", t[i][2]>>
            /\ t[i][1] = "fill" => t[i - 1] = <<"create", t[i][2]>>
            /\ t[i][1] = "rename" => t[i - 1] = <<"fill", t[i][2]>>
        BY <2>1, <2>2, <2>3, <2>4
    <2> QED
        BY <2>5, <2>6, <2>7, <2>8
<1>4. ClearLast(t)
    <2> SUFFICES ASSUME NEW i \in 1..Len(t), NEW j \in 1..Len(t),
                        t[i][1] = "clear", t[j] \in {LastOp("queue"), LastOp("lib")}
                 PROVE  j < i
        BY DEF ClearLast
    <2>1. i + 1 \in 1..Len(s) /\ j + 1 \in 1..Len(s) /\ t[i] = s[i + 1] /\ t[j] = s[j + 1]
        BY <1>1
    <2>2. j + 1 < i + 1
        BY <2>1 DEF ClearLast
    <2> QED
        BY <2>2
<1>5. Len(s) > 1 => t # <<>> /\ t[1] = s[2]
    BY <1>1
<1>6. t # <<>> /\ t[1][1] = "rename" => s[1][1] = "fill"
    <2> SUFFICES ASSUME t # <<>>, t[1][1] = "rename"
                 PROVE  s[1][1] = "fill"
        OBVIOUS
    <2>1. 2 \in 1..Len(s) /\ t[1] = s[2]
        BY <1>1
    <2>2. Sane(s)!(2)
        BY <2>1 DEF Sane
    <2> QED
        BY <2>1, <2>2
<1> QED
    BY <1>1, <1>2, <1>3, <1>4, <1>5, <1>6 DEF t

\* a file that cannot be created is left out
LEMMA SkipOps ==
    ASSUME NEW s \in Seq(ExitOp), s # <<>>, Sane(s), ClearLast(s), s[1][1] = "create"
    PROVE  /\ SubSeq(s, 4, Len(s)) \in Seq(ExitOp) /\ Sane(SubSeq(s, 4, Len(s))) /\ ClearLast(SubSeq(s, 4, Len(s)))
           /\ \A x : Has(s, x) <=> Has(SubSeq(s, 4, Len(s)), x)
                        \/ x \in {<<"create", s[1][2]>>, <<"fill", s[1][2]>>, <<"rename", s[1][2]>>}
           /\ SubSeq(s, 4, Len(s)) # <<>> => SubSeq(s, 4, Len(s))[1][1] # "rename"
<1> DEFINE s1 == Tail(s)
           s2 == Tail(s1)
           s3 == Tail(s2)
           f == s[1][2]
<1>1. Len(s) \in Nat \ {0} /\ s[1] = <<"create", f>>
    BY OpParts
<1>2. /\ 2 < Len(s) /\ s[2] = <<"fill", f>>
    <2>1. Sane(s)!(1)
        BY <1>1 DEF Sane
    <2> QED
        BY <1>1, <2>1
<1>3. s[3] = <<"rename", f>>
    <2>1. Sane(s)!(2)
        BY <1>1, <1>2 DEF Sane
    <2> QED
        BY <1>2, <2>1
<1>4. SubSeq(s, 4, Len(s)) = s3
    <2>1. s1 \in Seq(ExitOp) /\ Len(s1) = Len(s) - 1 /\ \A i \in 1..Len(s) - 1 : s1[i] = s[i + 1]
        BY <1>1
    <2> HIDE DEF s1
    <2>2. s2 \in Seq(ExitOp) /\ Len(s2) = Len(s) - 2 /\ \A i \in 1..Len(s) - 2 : s2[i] = s1[i + 1]
        BY <1>1, <1>2, <2>1
    <2> HIDE DEF s2
    <2>3. s3 \in Seq(ExitOp) /\ Len(s3) = Len(s) - 3 /\ \A i \in 1..Len(s) - 3 : s3[i] = s2[i + 1]
        BY <1>1, <1>2, <2>2
    <2> HIDE DEF s3
    <2>4. \A i \in 1..Len(s) - 3 : s3[i] = s[i + 3]
        <3> SUFFICES ASSUME NEW i \in 1..Len(s) - 3
                     PROVE  s3[i] = s[i + 3]
            OBVIOUS
        <3>1. i + 1 \in 1..Len(s) - 2 /\ i + 2 \in 1..Len(s) - 1 /\ (i + 1) + 1 = i + 2 /\ (i + 2) + 1 = i + 3
            BY <1>1
        <3> QED
            BY <2>1, <2>2, <2>3, <3>1
    <2>5. /\ SubSeq(s, 4, Len(s)) \in Seq(ExitOp) /\ Len(SubSeq(s, 4, Len(s))) = Len(s) - 3
          /\ \A i \in 1..Len(s) - 3 : SubSeq(s, 4, Len(s))[i] = s[i + 3]
        <3>1. \A i \in 4..Len(s) : s[i] \in ExitOp
            OBVIOUS
        <3>2. 4 \in Int /\ Len(s) \in Int
            BY <1>1
        <3>3. /\ SubSeq(s, 4, Len(s)) \in Seq(ExitOp)
              /\ Len(SubSeq(s, 4, Len(s))) = IF 4 <= Len(s) THEN Len(s) - 4 + 1 ELSE 0
              /\ \A i \in 1..Len(s) - 4 + 1 : SubSeq(s, 4, Len(s))[i] = s[4 + i - 1]
            BY <3>1, <3>2, SubSeqProperties
        <3>4. Len(SubSeq(s, 4, Len(s))) = Len(s) - 3
            <4> DEFINE n == Len(s)
            <4>1. n \in Nat /\ 2 < n
                BY <1>1, <1>2
            <4> HIDE DEF n
            <4>2. (IF 4 <= n THEN n - 4 + 1 ELSE 0) = n - 3
                BY <4>1
            <4> QED
                BY <3>3, <4>2 DEF n
        <3>5. ASSUME NEW i \in 1..Len(s) - 3
              PROVE  SubSeq(s, 4, Len(s))[i] = s[i + 3]
            <4>1. i \in 1..Len(s) - 4 + 1 /\ 4 + i - 1 = i + 3
                BY <1>1
            <4> QED
                BY <3>3, <4>1
        <3> QED
            BY <3>3, <3>4, <3>5
    <2> QED
        BY <2>3, <2>4, <2>5, SeqEqual
<1>5. s1 \in Seq(ExitOp) /\ s1 # <<>> /\ Sane(s1) /\ ClearLast(s1) /\ s1[1] = s[2] /\ Len(s1) = Len(s) - 1
      /\ \A x : Has(s, x) <=> s[1] = x \/ Has(s1, x)
    BY <1>2, TailOps
<1>6. s1[2] = s[3]
    BY <1>1, <1>2
<1> HIDE DEF s1
<1>7. s2 \in Seq(ExitOp) /\ s2 # <<>> /\ Sane(s2) /\ ClearLast(s2) /\ s2[1] = s1[2]
      /\ \A x : Has(s1, x) <=> s1[1] = x \/ Has(s2, x)
    <2>1. Len(s1) > 1
        BY <1>1, <1>2, <1>5
    <2> QED
        BY <1>5, <2>1, TailOps
<1> HIDE DEF s2
<1>8. s3 \in Seq(ExitOp) /\ Sane(s3) /\ ClearLast(s3)
      /\ (\A x : Has(s2, x) <=> s2[1] = x \/ Has(s3, x))
      /\ (s3 # <<>> /\ s3[1][1] = "rename" => s2[1][1] = "fill")
    BY <1>7, TailOps
<1>9. \A x : Has(s, x) <=> Has(s3, x) \/ x \in {<<"create", f>>, <<"fill", f>>, <<"rename", f>>}
    BY <1>1, <1>2, <1>3, <1>5, <1>6, <1>7, <1>8
<1>10. s3 # <<>> => s3[1][1] # "rename"
    <2>1. s2[1] = <<"rename", f>>
        BY <1>3, <1>6, <1>7
    <2> QED
        BY <1>8, <2>1
<1> HIDE DEF s3
<1> QED
    BY <1>4, <1>8, <1>9, <1>10

-----------------------------------------------------------------------------
(* The operations of exit_all. *)

\* do_termus_save
LEMMA ListOpsAre ==
    ASSUME NEW f \in Lists
    PROVE  /\ Whole(ListOps(f)) /\ Clearless(ListOps(f))
           /\ \A x : Has(ListOps(f), x) <=> x \in {<<"truncate", f>>, <<"write", f>>}
<1>1. ListOps(f) = << <<"truncate", f>>, <<"write", f>> >>
    BY DEF ListOps, Ops
<1>2. ListOps(f) \in Seq(ExitOp) /\ Len(ListOps(f)) = 2
      /\ ListOps(f)[1] = <<"truncate", f>> /\ ListOps(f)[2] = <<"write", f>>
    BY <1>1 DEF ExitOp, File
<1> HIDE DEF ListOps
<1>3. \A i \in 1..2 : i = 1 \/ i = 2
    OBVIOUS
<1>4. Sane(ListOps(f))
    BY <1>2, <1>3 DEF Sane
<1>5. \A x : Has(ListOps(f), x) <=> x \in {<<"truncate", f>>, <<"write", f>>}
    BY <1>2, <1>3 DEF Has
<1> QED
    BY <1>2, <1>3, <1>4, <1>5 DEF Whole, Clearless

\* the savers that rename
LEMMA FileOpsAre ==
    ASSUME NEW f \in Renamed
    PROVE  /\ Whole(FileOps(f)) /\ Clearless(FileOps(f))
           /\ \A x : Has(FileOps(f), x) <=> x \in {<<"create", f>>, <<"fill", f>>, <<"rename", f>>}
<1>1. FileOps(f) = << <<"create", f>>, <<"fill", f>>, <<"rename", f>> >>
    BY DEF FileOps, Ops
<1>2. FileOps(f) \in Seq(ExitOp) /\ Len(FileOps(f)) = 3 /\ FileOps(f)[1] = <<"create", f>>
      /\ FileOps(f)[2] = <<"fill", f>> /\ FileOps(f)[3] = <<"rename", f>>
    BY <1>1 DEF ExitOp, File
<1> HIDE DEF FileOps
<1>3. \A i \in 1..3 : i = 1 \/ i = 2 \/ i = 3
    OBVIOUS
<1>4. Sane(FileOps(f))
    BY <1>2, <1>3 DEF Sane
<1>5. ASSUME NEW x
      PROVE  Has(FileOps(f), x) <=> x \in {<<"create", f>>, <<"fill", f>>, <<"rename", f>>}
    <2>1. Has(FileOps(f), x) <=> \E i \in 1..3 : FileOps(f)[i] = x
        BY <1>2 DEF Has
    <2>2. 1 \in 1..3 /\ 2 \in 1..3 /\ 3 \in 1..3
        OBVIOUS
    <2>3. (\E i \in 1..3 : FileOps(f)[i] = x)
              <=> FileOps(f)[1] = x \/ FileOps(f)[2] = x \/ FileOps(f)[3] = x
        BY <1>3, <2>2, Zenon
    <2> QED
        BY <1>2, <2>1, <2>3
<1> QED
    BY <1>2, <1>3, <1>4, <1>5 DEF Whole, Clearless

\* a function on 1..n is a sequence
LEMMA CountedSeq ==
    ASSUME NEW T, NEW n \in Nat, NEW s \in [1..n -> T]
    PROVE  s \in Seq(T) /\ Len(s) = n
OBVIOUS

\* the playlists there are, in some order
LEMMA PlaylistsAre ==
    /\ Playlists \in Seq(Playlist)
    /\ \A p \in Playlist : mem[p] # Absent => \E i \in 1..Len(Playlists) : Playlists[i] = p
<1> DEFINE S == {p \in Playlist : mem[p] # Absent}
           D == 1..Cardinality(S)
<1>1. IsFiniteSet(S) /\ Cardinality(S) \in Nat /\ ExistsBijection(D, S)
    BY FS_Subset, FS_CardinalityType, PlaylistAssumption
<1>2. \E g \in [D -> S] : IsInjective(g)
    BY <1>1 DEF ExistsBijection, Bijection, Injection, IsInjective
<1>3. Playlists \in [D -> S] /\ IsInjective(Playlists)
    BY <1>2 DEF Playlists, SetToSeq
<1> HIDE DEF Playlists
<1>4. IsFiniteSet(D) /\ Cardinality(D) = Cardinality(S)
    BY <1>1, FS_Interval
<1>5. Playlists \in Injection(D, S)
    BY <1>3 DEF Injection, IsInjective
<1>6. Playlists \in Surjection(D, S)
    BY <1>1, <1>4, <1>5, FS_Injection
<1>7. Playlists \in Seq(Playlist) /\ Len(Playlists) = Cardinality(S)
    <2>1. PICK n \in Nat : n = Cardinality(S)
        BY <1>1
    <2>2. Playlists \in [1..n -> Playlist]
        BY <1>3, <2>1
    <2>3. Playlists \in Seq(Playlist) /\ Len(Playlists) = n
        BY <2>2, CountedSeq
    <2> QED
        BY <2>1, <2>3
<1> QED
    BY <1>6, <1>7 DEF Surjection

\* pl_save_all writes every playlist it is given, each right after truncating it
LEMMA SaveAllAre ==
    ASSUME NEW ps \in Seq(Playlist), Playlist \cap {"queue", "lib"} = {}
    PROVE  /\ Whole(SaveAll(ps)) /\ Clearless(SaveAll(ps)) /\ Viewless(SaveAll(ps))
           /\ \A i \in 1..Len(ps) : Has(SaveAll(ps), <<"write", ps[i]>>)
<1> DEFINE s == SaveAll(ps)
           n == Len(ps)
<1>1. n \in Nat /\ \A k \in 1..n : ps[k] \in Playlist /\ ps[k] \in Lists /\ ps[k] \in File
    BY DEF Lists, File
<1>2. ASSUME NEW k \in 1..n
      PROVE  /\ 2 * k - 1 \in 1..2 * n /\ s[2 * k - 1] = <<"truncate", ps[k]>>
             /\ 2 * k \in 1..2 * n /\ s[2 * k] = <<"write", ps[k]>>
    <2>1. (2 * k - 1) % 2 = 1 /\ (2 * k) % 2 = 0
          /\ ((2 * k - 1) + 1) \div 2 = k /\ (2 * k + 1) \div 2 = k
        BY <1>1
    <2>2. 2 * k - 1 \in 1..2 * n /\ 2 * k \in 1..2 * n
        BY <1>1
    <2> QED
        BY <2>1, <2>2 DEF SaveAll, ListOps, Ops
<1>3. ASSUME NEW i \in 1..2 * n
      PROVE  \E k \in 1..n : i = 2 * k - 1 \/ i = 2 * k
    <2>1. (i + 1) \div 2 \in 1..n /\ (i = 2 * ((i + 1) \div 2) - 1 \/ i = 2 * ((i + 1) \div 2))
        BY <1>1
    <2> QED
        BY <2>1
<1>4. s = [i \in 1..2 * n |-> s[i]]
    BY DEF SaveAll
<1> HIDE DEF s
<1>5. \A i \in 1..2 * n : s[i] \in ExitOp
    <2> SUFFICES ASSUME NEW i \in 1..2 * n
                 PROVE  s[i] \in ExitOp
        OBVIOUS
    <2>1. PICK k \in 1..n : i = 2 * k - 1 \/ i = 2 * k
        BY <1>3
    <2>2. s[i] = <<"truncate", ps[k]>> \/ s[i] = <<"write", ps[k]>>
        BY <1>2, <2>1
    <2>3. <<"truncate", ps[k]>> \in ExitOp /\ <<"write", ps[k]>> \in ExitOp
        BY <1>1 DEF ExitOp
    <2> QED
        BY <2>2, <2>3
<1>6. s \in Seq(ExitOp) /\ Len(s) = 2 * n
    <2>1. s \in [1..2 * n -> ExitOp] /\ 2 * n \in Nat
        BY <1>1, <1>4, <1>5
    <2> QED
        BY <2>1
<1>7. Sane(s)
    <2> SUFFICES ASSUME NEW i \in 1..Len(s)
                 PROVE  Sane(s)!(i)
        BY DEF Sane
    <2>1. PICK k \in 1..n : i = 2 * k - 1 \/ i = 2 * k
        BY <1>3, <1>6
    <2>2. CASE i = 2 * k - 1
        <3>1. s[i] = <<"truncate", ps[k]>> /\ i < Len(s) /\ i + 1 = 2 * k
            BY <1>1, <1>2, <1>6, <2>2
        <3>2. s[i + 1] = <<"write", ps[k]>>
            BY <1>2, <3>1
        <3> QED
            BY <1>1, <3>1, <3>2
    <2>3. CASE i = 2 * k
        <3>1. s[i] = <<"write", ps[k]>> /\ i - 1 = 2 * k - 1
            BY <1>1, <1>2, <2>3
        <3>2. s[i - 1] = <<"truncate", ps[k]>>
            BY <1>2, <3>1
        <3> QED
            BY <1>1, <3>1, <3>2
    <2> QED
        BY <2>1, <2>2, <2>3
<1>8. s # <<>> => s[1][1] \in {"truncate", "create", "clear"}
    <2> SUFFICES ASSUME s # <<>>
                 PROVE  s[1][1] \in {"truncate", "create", "clear"}
        OBVIOUS
    <2>1. 1 \in 1..n /\ 2 * 1 - 1 = 1
        BY <1>1, <1>6
    <2> QED
        BY <1>2, <2>1
<1>9. \A i \in 1..2 * n : s[i][1] # "clear" /\ s[i] # <<"write", "queue">> /\ s[i] # <<"write", "lib">>
    <2> SUFFICES ASSUME NEW i \in 1..2 * n
                 PROVE  s[i][1] # "clear" /\ s[i] # <<"write", "queue">> /\ s[i] # <<"write", "lib">>
        OBVIOUS
    <2>1. PICK k \in 1..n : i = 2 * k - 1 \/ i = 2 * k
        BY <1>3
    <2>2. s[i] = <<"truncate", ps[k]>> \/ s[i] = <<"write", ps[k]>>
        BY <1>2, <2>1
    <2>3. ps[k] # "queue" /\ ps[k] # "lib"
        BY <1>1
    <2> QED
        BY <2>2, <2>3
<1>10. \A i \in 1..n : Has(s, <<"write", ps[i]>>)
    BY <1>2, <1>6 DEF Has
<1> QED
    BY <1>6, <1>7, <1>8, <1>9, <1>10 DEF Whole, Clearless, Viewless, Has, LastOp, Lists, s

\* the exit saves the queue, the library, every playlist there is and every other
\* file, the resume file if resume is set; it clears nothing that it has yet to save
LEMMA ExitOpsAre ==
    /\ ExitOps \in Seq(ExitOp) /\ Sane(ExitOps) /\ ClearLast(ExitOps)
    /\ ExitOps # <<>> /\ ExitOps[1][1] \in {"truncate", "create", "clear"}
    /\ \A f \in {"queue", "lib"} : Has(ExitOps, LastOp(f))
    /\ \A f \in Renamed : (f = "resume" => resume) => Has(ExitOps, LastOp(f))
    /\ \A p \in Playlist : mem[p] # Absent => Has(ExitOps, LastOp(p))
<1> DEFINE q == ListOps("queue")
           l == ListOps("lib")
           r == IF resume THEN FileOps("resume") ELSE <<>>
           a == FileOps("autosave")
           c == FileOps("cache")
           v == << <<"clear", "lib">> >>
           h1 == FileOps("command-history")
           h2 == FileOps("search-history")
           ps == SaveAll(Playlists)
<1> DEFINE ql == q \o l
           qlr == ql \o r
           qlra == qlr \o a
           qlrac == qlra \o c
           exit1 == qlrac \o v
           exit2 == exit1 \o h1
           exit3 == exit2 \o h2
           exit4 == exit3 \o ps
<1>1. ExitOps = exit4
    BY DEF ExitOps
<1> DEFINE Fine(s) == Whole(s) /\ Clearless(s)
<1>2. /\ Fine(q) /\ Fine(l)
      /\ \A x : Has(q, x) <=> x \in {<<"truncate", "queue">>, <<"write", "queue">>}
      /\ \A x : Has(l, x) <=> x \in {<<"truncate", "lib">>, <<"write", "lib">>}
    BY ListOpsAre DEF Lists
<1>3. /\ Fine(r)
      /\ resume => \A x : Has(r, x) <=> x \in {<<"create", "resume">>, <<"fill", "resume">>, <<"rename", "resume">>}
    <2>1. Fine(<<>>)
        BY DEF Whole, Sane, Clearless
    <2>2. "resume" \in Renamed
        BY DEF Renamed
    <2> QED
        BY <2>1, <2>2, FileOpsAre
<1>4. /\ Fine(a) /\ Fine(c) /\ Fine(h1) /\ Fine(h2)
      /\ \A x : Has(a, x) <=> x \in {<<"create", "autosave">>, <<"fill", "autosave">>, <<"rename", "autosave">>}
      /\ \A x : Has(c, x) <=> x \in {<<"create", "cache">>, <<"fill", "cache">>, <<"rename", "cache">>}
      /\ \A x : Has(h1, x) <=> x \in {<<"create", "command-history">>, <<"fill", "command-history">>, <<"rename", "command-history">>}
      /\ \A x : Has(h2, x) <=> x \in {<<"create", "search-history">>, <<"fill", "search-history">>, <<"rename", "search-history">>}
    BY FileOpsAre DEF Renamed
<1>5. Viewless(h1) /\ Viewless(h2)
    BY <1>4 DEF Viewless, LastOp, Lists
<1>6. /\ Whole(v) /\ Viewless(v)
    <2>1. v \in Seq(ExitOp) /\ Len(v) = 1 /\ v[1] = <<"clear", "lib">>
        BY DEF ExitOp, File, Lists
    <2> HIDE DEF v
    <2>2. \A i \in 1..1 : i = 1
        OBVIOUS
    <2>3. Sane(v)
        BY <2>1, <2>2 DEF Sane
    <2>4. Viewless(v)
        BY <2>1, <2>2 DEF Viewless, Has, LastOp, Lists
    <2> QED
        BY <2>1, <2>3, <2>4 DEF Whole
<1>7. /\ Fine(ps) /\ Viewless(ps)
      /\ \A p \in Playlist : mem[p] # Absent => Has(ps, <<"write", p>>)
    BY PlaylistsAre, SaveAllAre, PlaylistAssumption
<1> HIDE DEF q, l, r, a, c, v, h1, h2, ps
<1>8. /\ Fine(ql) /\ \A x : Has(ql, x) <=> Has(q, x) \/ Has(l, x)
    BY <1>2, Joined, JoinedClears DEF Whole
<1> HIDE DEF ql
<1>9. /\ Fine(qlr) /\ \A x : Has(qlr, x) <=> Has(ql, x) \/ Has(r, x)
    BY <1>3, <1>8, Joined, JoinedClears DEF Whole
<1> HIDE DEF qlr
<1>10. /\ Fine(qlra) /\ \A x : Has(qlra, x) <=> Has(qlr, x) \/ Has(a, x)
    BY <1>4, <1>9, Joined, JoinedClears DEF Whole
<1> HIDE DEF qlra
<1>11. /\ Fine(qlrac) /\ \A x : Has(qlrac, x) <=> Has(qlra, x) \/ Has(c, x)
    BY <1>4, <1>10, Joined, JoinedClears DEF Whole
<1> HIDE DEF qlrac
<1>12. /\ Whole(exit1) /\ ClearLast(exit1) /\ \A x : Has(exit1, x) <=> Has(qlrac, x) \/ Has(v, x)
    BY <1>6, <1>11, Joined, JoinedClears DEF Whole
<1> HIDE DEF exit1
<1>13. /\ Whole(exit2) /\ ClearLast(exit2) /\ \A x : Has(exit2, x) <=> Has(exit1, x) \/ Has(h1, x)
    BY <1>4, <1>5, <1>12, Joined, JoinedClears DEF Whole
<1> HIDE DEF exit2
<1>14. /\ Whole(exit3) /\ ClearLast(exit3) /\ \A x : Has(exit3, x) <=> Has(exit2, x) \/ Has(h2, x)
    BY <1>4, <1>5, <1>13, Joined, JoinedClears DEF Whole
<1> HIDE DEF exit3
<1>15. /\ Whole(exit4) /\ ClearLast(exit4) /\ \A x : Has(exit4, x) <=> Has(exit3, x) \/ Has(ps, x)
    BY <1>7, <1>14, Joined, JoinedClears DEF Whole
<1> HIDE DEF exit4
<1>16. \A x : Has(exit4, x) <=> \/ Has(q, x) \/ Has(l, x) \/ Has(r, x) \/ Has(a, x) \/ Has(c, x)
                               \/ Has(v, x) \/ Has(h1, x) \/ Has(h2, x) \/ Has(ps, x)
    BY <1>8, <1>9, <1>10, <1>11, <1>12, <1>13, <1>14, <1>15
<1>17. \A f \in {"queue", "lib"} : Has(exit4, LastOp(f))
    BY <1>2, <1>16 DEF LastOp, Lists
<1>18. exit4 # <<>>
    <2>1. Has(exit4, LastOp("lib"))
        BY <1>17
    <2> QED
        BY <2>1 DEF Has
<1>19. \A f \in Renamed : (f = "resume" => resume) => Has(exit4, LastOp(f))
    <2>1. \A f \in Renamed : LastOp(f) = <<"rename", f>>
        BY PlaylistAssumption DEF LastOp, Lists, Renamed
    <2> QED
        BY <1>3, <1>4, <1>16, <2>1 DEF Renamed
<1>20. \A p \in Playlist : mem[p] # Absent => Has(exit4, LastOp(p))
    BY <1>7, <1>16 DEF LastOp, Lists
<1> QED
    BY <1>1, <1>15, <1>17, <1>18, <1>19, <1>20 DEF Whole

-----------------------------------------------------------------------------
(* One step. *)

\* the names of the files
LEMMA NameFacts ==
    /\ \A f \in Renamed : f \in File /\ f \notin Lists /\ f \notin Playlist /\ LastOp(f) = <<"rename", f>>
    /\ \A f \in Lists : f \in File /\ f \notin Renamed /\ LastOp(f) = <<"write", f>>
    /\ \A f \in File : f \in Renamed \/ f \in Lists
    /\ \A f \in Lists : f = "queue" \/ f = "lib" \/ f \in Playlist
    /\ \A p \in Playlist : p \in Lists /\ p \in File /\ p \notin {"queue", "lib", "none"}
    /\ "queue" \in Lists /\ "lib" \in Lists /\ "none" \notin Lists /\ "resume" \in Renamed
BY PlaylistAssumption DEF Renamed, Lists, File, LastOp

\* the numbers that stand for contents
LEMMA Contents ==
    /\ Torn \in Content /\ Absent \in Content /\ Part \in Content /\ Empty \in Content
    /\ Torn # Absent /\ Torn # Part /\ Torn # Empty /\ Absent # Part /\ Absent # Empty
    /\ \A n \in 1..MaxContent : n \in Content /\ n # Torn /\ n # Absent
BY BoundAssumption DEF Content, Torn, Absent, Part, Empty

\* the next content is one that nothing has
LEMMA FreshIs ==
    ASSUME Types, Fresh <= MaxContent
    PROVE  Fresh \in 1..MaxContent
<1> DEFINE Above(n) == \A f \in File : mem[f] <= n /\ disk[f] <= n
           S == {n \in Nat : Above(n)}
           Is(n) == Above(n) /\ (n = 0 \/ \E f \in File : mem[f] = n \/ disk[f] = n)
<1>1. \A f \in File : mem[f] \in Int /\ disk[f] \in Int /\ mem[f] <= MaxContent /\ disk[f] <= MaxContent
    BY BoundAssumption DEF Types, Content, Torn, Absent, Part
<1>2. MaxContent \in S
    BY <1>1, BoundAssumption
<1> DEFINE Less == {p \in Nat \X Nat : p[1] < p[2]}
<1>3. PICK n \in S : \A k \in S : <<k, n>> \notin Less
    <2>1. IsWellFoundedOn(Less, Nat)
        BY NatLessThanWellFounded, Zenon DEF OpToRel
    <2>2. S \in SUBSET Nat /\ S # {}
        BY <1>2
    <2> HIDE DEF S, Less
    <2> QED
        BY <2>1, <2>2, WFMin
<1>4. n \in 0..MaxContent
    <2>1. n \in Nat /\ <<MaxContent, n>> \notin Less
        BY <1>2, <1>3
    <2> QED
        BY <2>1, BoundAssumption
<1>5. Is(n)
    <2>1. CASE n # 0
        <3>1. n - 1 \in Nat /\ n - 1 \notin S
            <4>1. n - 1 \in Nat /\ <<n - 1, n>> \in Less
                BY <1>4, <2>1
            <4> QED
                BY <1>3, <4>1
        <3>2. PICK f \in File : ~(mem[f] <= n - 1 /\ disk[f] <= n - 1)
            BY <3>1
        <3>3. mem[f] <= n /\ disk[f] <= n
            BY <1>3
        <3>4. mem[f] = n \/ disk[f] = n
            BY <1>1, <1>4, <3>2, <3>3
        <3> QED
            BY <1>3, <3>4
    <2>2. CASE n = 0
        BY <1>3, <2>2
    <2> QED
        BY <2>1, <2>2
<1> HIDE DEF Is
<1>6. (CHOOSE m \in 0..MaxContent : Is(m)) \in 0..MaxContent
    BY <1>4, <1>5
<1> QED
    BY <1>6, BoundAssumption DEF Fresh, Is

\* Each action preserves the invariant.
LEMMA StartStep ==
    ASSUME SInv, Start
    PROVE  SInv'
<1> USE NameFacts, Contents
<1>1. /\ phase = "down" /\ phase' = "up" /\ playing' = "none"
      /\ UNCHANGED <<disk, tmp, steps, saved_visible, saved_playing, resume, kept, failed, clean>>
    BY DEF Start
<1>2. steps = <<>> /\ loading = {}
    BY <1>1 DEF SInv, Types
<1>3. /\ loading' \subseteq Lists /\ "lib" \in loading' /\ (resume => "queue" \in loading')
      /\ \A p \in Playlist : p \in loading' <=> disk[p] # Absent
    BY DEF Start, ReadsLater
<1>4. /\ \A f \in Renamed : mem'[f] = disk[f] \/ mem'[f] = Empty
      /\ resume => \A f \in Renamed : mem'[f] = disk[f]
      /\ \A f \in Lists : mem'[f] # Torn /\ (mem'[f] # Absent => mem'[f] = Empty)
      /\ mem'["queue"] = Empty /\ mem'["lib"] = Empty
      /\ visible' \in Playlist /\ mem'[visible'] = Empty
      /\ disk[visible'] = Absent => \A p \in Playlist : disk[p] = Absent
      /\ \A p \in Playlist : p # visible' => mem'[p] = IF disk[p] = Absent THEN Absent ELSE Empty
    BY DEF Start
<1>5. mem' \in [File -> Content]
    BY DEF Start, SInv, Types
<1>6. visible' \in Playlist /\ mem'[visible'] # Absent
    BY <1>4
<1>7. Types'
    BY <1>1, <1>2, <1>3, <1>5, <1>6, ZenonT(60) DEF SInv, Types, Start
<1>8. Renames'
    BY <1>1, <1>4 DEF SInv, Renames
<1>9. InUse'
    BY <1>1, <1>3, <1>4, <1>6 DEF InUse
<1>10. ASSUME clean
       PROVE  Done'
    BY <1>1, <1>10 DEF SInv, Done, Saved, Cleared
<1>11. ASSUME clean, resume, failed = {}
       PROVE  /\ \A f \in File \ loading' : mem'[f] = disk[f]
              /\ \A f \in loading' : mem'[f] \in {Empty, Part}
              /\ kept.visible \in loading'
    <2>1. kept.visible \in Playlist /\ disk[kept.visible] # Absent
        BY <1>1, <1>11 DEF SInv, Done
    <2>2. disk[visible'] # Absent
        BY <1>4, <2>1
    <2>3. \A p \in Playlist : mem'[p] = IF disk[p] = Absent THEN Absent ELSE Empty
        BY <1>4, <2>2
    <2>4. \A f \in File \ loading' : mem'[f] = disk[f]
        BY <1>3, <1>4, <1>11, <2>3
    <2>5. \A f \in loading' : mem'[f] \in {Empty, Part}
        BY <1>3, <1>4, <2>3
    <2> QED
        BY <1>3, <2>1, <2>4, <2>5
<1>12. Starting'
    BY <1>1, <1>10, <1>11 DEF Starting
<1> QED
    BY <1>1, <1>7, <1>8, <1>9, <1>12 DEF SInv, Exiting

LEMMA ArrivesStep ==
    ASSUME SInv, NEW f \in File, Arrives(f)
    PROVE  SInv'
<1> USE NameFacts, Contents
<1>1. phase = "up" /\ f \in loading /\ f \in Lists /\ mem[f] = Empty
      /\ UNCHANGED <<phase, loading, disk, tmp, steps, visible, saved_visible, playing, saved_playing,
                     cursor, resume, kept, failed, clean>>
    BY DEF Arrives, SInv, Types
<1>2. /\ mem' \in [File -> Content]
      /\ mem'[f] = Part /\ \A g \in File : g # f => mem'[g] = mem[g]
    BY DEF Arrives, SInv, Types
<1>3. visible \in Playlist
    BY <1>1 DEF SInv, Types
<1>4. Types'
    BY <1>1, <1>2 DEF SInv, Types
<1>5. Renames'
    BY <1>1, <1>2 DEF SInv, Renames
<1>6. InUse'
    BY <1>1, <1>2, <1>3 DEF SInv, InUse
<1>7. ASSUME clean, failed = {}
      PROVE  Done'
    BY <1>1, <1>7 DEF SInv, Starting, Done, Saved, Cleared
<1>8. ASSUME clean, failed = {}, resume
      PROVE  /\ \A g \in File \ loading' : mem'[g] = disk[g]
             /\ \A g \in loading' : mem'[g] \in {Empty, Part}
             /\ kept.visible \in loading \/ visible \in {kept.visible, kept.playing}
             /\ playing \in {kept.playing, "none"}
    <2>1. /\ \A g \in File \ loading : mem[g] = disk[g]
          /\ \A g \in loading : mem[g] \in {Empty, Part}
          /\ kept.visible \in loading \/ visible \in {kept.visible, kept.playing}
          /\ playing \in {kept.playing, "none"}
        BY <1>1, <1>8 DEF SInv, Starting
    <2>2. \A g \in loading : g \in File
        BY DEF SInv, Types
    <2> QED
        BY <1>1, <1>2, <2>1, <2>2
<1>9. Starting'
    BY <1>1, <1>7, <1>8 DEF Starting
<1> QED
    BY <1>1, <1>4, <1>5, <1>6, <1>9 DEF SInv, Exiting

LEMMA LoadedStep ==
    ASSUME SInv, NEW f \in File, Loaded(f)
    PROVE  SInv'
<1> USE NameFacts, Contents
<1>1. phase = "up" /\ f \in loading /\ f \in Lists /\ loading' = loading \ {f}
      /\ UNCHANGED <<phase, disk, tmp, steps, saved_visible, saved_playing, resume, kept, failed, clean>>
    BY DEF Loaded, SInv, Types
<1>2. /\ mem' \in [File -> Content]
      /\ mem'[f] = disk[f] \/ (mem'[f] = mem[f] /\ mem[f] \notin {Empty, Part})
      /\ \A g \in File : g # f => mem'[g] = mem[g]
    BY DEF Loaded, SInv, Types
<1>3. PICK row \in BOOLEAN : /\ row => resume /\ f = saved_playing /\ mem'[f] # Empty
                             /\ Shown(f, row)
    BY DEF Loaded
<1>4. /\ visible' = visible \/ (visible' = f /\ f \in {saved_visible, saved_playing})
      /\ f = saved_visible /\ resume => visible' = f
      /\ playing' = playing \/ (playing' = f /\ f = saved_playing)
    BY <1>3, Zenon DEF Shown
<1>5. cursor' \in BOOLEAN
    <2>1. cursor \in BOOLEAN
        BY DEF SInv, Types
    <2> QED
        BY <1>3, <2>1, Zenon DEF Shown
<1>6. /\ visible \in Playlist /\ visible' \in Playlist
      /\ playing' \in Playlist \cup {"none"}
    BY <1>1, <1>4 DEF SInv, Types
<1>7. Types'
    <2>1. loading' \subseteq Lists
        BY <1>1 DEF SInv, Types
    <2> QED
        BY <1>1, <1>2, <1>5, <1>6, <2>1 DEF SInv, Types
<1>8. Renames'
    BY <1>1, <1>2 DEF SInv, Renames
<1>9. disk[f] # Absent \/ f \notin Playlist
    BY <1>1 DEF SInv, InUse
<1>10. InUse'
    <2>1. ASSUME NEW p \in Playlist
          PROVE  (p \in loading' => disk[p] # Absent) /\ (mem'[p] = Absent => disk[p] = Absent)
        BY <1>1, <1>2, <1>9 DEF SInv, InUse
    <2>2. mem'[visible'] # Absent
        <3>1. mem[visible] # Absent
            BY <1>1 DEF SInv, InUse
        <3>2. CASE visible' = f
            BY <1>1, <1>2, <1>6, <1>9, <2>1, <3>2
        <3>3. CASE visible' # f
            BY <1>2, <1>4, <1>6, <3>1, <3>3
        <3> QED
            BY <3>2, <3>3
    <2>3. ASSUME NEW g \in Lists, mem'[g] = Torn
          PROVE  disk[g] = Torn
        BY <1>1, <1>2, <2>3 DEF SInv, InUse
    <2> QED
        BY <1>1, <2>1, <2>2, <2>3 DEF InUse
<1>11. ASSUME clean, failed = {}
       PROVE  Done'
    BY <1>1, <1>11 DEF SInv, Starting, Done, Saved, Cleared
<1>12. ASSUME clean, failed = {}, resume
       PROVE  /\ \A g \in File \ loading' : mem'[g] = disk[g]
              /\ \A g \in loading' : mem'[g] \in {Empty, Part}
              /\ kept.visible \in loading' \/ visible' \in {kept.visible, kept.playing}
              /\ playing' \in {kept.playing, "none"}
    <2>1. /\ \A g \in File \ loading : mem[g] = disk[g]
          /\ \A g \in loading : mem[g] \in {Empty, Part}
          /\ kept.visible \in loading \/ visible \in {kept.visible, kept.playing}
          /\ playing \in {kept.playing, "none"}
        BY <1>1, <1>12 DEF SInv, Starting
    <2>2. saved_visible = kept.visible /\ saved_playing = kept.playing
        BY <1>1, <1>12 DEF SInv, Starting, Done
    <2>3. \A g \in loading : g \in File
        BY DEF SInv, Types
    <2>4. mem'[f] = disk[f]
        BY <1>1, <1>2, <2>1
    <2>5. \A g \in File \ loading' : mem'[g] = disk[g]
        BY <1>1, <1>2, <2>1, <2>4
    <2>6. \A g \in loading' : mem'[g] \in {Empty, Part}
        BY <1>1, <1>2, <2>1, <2>3
    <2>7. kept.visible \in loading' \/ visible' \in {kept.visible, kept.playing}
        BY <1>1, <1>4, <1>12, <2>1, <2>2
    <2>8. playing' \in {kept.playing, "none"}
        BY <1>4, <2>1, <2>2
    <2> QED
        BY <2>5, <2>6, <2>7, <2>8
<1>13. Starting'
    BY <1>1, <1>11, <1>12 DEF Starting
<1> QED
    BY <1>1, <1>7, <1>8, <1>10, <1>13 DEF SInv, Exiting

LEMMA ChangeStep ==
    ASSUME SInv, NEW f \in File, Change(f)
    PROVE  SInv'
<1> USE NameFacts, Contents
<1>1. phase = "up" /\ clean' = FALSE
      /\ UNCHANGED <<phase, loading, disk, tmp, steps, visible, saved_visible, playing, saved_playing,
                     cursor, resume, kept, failed>>
    BY DEF Change, Running
<1>2. Fresh \in 1..MaxContent
    BY FreshIs DEF Change, SInv
<1>3. /\ mem' \in [File -> Content]
      /\ mem'[f] # Torn /\ mem'[f] # Absent /\ \A g \in File : g # f => mem'[g] = mem[g]
    BY <1>2 DEF Change, SInv, Types
<1>4. visible \in Playlist
    BY <1>1 DEF SInv, Types
<1>5. Types'
    BY <1>1, <1>3 DEF SInv, Types
<1>6. Renames'
    BY <1>1, <1>3 DEF SInv, Renames
<1>7. InUse'
    BY <1>1, <1>3, <1>4 DEF SInv, InUse
<1> QED
    BY <1>1, <1>5, <1>6, <1>7 DEF SInv, Exiting, Starting

LEMMA DeletePlaylistStep ==
    ASSUME SInv, NEW p \in Playlist, DeletePlaylist(p)
    PROVE  SInv'
<1> USE NameFacts, Contents
<1>1. phase = "up" /\ clean' = FALSE /\ cursor' = FALSE /\ loading' = loading \ {p}
      /\ playing' \in {playing, "none"}
      /\ UNCHANGED <<phase, tmp, steps, saved_visible, saved_playing, resume, kept, failed>>
    BY DEF DeletePlaylist, Running
<1>2. PICK q \in Playlist \ {p} :
        /\ mem' = [mem EXCEPT ![p] = Absent, ![q] = IF @ = Absent THEN Empty ELSE @]
        /\ visible' = (IF visible = p THEN q ELSE visible)
    BY DEF DeletePlaylist
<1>3. /\ mem' \in [File -> Content] /\ disk' \in [File -> Content]
      /\ disk'[p] = Absent /\ \A f \in File : f # p => disk'[f] = disk[f]
      /\ mem'[p] = Absent /\ mem'[q] = (IF mem[q] = Absent THEN Empty ELSE mem[q])
      /\ \A f \in File : f # p /\ f # q => mem'[f] = mem[f]
    BY <1>2 DEF DeletePlaylist, SInv, Types
<1>4. visible \in Playlist /\ visible' \in Playlist
    BY <1>1, <1>2 DEF SInv, Types
<1>5. Types'
    BY <1>1, <1>3, <1>4 DEF SInv, Types
<1>6. Renames'
    BY <1>1, <1>3 DEF SInv, Renames
<1>7. InUse'
    BY <1>1, <1>2, <1>3, <1>4 DEF SInv, InUse
<1> QED
    BY <1>1, <1>5, <1>6, <1>7 DEF SInv, Exiting, Starting

LEMMA LookStep ==
    ASSUME SInv, Look
    PROVE  SInv'
<1>1. phase = "up" /\ clean' = FALSE
      /\ UNCHANGED <<phase, loading, mem, disk, tmp, steps, saved_visible, playing, saved_playing,
                     resume, kept, failed>>
    BY DEF Look, Running
<1>2. cursor' \in BOOLEAN /\ visible' \in Playlist /\ mem[visible'] # Absent
    BY <1>1 DEF Look, SInv, Types, InUse
<1>3. Types'
    BY <1>1, <1>2 DEF SInv, Types
<1>4. Renames' /\ InUse'
    BY <1>1, <1>2 DEF SInv, Renames, InUse
<1> QED
    BY <1>1, <1>3, <1>4 DEF SInv, Exiting, Starting

LEMMA PlayStep ==
    ASSUME SInv, Play
    PROVE  SInv'
<1>1. phase = "up" /\ clean' = FALSE
      /\ UNCHANGED <<phase, loading, mem, disk, tmp, steps, visible, saved_visible, saved_playing,
                     resume, kept, failed>>
    BY DEF Play, Running
<1>2. playing' \in Playlist \cup {"none"}
    BY <1>1 DEF Play, SInv, Types
<1>3. cursor' \in BOOLEAN
    <2>1. cursor \in BOOLEAN
        BY DEF SInv, Types
    <2> QED
        BY <2>1, Zenon DEF Play
<1>4. Types'
    BY <1>1, <1>2, <1>3 DEF SInv, Types
<1>5. Renames' /\ InUse'
    BY <1>1 DEF SInv, Renames, InUse
<1> QED
    BY <1>1, <1>4, <1>5 DEF SInv, Exiting, Starting

LEMMA QuitStep ==
    ASSUME SInv, Quit
    PROVE  SInv'
<1> USE NameFacts, Contents
<1>1. phase = "up" /\ phase' = "exit" /\ loading' = {} /\ steps' = ExitOps /\ clean' = FALSE
      /\ UNCHANGED <<failed, mem, disk, tmp, visible, saved_visible, saved_playing, playing, cursor, resume>>
    BY DEF Quit, Running
<1>2. /\ kept' = [mem |-> mem, had |-> [f \in Lists |-> Had(f)], visible |-> visible, playing |-> playing,
                   cursor |-> cursor, torn |-> {f \in Lists : disk[f] = Torn}]
      /\ kept'.mem = mem /\ kept'.visible = visible /\ kept'.playing = playing /\ kept'.cursor = cursor
      /\ kept'.torn = {f \in Lists : disk[f] = Torn}
    BY DEF Quit
<1>3. visible \in Playlist /\ mem[visible] # Absent
    BY <1>1 DEF SInv, Types, InUse
<1>4. Types'
    <2>1. [f \in Lists |-> Had(f)] \in [Lists -> Content]
        BY DEF Had, SInv, Types
    <2>2. kept' \in Memory
        <3> DEFINE h == [f \in Lists |-> Had(f)]
        <3>1. /\ mem \in [File -> Content] /\ visible \in Playlist /\ playing \in Playlist \cup {"none"}
              /\ cursor \in BOOLEAN /\ {f \in Lists : disk[f] = Torn} \subseteq Lists
            BY <1>3 DEF SInv, Types
        <3>2. kept' = [mem |-> mem, had |-> h, visible |-> visible, playing |-> playing,
                       cursor |-> cursor, torn |-> {f \in Lists : disk[f] = Torn}]
            BY <1>2
        <3>3. h \in [Lists -> Content]
            BY <2>1
        <3> HIDE DEF h
        <3> QED
            BY <3>1, <3>2, <3>3 DEF Memory
    <2> QED
        BY <1>1, <1>3, <2>2, ExitOpsAre DEF SInv, Types
<1>5. /\ Sane(steps') /\ ClearLast(steps') /\ steps'[1][1] # "rename"
      /\ Ahead("queue")' /\ Ahead("lib")'
      /\ \A f \in Renamed : (f = "resume" => resume) => Ahead(f)'
      /\ \A p \in Playlist : mem[p] # Absent => Ahead(p)'
    BY <1>1, ExitOpsAre DEF Ahead, LastOp
<1>6. \A f \in Lists : /\ mem[f] = Torn => f \in kept'.torn
                       /\ disk[f] = Torn => f \in kept'.torn
    BY <1>1, <1>2 DEF SInv, InUse
<1>7. ASSUME NEW f \in File
      PROVE  Ahead(f)' \/ Saved(f)'
    <2>1. CASE f \in Playlist
        BY <1>1, <1>2, <1>5, <2>1 DEF SInv, InUse, Saved
    <2>2. CASE f \in Renamed
        BY <1>1, <1>5, <2>2 DEF Saved
    <2>3. CASE f \in {"queue", "lib"}
        BY <1>5, <2>3
    <2> QED
        BY <2>1, <2>2, <2>3
<1>8. \A f \in Renamed : ~AtHead("rename", f)'
    BY <1>5 DEF AtHead
<1>9. Exiting'
    BY <1>1, <1>2, <1>3, <1>5, <1>6, <1>7, <1>8 DEF Exiting
<1>10. Renames'
    BY <1>1 DEF SInv, Renames
<1> QED
    BY <1>1, <1>4, <1>9, <1>10 DEF SInv, InUse, Starting

LEMMA ExitedStep ==
    ASSUME SInv, Exited
    PROVE  SInv'
<1> USE NameFacts, Contents
<1>1. phase = "exit" /\ steps = <<>> /\ phase' = "down" /\ clean' = TRUE
      /\ UNCHANGED <<loading, disk, tmp, steps, visible, saved_visible, saved_playing, playing, cursor, resume, kept, failed>>
    BY DEF Exited
<1>2. mem' \in [File -> Content] /\ \A f \in File : mem'[f] = Absent
    BY DEF Exited
<1>3. \A f \in File : ~Ahead(f)
    BY <1>1 DEF Ahead, Has
<1>4. visible \in Playlist /\ visible = kept.visible
    BY <1>1 DEF SInv, Types, Exiting
<1>5. Done
    <2>1. \A f \in File : Saved(f) \/ Cleared(f)
        BY <1>1, <1>3 DEF SInv, Exiting
    <2>2. disk[visible] # Absent \/ visible \in failed
        BY <1>1, <1>3, <1>4 DEF SInv, Exiting
    <2>3. resume => "resume" \in failed \/ (saved_visible = kept.visible /\ saved_playing = kept.playing)
        BY <1>1, <1>3 DEF SInv, Exiting
    <2> QED
        BY <1>4, <2>1, <2>2, <2>3 DEF Done
<1>6. Done'
    BY <1>1, <1>5 DEF Done, Saved, Cleared
<1>7. Types'
    BY <1>1, <1>2 DEF SInv, Types
<1>8. Renames'
    BY <1>1, <1>2 DEF SInv, Renames
<1> QED
    BY <1>1, <1>6, <1>7, <1>8 DEF SInv, InUse, Exiting, Starting

LEMMA CrashStep ==
    ASSUME SInv, Crash
    PROVE  SInv'
<1> USE NameFacts, Contents
<1>1. phase' = "down" /\ steps' = <<>> /\ loading' = {} /\ clean' = FALSE /\ cursor' = FALSE
      /\ UNCHANGED <<disk, tmp, visible, saved_visible, saved_playing, playing, resume, kept, failed>>
    BY DEF Crash
<1>2. mem' \in [File -> Content] /\ \A f \in File : mem'[f] = Absent
    BY DEF Crash
<1>3. Types'
    <2>1. cursor' \in BOOLEAN /\ clean' \in BOOLEAN /\ ~clean'
        BY <1>1, Zenon
    <2>2. <<>> \in Seq(ExitOp)
        OBVIOUS
    <2> QED
        BY <1>1, <1>2, <2>1, <2>2 DEF SInv, Types
<1>4. Renames'
    BY <1>1, <1>2 DEF SInv, Renames
<1> QED
    BY <1>1, <1>3, <1>4 DEF SInv, InUse, Exiting, Starting

\* what is ahead while an exit goes on
Going(s) == s \in Seq(ExitOp) /\ Sane(s) /\ ClearLast(s)

\* what every step of an exit has in common, but for a file that cannot be created
LEMMA OpStep ==
    ASSUME SInv, NEW kind, Op(kind)
    PROVE  /\ phase = "exit" /\ Going(steps')
           /\ steps[1] = <<kind, This>> /\ This \in File
           /\ kind \in {"truncate", "write"} => This \in Lists
           /\ kind \in {"create", "fill", "rename"} => This \in Renamed
           /\ \A x : Has(steps, x) <=> x = <<kind, This>> \/ Has(steps', x)
           /\ kind = "truncate" => steps' # <<>> /\ steps'[1] = <<"write", This>>
           /\ kind = "create" => steps' # <<>> /\ steps'[1] = <<"fill", This>>
           /\ kind = "fill" => steps' # <<>> /\ steps'[1] = <<"rename", This>> /\ Has(steps, <<"rename", This>>)
           /\ kind # "fill" => \A f : ~AtHead("rename", f)'
<1>1. phase = "exit" /\ steps # <<>> /\ steps[1][1] = kind /\ steps' = Tail(steps)
    BY DEF Op
<1>2. steps \in Seq(ExitOp) /\ Sane(steps) /\ ClearLast(steps)
    BY <1>1 DEF SInv, Types, Exiting
<1>3. Len(steps) \in Nat \ {0} /\ steps[1] \in ExitOp
    BY <1>1, <1>2
<1>4. steps[1] = <<kind, This>> /\ This \in File
    BY <1>1, <1>3, OpParts DEF This
<1>5. Sane(steps)!(1)
    BY <1>2, <1>3 DEF Sane
<1>6. /\ Going(steps')
      /\ \A x : Has(steps, x) <=> x = <<kind, This>> \/ Has(steps', x)
      /\ Len(steps) > 1 => steps' # <<>> /\ steps'[1] = steps[2]
      /\ steps' # <<>> /\ steps'[1][1] = "rename" => kind = "fill"
    BY <1>1, <1>2, <1>4, TailOps DEF Going
<1>7. /\ kind = "truncate" => Len(steps) > 1 /\ steps[2] = <<"write", This>>
      /\ kind = "create" => Len(steps) > 1 /\ steps[2] = <<"fill", This>>
      /\ kind = "fill" => Len(steps) > 1 /\ steps[2] = <<"rename", This>>
    BY <1>3, <1>4, <1>5 DEF This
<1>8. kind = "fill" => Has(steps, <<"rename", This>>)
    BY <1>3, <1>7 DEF Has
<1>9. kind # "fill" => \A f : ~AtHead("rename", f)'
    BY <1>6 DEF AtHead
<1> QED
    BY <1>1, <1>4, <1>5, <1>6, <1>7, <1>8, <1>9 DEF This

LEMMA TruncateStep ==
    ASSUME SInv, Truncate
    PROVE  SInv'
<1> USE NameFacts, Contents
<1>0. PICK f : f = This
    OBVIOUS
<1>1. /\ phase = "exit" /\ Going(steps') /\ steps[1] = <<"truncate", f>> /\ f \in Lists
      /\ \A x : Has(steps, x) <=> x = <<"truncate", f>> \/ Has(steps', x)
      /\ steps' # <<>> /\ steps'[1] = <<"write", f>> /\ \A g : ~AtHead("rename", g)'
    BY <1>0, OpStep DEF Truncate
<1>2. UNCHANGED <<phase, mem, loading, visible, cursor, resume, kept, clean, tmp, failed, saved_visible, saved_playing, playing>>
    BY DEF Truncate, OnlyFiles, SavedAlone
<1>3. disk' \in [File -> Content] /\ disk'[f] = Torn /\ \A g \in File : g # f => disk'[g] = disk[g]
    BY <1>0, <1>1 DEF Truncate, SInv, Types
<1>4. visible \in Playlist /\ loading = {} /\ ~clean
    BY <1>1 DEF SInv, Types
<1>5. Types'
    BY <1>1, <1>2, <1>3 DEF SInv, Types, Going
<1>6. Renames'
    BY <1>1, <1>2, <1>3 DEF SInv, Renames
<1>7. /\ \A g \in File : Ahead(g)' <=> Ahead(g)
      /\ AtHead("write", f)' /\ \A g : ~AtHead("write", g)
    <2>1. \A g \in File : LastOp(g) # <<"truncate", f>>
        OBVIOUS
    <2> QED
        BY <1>1, <2>1 DEF Ahead, AtHead, LastOp
<1>8. Ahead(f)'
    <2>1. Len(steps') \in Nat /\ 1 \in 1..Len(steps')
        BY <1>1 DEF Going
    <2>2. Has(steps', LastOp(f))
        BY <1>1, <2>1 DEF Has
    <2> QED
        BY <2>2 DEF Ahead, LastOp
<1>9. ASSUME NEW g \in Lists
      PROVE  /\ mem[g] = Torn => g \in kept.torn
             /\ disk'[g] = Torn => g \in kept.torn \cup failed \/ AtHead("write", g)'
    BY <1>1, <1>3, <1>7 DEF SInv, Exiting
<1>10. ASSUME NEW g \in File
       PROVE  /\ mem[g] = kept.mem[g] \/ Cleared(g) \/ ~Ahead(g)
              /\ Ahead(g)' \/ Saved(g)' \/ Cleared(g)
    BY <1>1, <1>2, <1>3, <1>7, <1>8 DEF SInv, Exiting, Saved
<1>11. Ahead(visible)' \/ disk'[visible] # Absent \/ visible \in failed
    BY <1>1, <1>2, <1>3, <1>4, <1>7 DEF SInv, Exiting
<1>12. Exiting'
    BY <1>1, <1>2, <1>4, <1>7, <1>9, <1>10, <1>11 DEF SInv, Exiting, Going, Cleared
<1> QED
    BY <1>1, <1>2, <1>4, <1>5, <1>6, <1>12 DEF SInv, InUse, Starting

LEMMA WriteStep ==
    ASSUME SInv, Write
    PROVE  SInv'
<1> USE NameFacts, Contents
<1>0. PICK f : f = This
    OBVIOUS
<1>1. /\ phase = "exit" /\ Going(steps') /\ steps[1] = <<"write", f>> /\ f \in Lists
      /\ \A x : Has(steps, x) <=> x = <<"write", f>> \/ Has(steps', x)
      /\ \A g : ~AtHead("rename", g)'
    BY <1>0, OpStep DEF Write
<1>2. UNCHANGED <<phase, mem, loading, visible, cursor, resume, kept, clean, tmp, saved_visible, saved_playing, playing>>
    BY DEF Write, OnlyFiles, SavedAlone
<1>3. /\ disk' \in [File -> Content] /\ \A g \in File : g # f => disk'[g] = disk[g]
      /\ failed \subseteq failed' /\ failed' \subseteq File
      /\ disk'[f] = mem[f] \/ (disk'[f] = disk[f] /\ f \in failed')
    <2>1. /\ disk \in [File -> Content] /\ mem \in [File -> Content] /\ failed \subseteq File /\ f \in File
        BY <1>1 DEF SInv, Types
    <2>2. \/ disk' = [disk EXCEPT ![f] = mem[f]] /\ failed' = failed
          \/ disk' = disk /\ failed' = failed \cup {f}
        BY <1>0 DEF Write, Fails
    <2> QED
        BY <2>1, <2>2
<1>4. visible \in Playlist /\ loading = {} /\ ~clean
    BY <1>1 DEF SInv, Types
<1>5. Types'
    BY <1>1, <1>2, <1>3 DEF SInv, Types, Going
<1>6. Renames'
    BY <1>1, <1>2, <1>3 DEF SInv, Renames
<1>7. /\ \A g \in File : Ahead(g)' => Ahead(g)
      /\ \A g \in File : g # f => (Ahead(g)' <=> Ahead(g))
      /\ Ahead(f) /\ \A g : g # f => ~AtHead("write", g)
    <2>1. LastOp(f) = <<"write", f>> /\ \A g \in File : g # f => LastOp(g) # <<"write", f>>
        BY <1>1
    <2> QED
        BY <1>1, <2>1 DEF Ahead, AtHead, LastOp
<1>8. mem[f] = kept.mem[f] \/ Cleared(f)
    BY <1>1, <1>7 DEF SInv, Exiting
<1>9. ASSUME NEW g \in Lists
      PROVE  /\ mem[g] = Torn => g \in kept.torn
             /\ disk'[g] = Torn => g \in kept.torn \cup failed'
    BY <1>1, <1>3, <1>7 DEF SInv, Exiting
<1>10. ASSUME NEW g \in File
       PROVE  /\ mem[g] = kept.mem[g] \/ Cleared(g) \/ ~Ahead(g)
              /\ Ahead(g)' \/ Saved(g)' \/ Cleared(g)
    <2>1. mem[g] = kept.mem[g] \/ Cleared(g) \/ ~Ahead(g)
        BY <1>1 DEF SInv, Exiting
    <2>2. CASE g = f
        BY <1>2, <1>3, <1>8, <2>2 DEF Saved
    <2>3. CASE g # f
        BY <1>1, <1>2, <1>3, <1>7, <2>3 DEF SInv, Exiting, Saved
    <2> QED
        BY <2>1, <2>2, <2>3
<1>11. Ahead(visible)' \/ disk'[visible] # Absent \/ visible \in failed'
    <2>1. mem[visible] # Absent
        BY <1>1 DEF SInv, Exiting
    <2>2. CASE visible = f
        BY <1>3, <2>1, <2>2
    <2>3. CASE visible # f
        BY <1>1, <1>2, <1>3, <1>4, <1>7, <2>3 DEF SInv, Exiting
    <2> QED
        BY <2>2, <2>3
<1>12. resume => Ahead("resume")' \/ "resume" \in failed' \/ (saved_visible = kept.visible /\ saved_playing = kept.playing)
    BY <1>1, <1>3, <1>7 DEF SInv, Exiting
<1>13. Exiting'
    BY <1>1, <1>2, <1>4, <1>7, <1>9, <1>10, <1>11, <1>12 DEF SInv, Exiting, Going, Cleared
<1> QED
    BY <1>1, <1>2, <1>4, <1>5, <1>6, <1>13 DEF SInv, InUse, Starting

LEMMA FillStep ==
    ASSUME SInv, Fill
    PROVE  SInv'
<1> USE NameFacts, Contents
<1>0. PICK f : f = This
    OBVIOUS
<1>1. /\ phase = "exit" /\ Going(steps') /\ steps[1] = <<"fill", f>> /\ f \in Renamed
      /\ \A x : Has(steps, x) <=> x = <<"fill", f>> \/ Has(steps', x)
      /\ steps' # <<>> /\ steps'[1] = <<"rename", f>> /\ Has(steps, <<"rename", f>>)
    BY <1>0, OpStep DEF Fill
<1>2. UNCHANGED <<phase, mem, disk, loading, visible, cursor, resume, kept, clean, saved_visible, saved_playing, playing>>
    BY DEF Fill, OnlyFiles, SavedAlone
<1>3. /\ tmp' \in [Renamed -> Content] /\ failed \subseteq failed' /\ failed' \subseteq File
      /\ tmp'[f] = mem[f] \/ f \in failed'
    <2>1. /\ tmp \in [Renamed -> Content] /\ mem \in [File -> Content]
          /\ failed \subseteq File /\ f \in File
        BY <1>1 DEF SInv, Types
    <2>2. CASE tmp' = [tmp EXCEPT ![f] = mem[f]] /\ UNCHANGED failed
        BY <1>1, <2>1, <2>2
    <2>3. CASE failed' = failed \cup {f} /\ UNCHANGED tmp
        BY <2>1, <2>3
    <2> QED
        BY <1>0, <2>2, <2>3 DEF Fill, Fails
<1>4. visible \in Playlist /\ loading = {} /\ ~clean
    BY <1>1 DEF SInv, Types
<1>5. Types'
    BY <1>1, <1>2, <1>3 DEF SInv, Types, Going
<1>6. Renames'
    BY <1>2, <1>3 DEF SInv, Renames
<1>7. /\ \A g \in File : Ahead(g)' <=> Ahead(g)
      /\ Ahead(f) /\ \A g : ~AtHead("write", g)
    <2>1. LastOp(f) = <<"rename", f>> /\ \A g \in File : LastOp(g) # <<"fill", f>>
        BY <1>1
    <2> QED
        BY <1>1, <2>1 DEF Ahead, AtHead, LastOp
<1>8. mem[f] = kept.mem[f] /\ (mem[f] = Torn => f \in failed)
    <2>1. mem[f] = kept.mem[f] \/ Cleared(f)
        BY <1>1, <1>7 DEF SInv, Exiting
    <2>2. ~Cleared(f)
        BY <1>1, <1>4 DEF SInv, Exiting, Cleared
    <2> QED
        BY <1>1, <2>1, <2>2 DEF SInv, Renames
<1>9. \A g \in Renamed : AtHead("rename", g)' =>
         /\ tmp'[g] = Torn => g \in failed'
         /\ tmp'[g] = kept.mem[g] \/ g \in failed'
    BY <1>1, <1>3, <1>8 DEF AtHead
<1>10. ASSUME NEW g \in Lists
       PROVE  /\ mem[g] = Torn => g \in kept.torn
              /\ disk[g] = Torn => g \in kept.torn \cup failed'
    BY <1>1, <1>3, <1>7 DEF SInv, Exiting
<1>11. ASSUME NEW g \in File
       PROVE  /\ mem[g] = kept.mem[g] \/ Cleared(g) \/ ~Ahead(g)
              /\ Ahead(g)' \/ Saved(g)' \/ Cleared(g)
    BY <1>1, <1>2, <1>3, <1>7 DEF SInv, Exiting, Saved
<1>12. /\ Ahead(visible)' \/ disk[visible] # Absent \/ visible \in failed'
       /\ resume => Ahead("resume")' \/ "resume" \in failed' \/ (saved_visible = kept.visible /\ saved_playing = kept.playing)
    BY <1>1, <1>2, <1>3, <1>4, <1>7 DEF SInv, Exiting
<1>13. Exiting'
    BY <1>1, <1>2, <1>4, <1>7, <1>9, <1>10, <1>11, <1>12 DEF SInv, Exiting, Going, Cleared
<1> QED
    BY <1>1, <1>2, <1>4, <1>5, <1>6, <1>13 DEF SInv, InUse, Starting

LEMMA RenameStep ==
    ASSUME SInv, Rename
    PROVE  SInv'
<1> USE NameFacts, Contents
<1>0. PICK f : f = This
    OBVIOUS
<1>1. /\ phase = "exit" /\ Going(steps') /\ steps[1] = <<"rename", f>> /\ f \in Renamed
      /\ \A x : Has(steps, x) <=> x = <<"rename", f>> \/ Has(steps', x)
      /\ \A g : ~AtHead("rename", g)'
    BY <1>0, OpStep DEF Rename
<1>2. UNCHANGED <<phase, mem, loading, visible, playing, cursor, resume, kept, clean, failed>>
    BY DEF Rename, OnlyFiles
<1>3. AtHead("rename", f)
    BY <1>1 DEF AtHead, Rename, Op
<1>4. /\ tmp[f] = Torn => f \in failed
      /\ tmp[f] = kept.mem[f] \/ f \in failed
    BY <1>1, <1>3 DEF SInv, Exiting
<1>5. /\ disk' \in [File -> Content] /\ tmp' \in [Renamed -> Content]
      /\ disk'[f] = tmp[f] /\ \A g \in File : g # f => disk'[g] = disk[g]
    BY <1>0, <1>1 DEF Rename, SInv, Types
<1>6. visible \in Playlist /\ loading = {} /\ ~clean /\ visible = kept.visible /\ playing = kept.playing
    BY <1>1 DEF SInv, Types, Exiting
<1>7. /\ saved_visible' \in Playlist \cup {"none"} /\ saved_playing' \in Playlist \cup {"none"}
      /\ f # "resume" => saved_visible' = saved_visible /\ saved_playing' = saved_playing
      /\ f = "resume" => tmp[f] = Torn \/ (saved_visible' = visible /\ saved_playing' = playing)
    BY <1>0, <1>6 DEF Rename, SavedAlone, SInv, Types
<1>8. Types'
    BY <1>1, <1>2, <1>5, <1>7 DEF SInv, Types, Going
<1>9. Renames'
    BY <1>1, <1>2, <1>4, <1>5 DEF SInv, Renames
<1>10. /\ \A g \in File : Ahead(g)' => Ahead(g)
       /\ \A g \in File : g # f => (Ahead(g)' <=> Ahead(g))
       /\ \A g : ~AtHead("write", g)
    <2>1. \A g \in File : g # f => LastOp(g) # <<"rename", f>>
        BY <1>1
    <2> QED
        BY <1>1, <2>1 DEF Ahead, AtHead, LastOp
<1>11. ASSUME NEW g \in Lists
       PROVE  /\ mem[g] = Torn => g \in kept.torn
              /\ disk'[g] = Torn => g \in kept.torn \cup failed
    BY <1>1, <1>5, <1>10 DEF SInv, Exiting
<1>12. ASSUME NEW g \in File
       PROVE  /\ mem[g] = kept.mem[g] \/ Cleared(g) \/ ~Ahead(g)
              /\ Ahead(g)' \/ Saved(g)' \/ Cleared(g)
    <2>1. mem[g] = kept.mem[g] \/ Cleared(g) \/ ~Ahead(g)
        BY <1>1 DEF SInv, Exiting
    <2>2. CASE g = f
        BY <1>2, <1>4, <1>5, <2>1, <2>2 DEF Saved
    <2>3. CASE g # f
        BY <1>1, <1>2, <1>5, <1>10, <2>3 DEF SInv, Exiting, Saved
    <2> QED
        BY <2>1, <2>2, <2>3
<1>13. Ahead(visible)' \/ disk'[visible] # Absent \/ visible \in failed
    BY <1>1, <1>2, <1>5, <1>6, <1>10 DEF SInv, Exiting
<1>14. resume => Ahead("resume")' \/ "resume" \in failed \/ (saved_visible' = kept.visible /\ saved_playing' = kept.playing)
    BY <1>1, <1>4, <1>6, <1>7, <1>10 DEF SInv, Exiting
<1>15. Exiting'
    BY <1>1, <1>2, <1>6, <1>10, <1>11, <1>12, <1>13, <1>14 DEF SInv, Exiting, Going, Cleared
<1> QED
    BY <1>1, <1>2, <1>6, <1>8, <1>9, <1>15 DEF SInv, InUse, Starting

LEMMA CreateStep ==
    ASSUME SInv, Create
    PROVE  SInv'
<1> USE NameFacts, Contents
<1>0. PICK f : f = This
    OBVIOUS
<1>1. /\ phase = "exit" /\ steps # <<>> /\ steps[1][1] = "create"
      /\ UNCHANGED <<phase, mem, disk, loading, visible, cursor, resume, kept, clean, saved_visible, saved_playing, playing>>
    BY DEF Create, OnlyFiles, SavedAlone
<1>2. steps \in Seq(ExitOp) /\ Sane(steps) /\ ClearLast(steps)
    BY <1>1 DEF SInv, Types, Exiting
<1>3. steps[1] = <<"create", f>> /\ f \in Renamed
    <2>1. 1 \in 1..Len(steps) /\ steps[1] \in ExitOp
        BY <1>1, <1>2
    <2>2. Sane(steps)!(1)
        BY <1>2, <2>1 DEF Sane
    <2> QED
        BY <1>0, <1>1, <2>1, <2>2, OpParts DEF This
<1>4. /\ Going(steps') /\ \A g : ~AtHead("rename", g)'
      /\ tmp' \in [Renamed -> Content] /\ failed \subseteq failed' /\ failed' \subseteq File
      /\ \A x : Has(steps', x) => Has(steps, x)
      /\ \A g \in File : g # f => (Has(steps', LastOp(g)) <=> Has(steps, LastOp(g)))
      /\ (Has(steps', LastOp(f)) <=> Has(steps, LastOp(f))) \/ f \in failed'
    <2>1. CASE tmp' = [tmp EXCEPT ![This] = Torn] /\ steps' = Tail(steps) /\ UNCHANGED <<failed, faults>>
        <3>1. Op("create")
            BY <1>1, <2>1 DEF Op
        <3>2. /\ Going(steps') /\ \A g : ~AtHead("rename", g)'
              /\ \A x : Has(steps, x) <=> x = <<"create", f>> \/ Has(steps', x)
            BY <1>0, <3>1, OpStep
        <3>3. tmp' \in [Renamed -> Content] /\ failed' = failed /\ failed \subseteq File
            BY <1>0, <1>3, <2>1 DEF SInv, Types
        <3>4. \A g \in File : LastOp(g) # <<"create", f>>
            OBVIOUS
        <3> QED
            BY <1>3, <3>2, <3>3, <3>4
    <2>2. CASE Fails /\ steps' = SubSeq(steps, 4, Len(steps)) /\ UNCHANGED tmp
        <3>1. /\ Going(steps')
              /\ \A x : Has(steps, x) <=> Has(steps', x) \/ x \in {<<"create", f>>, <<"fill", f>>, <<"rename", f>>}
              /\ steps' # <<>> => steps'[1][1] # "rename"
            BY <1>0, <1>1, <1>2, <2>2, SkipOps DEF Going, This
        <3>2. \A g : ~AtHead("rename", g)'
            BY <3>1 DEF AtHead
        <3>3. tmp' \in [Renamed -> Content] /\ failed' = failed \cup {f} /\ failed' \subseteq File
            BY <1>0, <1>3, <2>2 DEF SInv, Types, Fails
        <3>4. \A g \in File : g # f => LastOp(g) \notin {<<"create", f>>, <<"fill", f>>, <<"rename", f>>}
            OBVIOUS
        <3> QED
            BY <3>1, <3>2, <3>3, <3>4
    <2> QED
        BY <2>1, <2>2 DEF Create
<1>5. visible \in Playlist /\ loading = {} /\ ~clean
    BY <1>1 DEF SInv, Types
<1>6. Types'
    BY <1>1, <1>4 DEF SInv, Types, Going
<1>7. Renames'
    BY <1>1, <1>4 DEF SInv, Renames
<1>8. /\ \A g \in File : Ahead(g)' => Ahead(g)
      /\ \A g \in File : (Ahead(g)' <=> Ahead(g)) \/ g \in failed'
      /\ \A g \in Lists : Ahead(g)' <=> Ahead(g)
      /\ \A g : ~AtHead("write", g)
    BY <1>3, <1>4 DEF Ahead, AtHead, LastOp
<1>9. ASSUME NEW g \in Lists
      PROVE  /\ mem[g] = Torn => g \in kept.torn
             /\ disk[g] = Torn => g \in kept.torn \cup failed'
    BY <1>1, <1>4, <1>8 DEF SInv, Exiting
<1>10. ASSUME NEW g \in File
       PROVE  /\ mem[g] = kept.mem[g] \/ Cleared(g) \/ ~Ahead(g)
              /\ Ahead(g)' \/ Saved(g)' \/ Cleared(g)
    BY <1>1, <1>4, <1>8 DEF SInv, Exiting, Saved
<1>11. /\ Ahead(visible)' \/ disk[visible] # Absent \/ visible \in failed'
       /\ resume => Ahead("resume")' \/ "resume" \in failed' \/ (saved_visible = kept.visible /\ saved_playing = kept.playing)
    <2>1. Ahead(visible)' <=> Ahead(visible)
        BY <1>1, <1>5, <1>8 DEF Ahead
    <2> QED
        BY <1>1, <1>4, <1>8, <2>1 DEF SInv, Exiting
<1>12. Exiting'
    BY <1>1, <1>4, <1>5, <1>8, <1>9, <1>10, <1>11 DEF SInv, Exiting, Going, Cleared
<1> QED
    BY <1>1, <1>5, <1>6, <1>7, <1>12 DEF SInv, InUse, Starting

LEMMA ClearStep ==
    ASSUME SInv, Clear
    PROVE  SInv'
<1> USE NameFacts, Contents
<1>0. PICK f : f = This
    OBVIOUS
<1>1. /\ phase = "exit" /\ Going(steps') /\ steps[1] = <<"clear", f>>
      /\ \A x : Has(steps, x) <=> x = <<"clear", f>> \/ Has(steps', x)
      /\ \A g : ~AtHead("rename", g)'
    BY <1>0, OpStep DEF Clear
<1>2. cursor' = FALSE /\ UNCHANGED <<phase, loading, disk, tmp, visible, saved_visible, saved_playing, playing, resume, kept, failed, clean>>
    BY DEF Clear
<1>3. /\ mem' \in [File -> Content]
      /\ \A g \in File : mem'[g] = Empty \/ mem'[g] = mem[g]
      /\ \A g \in File : g \notin {"queue", "lib"} /\ ~(cursor /\ g = visible) => mem'[g] = mem[g]
    BY DEF Clear, SInv, Types
<1>4. visible \in Playlist /\ loading = {} /\ ~clean /\ visible = kept.visible
    BY <1>1 DEF SInv, Types, Exiting
<1>5. Types'
    BY <1>1, <1>2, <1>3 DEF SInv, Types, Going
<1>6. Renames'
    BY <1>1, <1>2, <1>3 DEF SInv, Renames
<1>7. /\ \A g \in File : Ahead(g)' <=> Ahead(g)
      /\ \A g : ~AtHead("write", g)
    <2>1. \A g \in File : LastOp(g) # <<"clear", f>>
        OBVIOUS
    <2> QED
        BY <1>1, <2>1 DEF Ahead, AtHead, LastOp
<1>8. ~Ahead("queue") /\ ~Ahead("lib")
    <2>1. steps \in Seq(ExitOp) /\ ClearLast(steps) /\ steps # <<>>
        BY <1>1 DEF SInv, Types, Exiting, Clear, Op
    <2>2. 1 \in 1..Len(steps)
        BY <2>1
    <2>3. \A j \in 1..Len(steps) : steps[j] \notin {LastOp("queue"), LastOp("lib")}
        BY <1>1, <2>1, <2>2 DEF ClearLast
    <2> QED
        BY <2>3 DEF Ahead, Has
<1>9. ASSUME NEW g \in Lists
      PROVE  /\ mem'[g] = Torn => g \in kept.torn
             /\ disk[g] = Torn => g \in kept.torn \cup failed
    BY <1>1, <1>3, <1>7 DEF SInv, Exiting
<1>10. ASSUME NEW g \in File
       PROVE  /\ mem'[g] = kept.mem[g] \/ Cleared(g) \/ ~Ahead(g)'
              /\ Ahead(g)' \/ Saved(g)' \/ Cleared(g)
    <2>1. CASE g \in {"queue", "lib"}
        BY <1>1, <1>2, <1>7, <1>8, <2>1 DEF SInv, Exiting, Saved
    <2>2. CASE cursor /\ g = visible
        BY <1>1, <1>4, <2>2 DEF SInv, Exiting, Cleared
    <2>3. CASE g \notin {"queue", "lib"} /\ ~(cursor /\ g = visible)
        BY <1>1, <1>2, <1>3, <1>7, <2>3 DEF SInv, Exiting, Saved
    <2> QED
        BY <2>1, <2>2, <2>3
<1>11. /\ Ahead(visible)' \/ disk[visible] # Absent \/ visible \in failed
       /\ resume => Ahead("resume")' \/ "resume" \in failed \/ (saved_visible = kept.visible /\ saved_playing = kept.playing)
    <2>1. Ahead(visible)' <=> Ahead(visible)
        BY <1>2, <1>4, <1>7 DEF Ahead
    <2> QED
        BY <1>1, <1>7, <2>1 DEF SInv, Exiting
<1>12. mem'[visible] # Absent
    BY <1>1, <1>3, <1>4 DEF SInv, Exiting
<1>13. Exiting'
    BY <1>1, <1>2, <1>4, <1>7, <1>9, <1>10, <1>11, <1>12 DEF SInv, Exiting, Going, Cleared
<1> QED
    BY <1>1, <1>2, <1>4, <1>5, <1>6, <1>13 DEF SInv, InUse, Starting

-----------------------------------------------------------------------------
LEMMA InitSInv ==
    ASSUME Init
    PROVE  SInv
<1> USE NameFacts, Contents
<1>1. phase = "down" /\ ~clean /\ loading = {} /\ steps = <<>> /\ failed = {} /\ clean \in BOOLEAN
      /\ visible = "none" /\ saved_visible = "none" /\ playing = "none" /\ saved_playing = "none"
      /\ cursor \in BOOLEAN /\ resume \in BOOLEAN
    BY DEF Init
<1>2. /\ mem \in [File -> Content] /\ disk \in [File -> Content] /\ tmp \in [Renamed -> Content]
      /\ \A f \in File : mem[f] # Torn /\ disk[f] # Torn
    BY DEF Init
<1>3. kept \in Memory
    <2> DEFINE h == [f \in Lists |-> Absent]
    <2>1. h \in [Lists -> Content]
        OBVIOUS
    <2>2. kept = [mem |-> mem, had |-> h, visible |-> "none", playing |-> "none", cursor |-> FALSE, torn |-> {}]
        BY DEF Init
    <2> HIDE DEF h
    <2> QED
        BY <1>2, <2>1, <2>2 DEF Memory
<1>4. <<>> \in Seq(ExitOp)
    OBVIOUS
<1>5. Types
    BY <1>1, <1>2, <1>3, <1>4 DEF Types
<1>6. Renames
    BY <1>2 DEF Renames
<1> QED
    BY <1>1, <1>5, <1>6 DEF SInv, InUse, Exiting, Starting

LEMMA NextSInv ==
    ASSUME SInv, [Next]_vars
    PROVE  SInv'
<1>1. CASE UNCHANGED vars
    <2>1. Types' /\ Renames' /\ InUse'
        BY <1>1 DEF SInv, Types, Renames, InUse, vars
    <2>2. Exiting'
        BY <1>1 DEF SInv, Exiting, AtHead, Ahead, Saved, Cleared, vars
    <2>3. (phase = "down" /\ clean => Done)' /\ Starting'
        BY <1>1 DEF SInv, Starting, Done, Saved, Cleared, vars
    <2> QED
        BY <2>1, <2>2, <2>3 DEF SInv
<1>2. CASE Start
    BY <1>2, StartStep
<1>3. CASE Look
    BY <1>3, LookStep
<1>4. CASE Quit
    BY <1>4, QuitStep
<1>5. CASE Exited
    BY <1>5, ExitedStep
<1>6. CASE Crash
    BY <1>6, CrashStep
<1>7. CASE Truncate
    BY <1>7, TruncateStep
<1>8. CASE Write
    BY <1>8, WriteStep
<1>9. CASE Create
    BY <1>9, CreateStep
<1>10. CASE Fill
    BY <1>10, FillStep
<1>11. CASE Rename
    BY <1>11, RenameStep
<1>12. CASE Clear
    BY <1>12, ClearStep
<1>13. ASSUME NEW f \in File, Loaded(f) PROVE SInv'
    BY <1>13, LoadedStep
<1>14. ASSUME NEW f \in File, Change(f) PROVE SInv'
    BY <1>14, ChangeStep
<1>15. ASSUME NEW p \in Playlist, DeletePlaylist(p) PROVE SInv'
    BY <1>15, DeletePlaylistStep
<1>16. CASE Play
    BY <1>16, PlayStep
<1>17. ASSUME NEW f \in File, Arrives(f) PROVE SInv'
    BY <1>17, ArrivesStep
<1> QED
    BY <1>1, <1>2, <1>3, <1>4, <1>5, <1>6, <1>7, <1>8, <1>9, <1>10, <1>11, <1>12, <1>13, <1>14, <1>15,
       <1>16, <1>17 DEF Next

LEMMA SpecSInv ==
    Spec => []SInv
<1>1. Init => SInv
    BY InitSInv
<1>2. SInv /\ [Next]_vars => SInv'
    BY NextSInv
<1> QED
    BY <1>1, <1>2, PTL DEF Spec

\* only the list at the head of what is ahead is torn
LEMMA AtRisk ==
    ASSUME SInv
    PROVE  OneListIsAtRisk
<1> SUFFICES ASSUME phase = "exit"
             PROVE  Cardinality({f \in Lists : disk[f] = Torn /\ mem[f] # Torn /\ f \notin kept.torn \cup failed}) <= 1
    BY DEF OneListIsAtRisk
<1> DEFINE R == {f \in Lists : disk[f] = Torn /\ mem[f] # Torn /\ f \notin kept.torn \cup failed}
<1>1. \A f \in R : AtHead("write", f)
    BY DEF SInv, Exiting
<1> HIDE DEF R
<1>2. CASE R = {}
    <2>1. Cardinality(R) = 0
        BY <1>2, FS_EmptySet
    <2> QED
        BY <2>1 DEF R
<1>3. CASE R # {}
    <2>1. PICK f : f \in R
        BY <1>3
    <2>2. R = {f}
        BY <1>1, <2>1 DEF AtHead
    <2>3. Cardinality(R) = 1
        BY <2>2, FS_Singleton
    <2> QED
        BY <2>3 DEF R
<1> QED
    BY <1>2, <1>3

\* Whenever the program exits, with lists still to be read as well, and however the exit is
\* cut short (killed at any point, any write failing): the files that are renamed are whole
\* unless a write of theirs failed, one list at most is torn, and an exit that was not cut
\* short leaves on the disk what the program had in memory.
THEOREM ExitKeepsFiles == Spec => []FilesSurvive
<1>1. SInv => FilesSurvive
    <2> SUFFICES ASSUME SInv
                 PROVE  FilesSurvive
        OBVIOUS
    <2>1. TypeOK
        BY DEF SInv, Types, TypeOK
    <2>2. RenamedFilesAreWhole
        BY DEF SInv, Renames, RenamedFilesAreWhole
    <2>3. ExitSaves
        BY DEF SInv, Done, ExitSaves
    <2> QED
        BY <2>1, <2>2, <2>3, AtRisk DEF FilesSurvive
<1> QED
    BY <1>1, SpecSInv, PTL

\* When all lists have been read after a start and nothing was done yet, everything the last
\* exit wrote is there again, but for the playlist commands_exit cleared; the playlist that
\* was shown is shown, or the one that was playing, which is the only one that can play.
THEOREM StartRestores == Spec => []StartBringsBack
<1>1. SInv => StartBringsBack
    <2> SUFFICES ASSUME SInv, Restarted
                 PROVE  /\ \A f \in File : mem[f] = kept.mem[f] \/ Cleared(f)
                        /\ visible \in {kept.visible, kept.playing}
                        /\ playing \in {kept.playing, "none"}
        BY DEF StartBringsBack
    <2>1. Done /\ (\A f \in File : mem[f] = disk[f])
          /\ visible \in {kept.visible, kept.playing} /\ playing \in {kept.playing, "none"}
        BY DEF SInv, Starting, Restarted
    <2>2. \A f \in File : disk[f] = kept.mem[f] \/ Cleared(f)
        BY <2>1 DEF Done, Saved, Restarted
    <2> QED
        BY <2>1, <2>2
<1> QED
    BY <1>1, SpecSInv, PTL
=============================================================================
