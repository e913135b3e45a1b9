-------------------------------- MODULE Uchar --------------------------------
(***************************************************************************)
(* Characters and bytes: common/uchar.c. A string is a sequence of bytes    *)
(* without its terminator, which Byte gives back for every later index;     *)
(* indexes count from 0 as in the code. What the C library is asked of a    *)
(* character, its width and its lower case, is external.                    *)
(***************************************************************************)
EXTENDS Integers, Sequences, FiniteSets

LOCAL INSTANCE SequencesExt
LOCAL INSTANCE FiniteSetsExt

CONSTANTS
    using_utf8,
    Wide, Narrow,   \* characters two columns wide, and combining ones that take none
    Lower,          \* the characters beyond ASCII that have a lower case, with it
    unidecomp_map,  \* sequence of [composed, base], in the order of the first
    Strings,        \* for the properties: the strings
    Scalars         \* and characters they are about

InvalidMask == 2^28

-----------------------------------------------------------------------------
(* Reading. *)

Byte(s, i) == IF i < Len(s) THEN s[i + 1] ELSE 0

\* the length of the sequence a byte begins; 0 if it continues one, -1 if it is in none
LenTab(b) ==
    CASE b < 128 -> 1 [] b \in 128..191 -> 0 [] b \in 192..223 -> 2 [] b \in 224..239 -> 3
      [] b \in 240..244 -> 4 [] OTHER -> -1

\* utf8_skip
SkipTab(b) == CASE b < 192 -> 1 [] b \in 192..223 -> 2 [] b \in 224..239 -> 3
                [] b \in 240..247 -> 4 [] b \in 248..251 -> 5 [] b \in 252..253 -> 6 [] OTHER -> 1

MinVal == <<0, 128, 2048, 65536>>
MaxVal == <<127, 2047, 65535, 1114111>>

Continued(s, i, len) == \A k \in 1..len - 1 : LenTab(Byte(s, i + k)) = 0
Value(s, i, len) ==
    FoldLeft(LAMBDA u, k : u * 64 + (Byte(s, i + k) % 64),
             Byte(s, i) % <<128, 32, 16, 8>>[len], [k \in 1..len - 1 |-> k])

\* u_get_char: the character at i and the index of the next
GetChar(s, i) ==
    LET len == LenTab(Byte(s, i))
    IN  IF len < 1 \/ ~Continued(s, i, len) THEN <<InvalidMask + Byte(s, i), i + 1>>
        ELSE <<Value(s, i, len), i + len>>

\* the loops that read a string to its end: its characters, and where each begins
Chars(s) ==
    LET from[i \in 0..Len(s)] ==
            IF Byte(s, i) = 0 THEN << >>
            ELSE LET got == GetChar(s, i) IN <<got[1]>> \o from[got[2]]
    IN  from[0]
Starts(s) ==
    LET from[i \in 0..Len(s)] == IF Byte(s, i) = 0 THEN <<i>> ELSE <<i>> \o from[GetChar(s, i)[2]]
    IN  from[0]

\* faulty: a sequence that is longer than it need be is valid
IsValidOverlong(s) ==
    LET valid[i \in 0..Len(s)] ==
            \/ Byte(s, i) = 0
            \/ LET len == LenTab(Byte(s, i)) IN len > 0 /\ Continued(s, i, len) /\ valid[i + len]
    IN  valid[0]

\* u_is_valid
IsValid(s) ==
    LET valid[i \in 0..Len(s)] ==
            \/ Byte(s, i) = 0
            \/ LET len == LenTab(Byte(s, i))
               IN  /\ len > 0 /\ Continued(s, i, len)
                   /\ len > 1 => Value(s, i, len) \in MinVal[len]..MaxVal[len]
                   /\ valid[i + len]
    IN  valid[0]

\* u_strlen: of a valid string
StrLen(s) ==
    LET from[i \in 0..Len(s) + 5] == IF Byte(s, i) = 0 THEN 0 ELSE 1 + from[i + SkipTab(Byte(s, i))]
    IN  from[0]

\* u_strlen_safe
StrLenSafe(s) ==
    LET from[i \in 0..Len(s)] ==
            IF Byte(s, i) = 0 THEN 0
            ELSE LET len == LenTab(Byte(s, i))
                 IN  1 + from[IF len > 1 /\ Continued(s, i, len) THEN i + len ELSE i + 1]
    IN  from[0]

\* faulty: the bytes that continue a sequence are not counted against its first
PrevCharPosAny(s, i) ==
    LET starts == {k \in 1..4 : i - k >= 0 /\ LenTab(Byte(s, i - k)) > 0}
    IN  i - (IF starts = {} THEN 1 ELSE Min(starts))

\* u_prev_char_pos: back over the bytes that continue a sequence, four with its first, which
\* must ask for just as many
PrevCharPos(s, i) ==
    LET back == {k \in 2..4 : i - k >= 0 /\ LenTab(Byte(s, i - k)) # 0
                              /\ \A c \in 1..k - 1 : LenTab(Byte(s, i - c)) = 0}
        fits == {k \in back : LenTab(Byte(s, i - k)) = k}
    IN  i - (IF fits = {} THEN 1 ELSE Min(fits))

\* u_strchr: the index behind the first uch, -1 if there is none
StrChr(s, uch) ==
    LET found == {n \in 1..Len(Chars(s)) : Chars(s)[n] = uch}
    IN  IF found = {} THEN -1 ELSE Starts(s)[Min(found) + 1]

-----------------------------------------------------------------------------
(* Widths: a control character and a byte that is in no sequence show as    *)
(* <xx>.                                                                    *)

\* external: wcwidth_uchar, for what is no control character
WcWidth(u) == CASE u \in Wide -> 2 [] u \in Narrow -> 0 [] OTHER -> 1

\* u_char_width
CharWidth(u) ==
    CASE u = 0 -> 1
      [] u \in 1..31 -> 4
      [] OTHER -> IF ~using_utf8 THEN 1 ELSE IF u >= InvalidMask THEN 4 ELSE WcWidth(u)

Total(seq) == FoldLeft(LAMBDA n, u : n + CharWidth(u), 0, seq)

\* u_str_width and u_str_nwidth
StrWidth(s) == Total(Chars(s))
StrNWidth(s, len) == Total(SubSeq(Chars(s), 1, IF len < Len(Chars(s)) THEN len ELSE Len(Chars(s))))

\* u_char_size
CharSize(u) == IF u <= MaxVal[4] THEN Min({n \in 1..4 : u <= MaxVal[n]}) ELSE 1

\* u_print_size and u_str_print_size, which counts the terminator
PrintSize(u) == IF u \in 1..30 THEN 4 ELSE CharSize(u)
StrPrintSize(s) == FoldLeft(LAMBDA n, u : n + PrintSize(u), 1, Chars(s))

-----------------------------------------------------------------------------
(* Writing. *)

\* u_set_char_raw
SetCharRaw(u) ==
    LET rest(k) == 128 + ((u \div 64^k) % 64)
    IN  CASE u <= 127 -> <<u>>
          [] u \in 128..2047 -> <<192 + (u \div 64), rest(0)>>
          [] u \in 2048..65535 -> <<224 + (u \div 4096), rest(1), rest(0)>>
          [] u \in 65536..1114111 -> <<240 + (u \div 262144), rest(2), rest(1), rest(0)>>
          [] OTHER -> <<u % 256>>

HexTab(n) == IF n < 10 THEN 48 + n ELSE 87 + n
Hex(u) == <<60, HexTab((u \div 16) % 16), HexTab(u % 16), 62>>

\* u_set_char
SetChar(u) == IF u = 0 THEN <<0>> ELSE IF u < 32 \/ u > MaxVal[4] THEN Hex(u) ELSE SetCharRaw(u)

\* u_to_utf8, with the terminator, and u_to_ascii
ToUtf8(s) == FoldLeft(LAMBDA out, u : out \o SetChar(u), << >>, Chars(s)) \o <<0>>
ToAscii(s, len) ==
    [n \in 1..(IF len < Len(Chars(s)) THEN len ELSE Len(Chars(s))) |->
        IF Chars(s)[n] < 128 THEN Chars(s)[n] ELSE 63]

\* faulty: what does not fit is left out, and the columns are given back
CopyCharsWhole(s, width) ==
    LET from[i \in 0..Len(s) + 1, w \in 0..width] ==
            LET got == GetChar(s, i)  rest == w - CharWidth(got[1])
            IN  IF got[1] = 0 \/ rest < 0 THEN [text |-> << >>, width |-> w]
                ELSE [from[got[2], rest] EXCEPT !.text = SetChar(got[1]) \o @]
    IN  from[0, width]

\* u_copy_chars: the bytes written and the columns left; of a <xx> as much as there is room for
CopyChars(s, width) ==
    LET from[i \in 0..Len(s) + 1, w \in 0..width] ==
            LET got == GetChar(s, i)  cw == CharWidth(got[1])  rest == w - cw
            IN  CASE got[1] = 0 -> [text |-> << >>, width |-> w]
                  [] got[1] # 0 /\ rest < 0 ->
                        IF cw = 4 /\ rest >= -3
                        THEN [text |-> SubSeq(Hex(got[1]), 1, w), width |-> 0]
                        ELSE [text |-> << >>, width |-> w]
                  [] OTHER -> [from[got[2], rest] EXCEPT !.text = SetChar(got[1]) \o @]
    IN  from[0, width]

\* u_skip_chars: the index and the columns left, below 0 where overskip allows it. It does not
\* look for the terminator before the width is reached.
SkipChars(s, width, overskip) ==
    LET from[i \in 0..Len(s), last \in 0..Len(s), w \in -3..width] ==
            IF w > 0 THEN from[GetChar(s, i)[2], i, w - CharWidth(GetChar(s, i)[1])]
            ELSE IF w < 0 /\ ~overskip
                 THEN [idx |-> last, width |-> w + CharWidth(GetChar(s, last)[1])]
            ELSE IF CharWidth(GetChar(s, i)[1]) = 0 THEN from[GetChar(s, i)[2], last, w]
            ELSE [idx |-> i, width |-> w]
    IN  from[0, 0, width]

-----------------------------------------------------------------------------
(* Folding and searching. *)

\* u_casefold_char
CasefoldChar(u) == IF u \in 65..90 THEN u + 32 ELSE IF u \in DOMAIN Lower THEN Lower[u] ELSE u

\* u_casefold
Casefold(s) == FoldLeft(LAMBDA out, u : out \o SetCharRaw(CasefoldChar(u)), << >>, Chars(s))

\* u_strcase_equal: b may end first, or be left over
StrCaseEqual(a, b) ==
    LET equal[i \in 0..Len(a), j \in 0..Len(b) + 1] ==
            IF Byte(a, i) = 0 THEN Byte(b, j) = 0
            ELSE LET au == GetChar(a, i)  bu == GetChar(b, j)
                 IN  CasefoldChar(au[1]) = CasefoldChar(bu[1]) /\ equal[au[2], bu[2]]
    IN  equal[0, 0]

\* faulty: the end is taken for one that was compared
GetBaseBelow(ch) ==
    LET search[b, e \in 0..Len(unidecomp_map)] ==
            LET half == (b + e) \div 2  m == unidecomp_map[half + 1]
            IN  CASE ch = m.composed -> m.base
                  [] ch # m.composed /\ half = b -> ch
                  [] ch > m.composed /\ half # b -> search[half, e]
                  [] OTHER -> search[b, half - 1]
    IN  IF ch < unidecomp_map[1].composed \/ ch > Last(unidecomp_map).composed THEN ch
        ELSE search[0, Len(unidecomp_map)]

\* get_base_from_composed
GetBaseFromComposed(ch) ==
    LET search[b, e \in 0..Len(unidecomp_map)] ==
            LET half == (b + e) \div 2  m == unidecomp_map[half + 1]
            IN  CASE ch = m.composed -> m.base
                  [] ch # m.composed /\ half = b -> ch
                  [] ch > m.composed /\ half # b -> search[half, e]
                  [] OTHER -> search[b, half]
    IN  IF ch < unidecomp_map[1].composed \/ ch > Last(unidecomp_map).composed THEN ch
        ELSE search[0, Len(unidecomp_map)]

Compared(u, only_base_chars) ==
    CasefoldChar(IF only_base_chars THEN GetBaseFromComposed(u) ELSE u)

\* do_u_strncase_equal: a from its beginning and b from j
StrNCaseEqual(a, b, j, len, only_base_chars) ==
    LET equal[n \in 0..len, ai \in 0..Len(a) + 1, bi \in 0..Len(b) + 1] ==
            \/ n = 0
            \/ LET au == GetChar(a, ai)  bu == GetChar(b, bi)
               IN  /\ Compared(au[1], only_base_chars) = Compared(bu[1], only_base_chars)
                   /\ equal[n - 1, au[2], bu[2]]
    IN  equal[len, 0, j]

\* do_u_strcasestr: the index needle is found at, -1 if it is not. There is no more to look
\* for when fewer bytes are left than needle has characters.
StrCaseStr(haystack, needle, only_base_chars) ==
    LET needle_len == StrLen(needle)
        from[i \in 0..Len(haystack)] ==
            IF Len(haystack) - i < needle_len THEN -1
            ELSE IF StrNCaseEqual(needle, haystack, i, needle_len, only_base_chars) THEN i
            ELSE from[GetChar(haystack, i)[2]]
    IN  from[0]

-----------------------------------------------------------------------------
Prefix(s, n) == SubSeq(Chars(s), 1, n)
Folded(s) == [n \in 1..Len(Chars(s)) |-> CasefoldChar(Chars(s)[n])]
\* u_char_width and u_set_char take a character for the same: none is read from four bytes
\* beyond the last there is, and no broken one where all are one column wide
IsCounted(s) ==
    \A n \in DOMAIN Chars(s) : Chars(s)[n] <= MaxVal[4] \/ (using_utf8 /\ Chars(s)[n] >= InvalidMask)
IsPrinted(u) == u <= MaxVal[4] /\ u \notin 1..31

\* u_get_char, u_set_char_raw, u_is_valid, u_strlen_safe and u_prev_char_pos: what is written
\* is read again, a string is valid just if its characters, written again, are its bytes and
\* none is broken, and the cursor goes back over any string by the characters it went forward.
ReadingIsSound ==
    /\ \A u \in Scalars :
          /\ GetChar(SetCharRaw(u), 0) = <<u, CharSize(u)>>
          /\ IsValid(SetCharRaw(u))
    /\ \A s \in Strings :
          /\ IsValid(s) <=>
                /\ FoldLeft(LAMBDA out, u : out \o SetCharRaw(u), << >>, Chars(s)) = s
                /\ \A n \in DOMAIN Chars(s) : Chars(s)[n] < InvalidMask
          /\ StrLenSafe(s) = Len(Chars(s))
          /\ IsValid(s) => StrLen(s) = Len(Chars(s))
          /\ \A n \in 2..Len(Starts(s)) : PrevCharPos(s, Starts(s)[n]) = Starts(s)[n - 1]

\* u_copy_chars, u_skip_chars and u_str_print_size: what is copied and what is left are just
\* as wide as was asked for, and at most the half of a wide character is left free where
\* there is more to copy; what is skipped is no wider, or too wide by the last character
\* only, and no combining character is cut off from its own; the size is enough for what can
\* be printed as it is.
ColumnsAreKept ==
    \A s \in Strings : \A width \in 0..5 :
        LET copied == CopyChars(s, width)
            under == SkipChars(s, width, FALSE)
            over == SkipChars(s, width, TRUE)
            at(idx) == CHOOSE n \in DOMAIN Starts(s) : Starts(s)[n] = idx
        IN  /\ IsCounted(s) =>
                  /\ StrWidth(copied.text) + copied.width = width
                  /\ copied.width > 0 => StrWidth(s) = StrWidth(copied.text) \/ copied.width = 1
            /\ width <= StrWidth(s) =>
                  /\ Total(Prefix(s, at(under.idx) - 1)) + under.width = width /\ under.width >= 0
                  /\ Total(Prefix(s, at(over.idx) - 1)) + over.width = width /\ over.width <= 0
                  /\ over.idx >= under.idx
                  /\ under.width = 0 => over.idx = under.idx /\ CharWidth(GetChar(s, over.idx)[1]) # 0
            /\ (\A n \in DOMAIN Chars(s) : IsPrinted(Chars(s)[n])) => Len(ToUtf8(s)) = StrPrintSize(s)

\* u_casefold, u_strcase_equal, get_base_from_composed and do_u_strcasestr: strings are equal
\* just if they fold to the same, and a needle is found at the first character from which
\* all of its own follow.
SearchingIsSound ==
    /\ \A n \in DOMAIN unidecomp_map :
          GetBaseFromComposed(unidecomp_map[n].composed) = unidecomp_map[n].base
    /\ \A a, b \in {s \in Strings : Len(s) <= 2} : StrCaseEqual(a, b) <=> Folded(a) = Folded(b)
    /\ \A s \in Strings : IsValid(s) => Chars(Casefold(s)) = Folded(s)
    /\ \A needle \in {s \in Strings : Len(s) <= 2 /\ IsValid(s)}, s \in Strings, base \in BOOLEAN :
          LET own == Chars(needle)
              hits == {n \in 1..Len(Chars(s)) - Len(own) + 1 :
                          \A k \in DOMAIN own : Compared(own[k], base) = Compared(Chars(s)[n + k - 1], base)}
          IN  StrCaseStr(s, needle, base) = IF hits = {} THEN -1 ELSE Starts(s)[Min(hits)]
=============================================================================
