-------------------------------- MODULE Glob --------------------------------
(***************************************************************************)
(* Patterns with * and ? (common/glob.c): compiled to a list of items, and  *)
(* matched by going on behind every place a text is found at. The index of  *)
(* the text is moved by the length of the pattern's bytes, whatever it was  *)
(* that matched them.                                                       *)
(***************************************************************************)
EXTENDS Uchar

LOCAL INSTANCE SequencesExt

CONSTANTS Patterns, Texts   \* for the property

Star == 42
Qmark == 63
Backslash == 92

\* an item is [type, text]; only one of type "text" has one
Item(type, text) == [type |-> type, text |-> text]

-----------------------------------------------------------------------------
\* what a text item is read to: [text, at] with the index behind it
TextFrom(pattern, start) ==
    LET read[i \in 0..Len(pattern)] ==
            LET escaped == Byte(pattern, i) = Backslash /\ i + 1 < Len(pattern)
                got == read[IF escaped THEN i + 2 ELSE i + 1]
            IN  IF Byte(pattern, i) \in {0, Star, Qmark} THEN [text |-> << >>, at |-> i]
                ELSE [got EXCEPT !.text = <<Byte(pattern, IF escaped THEN i + 1 ELSE i)>> \o @]
    IN  read[start]

Items(pattern) ==
    LET from[i \in 0..Len(pattern)] ==
            LET text == TextFrom(pattern, i)
            IN  CASE Byte(pattern, i) = 0 -> << >>
                  [] Byte(pattern, i) = Star -> <<Item("star", << >>)>> \o from[i + 1]
                  [] Byte(pattern, i) = Qmark -> <<Item("qmark", << >>)>> \o from[i + 1]
                  [] OTHER -> <<Item("text", text.text)>> \o from[text.at]
    IN  from[0]

\* where the run of stars and question marks at i ends; the items of one type in it
RunEnd(items, i) == Min({j \in i..Len(items) + 1 : j = Len(items) + 1 \/ items[j].type = "text"})
Of(type, items) == SelectSeq(items, LAMBDA item : item.type = type)

\* faulty: the question marks stay behind the star
SimplifyInPlace(items) ==
    LET from[i \in 1..Len(items) + 1] ==
            LET end == RunEnd(items, i)
                run == SubSeq(items, i, end - 1)
                stars == Of("star", run)
                rest == IF end > Len(items) THEN << >> ELSE <<items[end]>> \o from[end + 1]
            IN  SubSeq(stars, 1, IF stars = << >> THEN 0 ELSE 1) \o Of("qmark", run) \o rest
    IN  from[1]

\* simplify: between two texts the question marks first and then one star, if there is any
Simplify(items) ==
    LET from[i \in 1..Len(items) + 1] ==
            LET end == RunEnd(items, i)
                run == SubSeq(items, i, end - 1)
                stars == Of("star", run)
                rest == IF end > Len(items) THEN << >> ELSE <<items[end]>> \o from[end + 1]
            IN  Of("qmark", run) \o SubSeq(stars, 1, IF stars = << >> THEN 0 ELSE 1) \o rest
    IN  from[1]

\* glob_compile
GlobCompile(pattern) == Simplify(Items(pattern))

\* faulty: what follows a star is looked for once
GlobMatchOnce(head, text) ==
    LET match[k \in 1..Len(head) + 1, at \in 0..Len(text)] ==
            LET item == head[k]
                found == StrCaseStr(SubSeq(text, at + 1, Len(text)), head[k + 1].text, TRUE)
            IN  IF k > Len(head) THEN at = Len(text)
                ELSE CASE item.type = "text" ->
                            /\ StrNCaseEqual(item.text, text, at, StrLen(item.text), TRUE)
                            /\ match[k + 1, at + Len(item.text)]
                       [] item.type = "qmark" -> Byte(text, at) # 0 /\ match[k + 1, GetChar(text, at)[2]]
                       [] item.type = "star" ->
                            \/ k = Len(head)
                            \/ found >= 0 /\ match[k + 2, at + found + Len(head[k + 1].text)]
    IN  match[1, 0]

\* do_glob_match: behind a star the text after it is looked for, and if the rest does not
\* match from there, again one byte further on
GlobMatch(head, text) ==
    LET match[k \in 1..Len(head) + 1, at \in 0..Len(text)] ==
            LET item == head[k]
                found == StrCaseStr(SubSeq(text, at + 1, Len(text)), head[k + 1].text, TRUE)
            IN  IF k > Len(head) THEN at = Len(text)
                ELSE CASE item.type = "text" ->
                            /\ StrNCaseEqual(item.text, text, at, StrLen(item.text), TRUE)
                            /\ match[k + 1, at + Len(item.text)]
                       [] item.type = "qmark" -> Byte(text, at) # 0 /\ match[k + 1, GetChar(text, at)[2]]
                       [] item.type = "star" ->
                            \/ k = Len(head)
                            \/ /\ found >= 0
                               /\ \/ match[k + 2, at + found + Len(head[k + 1].text)]
                                  \/ match[k, at + found + 1]
    IN  match[1, 0]

-----------------------------------------------------------------------------
\* what a pattern means, an item and a character at a time
Meant(items, chars) ==
    LET meant[k \in 1..Len(items) + 1, c \in 1..Len(chars) + 1] ==
            LET own == Chars(items[k].text)
            IN  IF k > Len(items) THEN c > Len(chars)
                ELSE CASE items[k].type = "star" ->
                            \E d \in c..Len(chars) + 1 : meant[k + 1, d]
                       [] items[k].type = "qmark" -> c <= Len(chars) /\ meant[k + 1, c + 1]
                       [] items[k].type = "text" ->
                            /\ c + Len(own) - 1 <= Len(chars)
                            /\ \A n \in DOMAIN own : Compared(own[n], TRUE) = Compared(chars[c + n - 1], TRUE)
                            /\ meant[k + 1, c + Len(own)]
    IN  meant[1, 1]

\* a character is as long as what it is compared by
KeepsItsSize(s) == \A n \in DOMAIN Chars(s) : CharSize(Chars(s)[n]) = CharSize(Compared(Chars(s)[n], TRUE))

\* glob_compile and glob_match: after a star there is a text or nothing, which
\* do_glob_match asserts, and a pattern matches just what it means, however its stars and
\* question marks are mixed, as long as no character has a base of another length.
GlobIsSound ==
    \A pattern \in Patterns :
        LET head == GlobCompile(pattern)
        IN  /\ \A k \in DOMAIN head : head[k].type = "star" => k = Len(head) \/ head[k + 1].type = "text"
            /\ \A text \in Texts :
                  (KeepsItsSize(pattern) /\ KeepsItsSize(text)) =>
                      (GlobMatch(head, text) <=> Meant(Items(pattern), Chars(text)))
=============================================================================
