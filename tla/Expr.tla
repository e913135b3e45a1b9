-------------------------------- MODULE Expr --------------------------------
(***************************************************************************)
(* Filter expressions (library/expr.c): the tokenizer, the parser, which    *)
(* builds the tree while it reads, and the check of its leaves, which       *)
(* replaces the names of filters by what they stand for.                    *)
(*                                                                         *)
(* Text is a sequence of characters, strings of length one. A tree is       *)
(* <<"and", l, r>>, <<"or", l, r>>, <<"not", e>> or a leaf                  *)
(* <<kind, key, op, value>>; Nil is no tree. Parsing takes and gives the    *)
(* index of a token; a result that is not ok is an error message.           *)
(***************************************************************************)
EXTENDS Integers, Sequences, SequencesExt, FiniteSets

CONSTANTS
    Digits,
    Builtin     \* the kind ("int", "str", "bool") of every key that is no filter

Nil == <<>>
Fail == [ok |-> FALSE, v |-> Nil, at |-> 0]
Done(v, at) == [ok |-> TRUE, v |-> v, at |-> at]

-----------------------------------------------------------------------------
(* Tokens: <<type, characters>>. *)

Specials == {"!", "<", ">", "=", "&", "|", "(", ")"}
Combines == {"!", "<", ">"}     \* with "=" they are one token
EndsWord == Specials \cup {" "}

\* the length of the longest prefix of s without a character of ends
Until(s, ends) == CHOOSE n \in 0..Len(s) :
    (\A i \in 1..n : s[i] \notin ends) /\ (n = Len(s) \/ s[n + 1] \in ends)

Word(w) ==
    LET digits == IF Head(w) = "-" THEN Tail(w) ELSE w
    IN  <<IF ToSet(digits) \subseteq Digits THEN "int" ELSE "key", w>>

RECURSIVE Tokens(_, _)
Tokens(s, toks) ==
    IF s = <<>> THEN Done(toks, 0)
    ELSE LET c == Head(s)
             From(n) == SubSeq(s, n, Len(s))
         IN CASE c = " " -> Tokens(Tail(s), toks)
              [] c \in Combines /\ Len(s) > 1 /\ s[2] = "=" ->
                    Tokens(From(3), Append(toks, <<c \o "=", <<>>>>))
              [] c \in Specials /\ ~(c \in Combines /\ Len(s) > 1 /\ s[2] = "=") ->
                    Tokens(Tail(s), Append(toks, <<c, <<>>>>))
              [] c = "'" ->     \* the quotation mark
                    LET n == Until(Tail(s), {"'"})
                    IN  IF n = Len(s) - 1 THEN Fail
                        ELSE Tokens(From(n + 3), Append(toks, <<"str", SubSeq(s, 2, n + 1)>>))
              [] OTHER ->
                    LET n == Until(s, EndsWord)
                        w == SubSeq(s, 1, n)
                    IN  IF "'" \in ToSet(w) THEN Fail
                        ELSE Tokens(From(n + 1), Append(toks, Word(w)))

-----------------------------------------------------------------------------
(* The parser. *)

Ops == {"<", ">", "=", "!=", "<=", ">="}
IsBinary(t) == t # Nil /\ t[1] \in {"and", "or"}

RECURSIVE Incomplete(_), Filled(_, _)
Incomplete(t) == IsBinary(t) /\ (t[3] = Nil \/ Incomplete(t[3]))
Filled(t, e) == <<t[1], t[2], IF t[3] = Nil THEN e ELSE Filled(t[3], e)>>

\* faulty: an operator takes what is right of the one before
AddToTheRight(root, e) ==
    IF root = Nil THEN e
    ELSE IF Incomplete(root) THEN Filled(root, e)
    ELSE IF IsBinary(root) THEN <<root[1], root[2], <<e[1], root[3], Nil>>>>
    ELSE <<e[1], root, Nil>>

\* at the end of the right spine there is room, or e is an operator and goes on top
Add(root, e) ==
    IF root = Nil THEN e
    ELSE IF Incomplete(root) THEN Filled(root, e)
    ELSE <<e[1], root, Nil>>

\* a key alone, or with an operator and a value
Comparison(toks, i) ==
    LET key == toks[i][2]
        op == toks[i + 1][1]
        val == toks[i + 2]
    IN  IF i = Len(toks) \/ op \notin Ops THEN Done(<<"bool", key, "", <<>>>>, i + 1)
        ELSE IF i + 1 = Len(toks) THEN Fail
        ELSE CASE val[1] = "str" /\ op \in {"=", "!="} -> Done(<<"str", key, op, val[2]>>, i + 3)
               [] val[1] = "int" -> Done(<<"int", key, op, val[2]>>, i + 3)
               [] val[1] = "key" -> Done(<<"id", key, op, val[2]>>, i + 3)
               [] OTHER -> Fail

RECURSIVE ParseOne(_, _), Parse(_, _, _, _)
ParseOne(toks, i) ==
    IF i > Len(toks) THEN Fail
    ELSE CASE toks[i][1] = "!" ->
                LET r == ParseOne(toks, i + 1)
                IN  IF r.ok THEN Done(<<"not", r.v>>, r.at) ELSE Fail
           [] toks[i][1] = "(" -> Parse(toks, i + 1, 1, Nil)
           [] toks[i][1] \in {"key", "int"} -> Comparison(toks, i)
           [] OTHER -> Fail

\* operators have no precedence; ')' ends what '(' began
Parse(toks, i, level, root) ==
    LET r == ParseOne(toks, i)
        tree == Add(root, r.v)
        type == toks[r.at][1]
    IN  IF ~r.ok THEN Fail
        ELSE IF r.at > Len(toks) THEN IF level > 0 THEN Fail ELSE Done(tree, r.at)
        ELSE CASE type = ")" -> IF level = 0 THEN Fail ELSE Done(tree, r.at + 1)
               [] type = "&" -> Parse(toks, r.at + 1, level, Add(tree, <<"and", Nil, Nil>>))
               [] type = "|" -> Parse(toks, r.at + 1, level, Add(tree, <<"or", Nil, Nil>>))
               [] OTHER -> Fail

\* expr_parse_i
ExprParse(s) == LET t == Tokens(s, <<>>) IN IF t.ok THEN Parse(t.v, 1, 0, Nil) ELSE Fail

-----------------------------------------------------------------------------
(* The grammar, to compare with: an expression is cut at the last operator  *)
(* outside of parentheses.                                                  *)

Depth(toks, i) == Cardinality({j \in 1..i : toks[j][1] = "("})
                  - Cardinality({j \in 1..i : toks[j][1] = ")"})
Inner(toks) == SubSeq(toks, 2, Len(toks) - 1)
\* "(" and the ")" that belongs to it are the first and the last token
IsEnclosed(toks) ==
    /\ Len(toks) > 2 /\ toks[1][1] = "(" /\ toks[Len(toks)][1] = ")"
    /\ \A i \in 1..Len(toks) - 1 : Depth(toks, i) > 0
    /\ Depth(toks, Len(toks)) = 0

RECURSIVE Meaning(_)
Meaning(toks) ==
    LET cuts == {i \in DOMAIN toks : toks[i][1] \in {"&", "|"} /\ Depth(toks, i) = 0}
        cut == CHOOSE i \in cuts : \A j \in cuts : j <= i
        l == Meaning(SubSeq(toks, 1, cut - 1))
        r == Meaning(SubSeq(toks, cut + 1, Len(toks)))
        e == Meaning(Tail(toks))
        kinds == [i \in DOMAIN toks |-> toks[i][1]]
    IN  IF toks = <<>> THEN Nil
        ELSE IF cuts # {}
        THEN IF l = Nil \/ r = Nil THEN Nil
             ELSE <<IF toks[cut][1] = "&" THEN "and" ELSE "or", l, r>>
        ELSE IF toks[1][1] = "!" THEN IF e = Nil THEN Nil ELSE <<"not", e>>
        ELSE IF IsEnclosed(toks) THEN Meaning(Inner(toks))
        ELSE IF kinds[1] \notin {"key", "int"} THEN Nil
        ELSE CASE Len(toks) = 1 -> <<"bool", toks[1][2], "", <<>>>>
               [] Len(toks) = 3 /\ kinds[2] \in Ops /\ kinds[3] \in {"int", "key"} ->
                    <<IF kinds[3] = "int" THEN "int" ELSE "id", toks[1][2], kinds[2], toks[3][2]>>
               [] Len(toks) = 3 /\ kinds[2] \in {"=", "!="} /\ kinds[3] = "str" ->
                    <<"str", toks[1][2], kinds[2], toks[3][2]>>
               [] OTHER -> Nil
=============================================================================
